SPECIFICATION Spec
CONSTANTS
    Row = {x}
    Upload = Upload
    Retry = {}
    None = None
    ChunkSize = 1
    MaxFailures = 0
INVARIANTS NotifiedFileIsFinal
CHECK_DEADLOCK FALSE
