SPECIFICATION Spec
CONSTANTS
    Row = {x, y}
    Upload = Upload
    Retry = {again}
    None = None
    ChunkSize = 1
    MaxFailures = 0
PROPERTIES UploadIsSettled
CHECK_DEADLOCK FALSE
