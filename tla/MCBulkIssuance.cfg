SPECIFICATION Spec
CONSTANTS
    Row = {x, y}
    Upload = Upload
    Retry = {again}
    None = None
    ChunkSize = 2
    MaxFailures = 2
INVARIANTS TypeOK OfferedAtMostOnce UncertainRowGuarded CompletedMeansIssued NotifiedMeansPersisted
SYMMETRY Symmetry
CHECK_DEADLOCK FALSE
