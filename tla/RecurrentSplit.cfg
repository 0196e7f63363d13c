SPECIFICATION MemSpec
CONSTANTS
    Size = 2
    Depth = 2
    MaxLen = 4
    MaxBatch = 3
    MaxOps = 4
    Trailing = FALSE
INVARIANTS
    SnapshotsValid
CHECK_DEADLOCK FALSE
