SPECIFICATION Spec
CONSTANTS
    CacheSize = 2
    Checkpoint = 2
    MaxHeight = 3
    MaxReorgs = 1
    MaxFaults = 1
INVARIANTS
    TypeOK
    CheckpointsKept
    PanicNeedsFullCache
PROPERTIES
    CatchesUp
CHECK_DEADLOCK FALSE
