SPECIFICATION Safe
CONSTANTS
    Messages = {m1, m2}
    Forks = {f1}
    MaxHeight = 2
    Capacity = 1
    EstimatesGas = FALSE
    GasRetries = 0
    PollLimit = 1
    NotFoundLimit = 0
SYMMETRY Symmetric
INVARIANTS
    TypeOK
    FinalizedIsFinal
    DroppedIsOrphaned
    WaitingsIntact
CHECK_DEADLOCK FALSE
