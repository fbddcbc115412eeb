SPECIFICATION Spec
CONSTANTS
    Messages = {m1, m2}
    Forks = {f1}
    MaxHeight = 1
    Capacity = 1
    EstimatesGas = TRUE
    GasRetries = 1
    PollLimit = 2
    NotFoundLimit = 1
PROPERTIES
    KeepsPromise
    Answered
    SettledByFinality
CHECK_DEADLOCK FALSE
