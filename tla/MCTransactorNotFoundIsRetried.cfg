SPECIFICATION Safe
CONSTANTS
    Messages = {m1}
    Forks = {f1, f2}
    MaxHeight = 2
    Capacity = 1
    EstimatesGas = TRUE
    GasRetries = 1
    PollLimit = 2
    NotFoundLimit = 1
PROPERTY NotFoundIsRetried
CHECK_DEADLOCK FALSE
