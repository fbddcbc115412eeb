SPECIFICATION Spec
CONSTANTS
    Epoch = 2
    MaxHeight = 6
    MaxReorgs = 1
    MaxSilent = 1
    MaxFaults = 1
PROPERTY InconsistentIsRecovered
CHECK_DEADLOCK FALSE
