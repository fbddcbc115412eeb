SPECIFICATION Spec
CONSTANTS
    CacheSize = 5
    FeedLimit = 0
    MaxHeight = 8
    MaxSeq = 2
    MaxReorgs = 0
    MaxSilent = 1
    MaxInFlight = 1
    MaxFaults = 0
PROPERTY Delivered
CHECK_DEADLOCK FALSE
