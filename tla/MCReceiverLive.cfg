SPECIFICATION Spec
CONSTANTS
    CacheSize = 5
    FeedLimit = 1
    MaxHeight = 6
    MaxSeq = 1
    MaxReorgs = 1
    MaxSilent = 1
    MaxInFlight = 2
    MaxFaults = 1
INVARIANTS
    
    MessagesAreKept
PROPERTY Delivered
CHECK_DEADLOCK FALSE
