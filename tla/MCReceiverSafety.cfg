SPECIFICATION Safe
CONSTANTS
    CacheSize = 6
    FeedLimit = 1
    MaxHeight = 6
    MaxSeq = 1
    MaxReorgs = 1
    MaxSilent = 2
    MaxInFlight = 2
    MaxFaults = 1
INVARIANTS
    TypeOK
    CacheIsFinal
    NeverPanics
    HeightIsRoot
    TreeIsBranch
    ProofsAreFinal
    MessagesAreFinal
    MessagesAreKept
CHECK_DEADLOCK FALSE
