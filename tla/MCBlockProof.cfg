SPECIFICATION Spec
CONSTANTS
    MaxQueryRange = 1
    Offset = 2
    CacheSize = 1
    MaxHeight = 4
    MaxSeq = 2
    MaxFaults = 1
INVARIANTS
    TypeOK
    AccumulatorIsChain
    ProofsVerify
    CoversPeer
    MissingRestored
    HeightFound
PROPERTIES
    LinkAnswered
CHECK_DEADLOCK FALSE
