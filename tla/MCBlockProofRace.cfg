SPECIFICATION Safe
CONSTANTS
    MaxQueryRange = 2
    Offset = 2
    CacheSize = 1
    MaxHeight = 4
    MaxSeq = 2
    MaxFaults = 1
INVARIANTS
    ProofVerifies
CHECK_DEADLOCK FALSE
