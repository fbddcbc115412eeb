SPECIFICATION Spec
CONSTANTS
    Epoch = 2
    MaxHeight = 6
    MaxReorgs = 1
    MaxSilent = 2
    MaxFaults = 1
INVARIANTS
    TypeOK
    FinalitiesAscend
PROPERTIES
    StraysStop
    FinalitiesFollow
CHECK_DEADLOCK FALSE
