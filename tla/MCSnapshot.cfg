SPECIFICATION Spec
CONSTANTS
    v1 = v1
    v2 = v2
    v3 = v3
    v4 = v4
    Validators <- MCValidators
    Sets <- MCSets
    MaxTurn = 2
    Epoch = 8
    Bohr = 12
    MaxHeight = 30
SYMMETRY Symmetric
INVARIANTS
    TypeOK
    BootAccepts
    BootAgrees
    BootCatchesUp
    SomeoneMaySeal
CHECK_DEADLOCK FALSE
