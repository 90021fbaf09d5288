CONSTANTS
    Instances = {i1, i2}
    Tokens = {t1, t2, t3}
    NoToken = NoToken
    MaxCodes = 2
SYMMETRY Symmetry
SPECIFICATION Spec
INVARIANTS
    TypeOK
    StoreCoherent
    StageHasData
    OverIsFinal
CHECK_DEADLOCK FALSE
