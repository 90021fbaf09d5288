CONSTANTS
    MaxRuntimes = 1
    Codes = 3
    MaxCount = 4
    MaxBatches = 2
    MaxSecret = 2
    RotationSlots = 1
    Readers = {r1}
SPECIFICATION FairSpec
INVARIANTS
    TypeOK
    WithinLimit
    ShownSecretIsCurrent
PROPERTY
    WindowCloses
\* A paired instance whose runtime ended rests here.
CHECK_DEADLOCK FALSE
