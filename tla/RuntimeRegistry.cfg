CONSTANTS
    MaxRuntimes = 2
    Callers = {c1}
SPECIFICATION FairSpec
INVARIANTS
    TypeOK
    OneSocket
    MapsBelongToRuntime
    DoneMeansReleased
PROPERTIES
    ImplementsLease
    StopReachesRuntime
