CONSTANTS
    Threads = {g1}
    Watchdog = w
    Calls = {"disconnect", "logout", "reconnect", "connect"}
    MaxCalls = 2
    MaxFaults = 3
SPECIFICATION FairSpec
INVARIANTS
    TypeOK
    SlotExclusive
    NoQRLoop
PROPERTIES
    SlotReleased
    NeverForgotten
\* An instance nobody asks anything of rests here.
CHECK_DEADLOCK FALSE
