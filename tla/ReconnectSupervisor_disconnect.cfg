CONSTANTS
    Threads = {g1, g2}
    Watchdog = w
    Calls = {"disconnect"}
    MaxCalls = 1
    MaxFaults = 1
SYMMETRY ThreadSymmetry
SPECIFICATION Spec
PROPERTY DisconnectNotUndone
CHECK_DEADLOCK FALSE
