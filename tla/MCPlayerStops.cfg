SPECIFICATION Spec
CONSTANTS
    Conns = {c1}
    Keys = {k1, k2}
    NoKey = none
    BadKeys = {}
    Requests <- PoliteRequests
    Polite = TRUE
    Faults = FALSE
    PlayerCap = 2
    ControlCap = 1
    MaxSetups = 2
    MaxRequests = 8
    MaxAudio = 2
INVARIANT StopsOnlyOnShutdown
CHECK_DEADLOCK FALSE
