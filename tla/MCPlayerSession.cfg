SPECIFICATION FairSpec
CONSTANTS
    Conns = {c1}
    Keys = {k1}
    NoKey = none
    BadKeys = {}
    Requests <- PoliteRequests
    Polite = TRUE
    Faults = TRUE
    PlayerCap = 2
    ControlCap = 1
    MaxSetups = 1
    MaxRequests = 5
    MaxAudio = 2
INVARIANTS TypeOK FirstSessionSound NoCircularWait
PROPERTIES RequestsEnd LockReleased SessionsEnd ShutdownCompletes
CHECK_DEADLOCK FALSE
