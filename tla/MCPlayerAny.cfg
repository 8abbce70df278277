SPECIFICATION Spec
CONSTANTS
    Conns = {c1, c2}
    Keys = {k1, k2, k3}
    NoKey = none
    BadKeys = {k3}
    Requests <- AnyRequests
    Polite = FALSE
    Faults = TRUE
    PlayerCap = 1
    ControlCap = 1
    MaxSetups = 1
    MaxRequests = 2
    MaxAudio = 1
INVARIANTS CipherMatches OneAnswerEach
PROPERTY ServesAtomically
CHECK_DEADLOCK FALSE
SYMMETRY Symmetry
