SPECIFICATION Spec
CONSTANT Conns = {c1, c2}
INVARIANTS TypeOK SendersExact ExitsClean GivesUpAfterSix
PROPERTIES ExitCompletes ConnectionsAccepted
CHECK_DEADLOCK FALSE
