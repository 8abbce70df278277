SPECIFICATION Spec
CONSTANT Conns = {c1}
INVARIANT GivesUpOnFourthTry
CHECK_DEADLOCK FALSE
