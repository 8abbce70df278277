SPECIFICATION Spec
CONSTANT Conns = {c1}
INVARIANT OneConnectionIsHarmless
CHECK_DEADLOCK FALSE
