SPECIFICATION Spec
CONSTANTS
    Conns = {c1, c2}
    Requests <- MCRequests
    BadLine = bad
    MaxRead = 2
INVARIANTS TypeOK RefusedWithoutEffect VolumeIsLastLine
PROPERTY EachAnswered
CHECK_DEADLOCK FALSE
