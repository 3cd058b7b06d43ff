SPECIFICATION Spec
CONSTANTS
    p1 = p1  p2 = p2  f1 = f1  x1 = x1
    NULL = NULL
    Procs = {p1, p2}
    First = p1
    MAX_FD_COUNT = 2
    FDNUM = 3
    Files = {f1}
    Pipes = {x1}
    BadOld = FALSE
INVARIANTS
    RefcountExact
    ObjectsExact
    FreedIsUnreachable
CHECK_DEADLOCK FALSE
