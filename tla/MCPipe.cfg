SPECIFICATION Spec
CONSTANTS
    p1 = p1  p2 = p2  p3 = p3
    Procs = {p1, p2, p3}
    First = p1
    Writers = {p1, p2}
    Killable = {p3}
    PIPE_BUF_SIZE = 3
    Reads = {2}
    Writes = {4}
    MaxBytes = 8
INVARIANTS
    NoLostWakeup
    FreedIsUnused

    
CHECK_DEADLOCK FALSE
