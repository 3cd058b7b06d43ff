SPECIFICATION Spec
CONSTANTS
    p1 = p1  p2 = p2  p3 = p3  t1 = t1  t2 = t2  t3 = t3
    NULL = NULL
    Procs = {p1, p2, p3}
    Threads = {t1, t2, t3}
    InitProc = p1
    InitThread = t1
    MaxThreads = 2
    ConcurrentWait = FALSE
INVARIANTS
    TreeExact
    NoLostExit
PROPERTIES
    ReapedByParent
    ExitNotified
CHECK_DEADLOCK FALSE
