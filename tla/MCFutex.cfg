SPECIFICATION Spec
CONSTANTS
    t1 = t1  t2 = t2  t3 = t3  a1 = a1  a2 = a2  b1 = b1  b2 = b2  b3 = b3
    NULL = NULL
    Threads = {t1, t2, t3}
    Addrs = {a1, a2}
    Vals = {0, 1}
    Counts = {0, 1, 2}
    Blocks = {b1, b2, b3}
    Timeouts = {0}
    MaxTime = 2

    
PROPERTIES
    
    NanosleepEnds
CHECK_DEADLOCK FALSE
