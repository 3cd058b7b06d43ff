SPECIFICATION TimedSpec
CONSTANTS
    c1 = c1  c2 = c2  t1 = t1  t2 = t2  t3 = t3  m1 = m1  m2 = m2
    None = None
    Cpus = {c1}
    Threads = {t1, t2, t3}
    Mutexes = {m1}
    BootThread = t1
    BootFreeq <- Free2
    MaxDepth = 1
PROPERTIES
    ReadyRuns
    TimedSleepEnds

