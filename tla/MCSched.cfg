SPECIFICATION Spec
CONSTANTS
    c1 = c1  c2 = c2  t1 = t1  t2 = t2  t3 = t3  m1 = m1  m2 = m2
    None = None
    Cpus = {c1, c2}
    Threads = {t1, t2, t3}
    Mutexes = {m1}
    BootThread = t1
    BootFreeq <- Free2
    MaxDepth = 2
INVARIANTS
    TypeOK
    LockDiscipline
    ScheduleEntry
    HandOff
    QueuesExact
    NoLostWakeup
    EventUnlinked
    HaltOnlyWhenDone
SYMMETRY Symm
