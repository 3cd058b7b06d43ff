SPECIFICATION Spec
CONSTANTS
    t1 = t1  k = k  KILL = KILL  USR1 = USR1  USR2 = USR2
    e1 = e1  e2 = e2  e3 = e3
    NULL = NULL
    ThreadList <- MCThreads
    Senders = {k}
    Signals = {KILL, USR1, USR2}
    SIGKILL = KILL
    Fatal = {KILL}
    Events = {e1, e2, e3}
    SigActions <- MCSigActions
    Calls <- MCCalls
    Masks <- MCMasks
INVARIANTS
    HandlerMaskHonoured
    EventsConserved

    
    
CHECK_DEADLOCK FALSE
