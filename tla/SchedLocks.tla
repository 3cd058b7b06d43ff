----------------------------- MODULE SchedLocks -----------------------------
(***************************************************************************)
(* Proofs about the thread layer, for any number of CPUs, threads and      *)
(* mutexes, part 1: types, the lock discipline and the locals of the CPUs  *)
(* (the inductive invariant LockInv).                                      *)
(***************************************************************************)
EXTENDS Sched, TLAPS

-----------------------------------------------------------------------------
(***************************************************************************)
(* Sequences                                                               *)
(***************************************************************************)
LEMMA SeqHead ==
  ASSUME NEW S, NEW s \in Seq(S), s # <<>>
  PROVE  Head(s) \in S /\ Tail(s) \in Seq(S)
  OBVIOUS

LEMMA SeqAppend ==
  ASSUME NEW S, NEW s \in Seq(S), NEW x \in S
  PROVE  Append(s, x) \in Seq(S) /\ Append(s, x) # <<>>
<1>1. Append(s, x) \in Seq(S) /\ Len(Append(s, x)) = Len(s) + 1 /\ Len(s) \in Nat
  OBVIOUS
<1>2. Len(Append(s, x)) # 0
  BY <1>1
<1> QED BY <1>1, <1>2, Len(<<>>) = 0, Zenon

LEMMA SeqPush ==
  ASSUME NEW S, NEW s \in Seq(S), NEW x \in S
  PROVE  <<x>> \o s \in Seq(S)
  OBVIOUS

LEMMA SeqConcat ==
  ASSUME NEW S, NEW s \in Seq(S), NEW r \in Seq(S)
  PROVE  s \o r \in Seq(S)
  OBVIOUS

LEMMA SeqIndex ==
  ASSUME NEW S, NEW s \in Seq(S), NEW i \in Nat \ {0}, i <= Len(s)
  PROVE  s[i] \in S
  OBVIOUS

LEMMA SeqRemove ==
  ASSUME NEW S, NEW s \in Seq(S), NEW i \in Nat \ {0}, i <= Len(s)
  PROVE  Unlink(s, i) \in Seq(S)
  BY DEF Unlink

LEMMA SeqInsert ==
  ASSUME NEW S, NEW s \in Seq(S), NEW x \in S, NEW i \in 1..Len(s) + 1
  PROVE  LinkAt(s, i, x) \in Seq(S)
  BY DEF LinkAt

-----------------------------------------------------------------------------
(***************************************************************************)
(* Type correctness and the lock discipline                                *)
(***************************************************************************)

\* Locations at which a CPU executes on behalf of a thread.
ThreadLocs == {"user", "yield", "schedule", "sl_enter", "sl_td", "relock", "ta_td", "fk_runq",
               "ex_free", "first", "yielded", "slept", "dead"}

\* The pointers of CPU c are set where they are used.
LocalsSet(c) ==
    /\ pc[c] \in ThreadLocs => running[c] # None
    /\ pc[c] \in {"sr_enter", "sr_loop", "idle"} => running[c] = None
    /\ pc[c] \in {"sl_enter", "sl_td", "slept", "relock", "wk_enter", "wk_scan"} => chan[c] # None
    /\ pc[c] \in {"wk_enter", "wk_scan"} /\ chan[c] \in Mutexes => running[c] # None
    /\ pc[c] = "fk_runq" => td[c] # None

\* The status with which CPU c leaves its thread, kept by the td_lock it holds.
Leaving(c) ==
    /\ pc[c] = "ex_free" => status[running[c]] = "UNUSED"
    /\ pc[c] = "schedule" =>
          /\ status[running[c]] # "RUNNING"
          /\ status[running[c]] = "SLEEPING" => chan[c] # None

CpuInv == \A c \in Cpus : LocalsSet(c) /\ Leaving(c)

\* td_alloc() holds the free queue between its test and the removal.
FreeqInv == \A c \in Cpus : pc[c] = "ta_td" => freeq # <<>>

\* A thread inside sleep() was saved with its channel.
CtxInv == \A t \in Threads : ctx[t].pc = "slept" => ctx[t].chan # None

MutexInv == \A m \in Mutexes : owner[m] = None <=> depth[m] = 0

\* The inductive invariant for type correctness and the lock discipline.
LockInv == TypeOK /\ LockDiscipline /\ CpuInv /\ FreeqInv /\ CtxInv /\ MutexInv

USE DEF Goto, At, InUser, cpuVars, threadVars, lockVars, mutexVars, queueVars

\* A step of a CPU leaves the locals of CPU d alone.
Kept(d) ==
    /\ pc'[d] = pc[d] /\ running'[d] = running[d] /\ chan'[d] = chan[d] /\ td'[d] = td[d]
    /\ pos'[d] = pos[d] /\ ready'[d] = ready[d] /\ idle'[d] = idle[d]

\* The locks CPU c owns are those of its control point, and it passes a lock
\* only between itself and nobody.
QueuesOwned(c)  == \A q \in Queues : qlock[q] = c <=> InCritical(c, q)
QueuesPassed(c) == \A q \in Queues : qlock'[q] # qlock[q] => {qlock[q], qlock'[q]} \subseteq {c, None}
MutexesOwned(c)  == \A m \in Mutexes : mtxLo[m] = c <=> InMutex(c, m)
MutexesPassed(c) == \A m \in Mutexes : mtxLo'[m] # mtxLo[m] => {mtxLo[m], mtxLo'[m]} \subseteq {c, None}
ThreadsOwned(c)  == \A t \in Threads : tdLock[t] = c <=> InThread(c, t)
ThreadsPassed(c) == \A t \in Threads : tdLock'[t] # tdLock[t] => {tdLock[t], tdLock'[t]} \subseteq {c, None}

\* A step of CPU c neither reaches the removal with an empty free queue nor
\* empties the queue under another CPU.
FreeqStays(c) ==
    /\ pc'[c] = "ta_td" => freeq' # <<>>
    /\ freeq # <<>> /\ pc[c] # "ta_td" => freeq' # <<>>

LEMMA LockInit == Init => LockInv
  BY NoneAssumption, BootAssumption, DepthAssumption DEF Init, LockInv, TypeOK, CpuTypes, ThreadTypes, LockTypes, MutexTypes, QueueTypes,
     LockDiscipline, QueueLocks, MutexLocks, ThreadLocks, CpuInv, LocalsSet, Leaving, FreeqInv,
     CtxInv, MutexInv, InCritical, InMutex, InThread, Queues, Chans, Locations, ResumePoints,
     Statuses, ThreadLocs

LEMMA RunningThread ==
  ASSUME LockInv, NEW c \in Cpus, pc[c] \in ThreadLocs
  PROVE  running[c] \in Threads
  BY Zenon DEF LockInv, TypeOK, CpuTypes, CpuInv, LocalsSet

LEMMA ChanSet ==
  ASSUME LockInv, NEW c \in Cpus,
         pc[c] \in {"sl_enter", "sl_td", "slept", "relock", "wk_enter", "wk_scan"}
  PROVE  chan[c] \in Chans /\ (chan[c] \in Mutexes <=> chan[c] \notin Threads)
  BY ChanAssumption, Zenon DEF LockInv, TypeOK, CpuTypes, CpuInv, LocalsSet, Chans

\* The threads taken from a queue.
LEMMA PickedThread ==
  ASSUME LockInv, runq # <<>>
  PROVE  /\ Head(runq) \in Threads
         /\ ctx[Head(runq)].pc \in ResumePoints
         /\ ctx[Head(runq)].chan \in Chans \cup {None}
         /\ ctx[Head(runq)].pc = "slept" => ctx[Head(runq)].chan # None
<1>1. Head(runq) \in Threads
  BY SeqHead, Zenon DEF LockInv, TypeOK, QueueTypes
<1> QED
  BY <1>1, Zenon DEF LockInv, TypeOK, ThreadTypes, CtxInv

LEMMA ScannedThread ==
  ASSUME LockInv, NEW c \in Cpus, pos[c] <= Len(sleepq)
  PROVE  sleepq[pos[c]] \in Threads
  BY SeqIndex, Zenon DEF LockInv, TypeOK, CpuTypes, QueueTypes

LEMMA NewThread ==
  ASSUME LockInv, NEW c \in Cpus, pc[c] = "ta_td"
  PROVE  Head(freeq) \in Threads /\ Tail(freeq) \in Seq(Threads)
  BY SeqHead, Zenon DEF LockInv, TypeOK, QueueTypes, FreeqInv

LEMMA ExpiredThread ==
  ASSUME LockInv, tseq # <<>>
  PROVE  Head(tseq) \in Threads /\ Tail(tseq) \in Seq(Threads)
  BY SeqHead, Zenon DEF LockInv, TypeOK, QueueTypes

\* A step of CPU c leaves the other CPUs alone.
LEMMA OthersStill ==
  ASSUME LockInv, NEW c \in Cpus, CpuStep(c), NEW d \in Cpus, d # c
  PROVE  Kept(d)
<1> CpuTypes
  BY Zenon DEF LockInv, TypeOK
<1>1. CASE Yield(c)
  BY <1>1, Zenon DEF Yield, CpuTypes, Kept
<1>2. CASE Schedule(c)
  BY <1>2, Zenon DEF Schedule, ResumePoint, CpuTypes, Kept
<1>3. CASE SrEnter(c)
  BY <1>3, Zenon DEF SrEnter, CpuTypes, Kept
<1>4. CASE SrHalt(c)
  BY <1>4, Zenon DEF SrHalt, CpuTypes, Kept
<1>5. CASE SrIdle(c)
  BY <1>5, Zenon DEF SrIdle, MayHalt, AllIdle, CpuTypes, Kept
<1>6. CASE IdleLeave(c)
  BY <1>6, Zenon DEF IdleLeave, CpuTypes, Kept
<1>7. CASE Pick(c)
  BY <1>7, Zenon DEF Pick, CpuTypes, Kept
<1>8. CASE Resume(c)
  BY <1>8, Zenon DEF Resume, CpuTypes, Kept
<1>9. CASE SleepEnter(c)
  BY <1>9, Zenon DEF SleepEnter, CpuTypes, Kept
<1>10. CASE SleepTd(c)
  BY <1>10, Zenon DEF SleepTd, CpuTypes, Kept
<1>11. CASE SleepReturn(c)
  BY <1>11, Zenon DEF SleepReturn, CpuTypes, Kept
<1>12. CASE RelockClaim(c)
  BY <1>12, Zenon DEF RelockClaim, CpuTypes, Kept
<1>13. CASE RelockSleep(c)
  BY <1>13, Zenon DEF RelockSleep, CpuTypes, Kept
<1>14. CASE RelockTimed(c)
  BY <1>14, Zenon DEF RelockTimed, CpuTypes, Kept
<1>15. CASE WakeEnter(c)
  BY <1>15, Zenon DEF WakeEnter, CpuTypes, Kept
<1>16. CASE WakeSkip(c)
  BY <1>16, Zenon DEF WakeSkip, CpuTypes, Kept
<1>17. CASE WakeTake(c)
  BY <1>17, Zenon DEF WakeTake, CpuTypes, Kept
<1>18. CASE WakeDoneMutex(c)
  BY <1>18, Zenon DEF WakeDoneMutex, WakeDone, CpuTypes, Kept
<1>19. CASE WakeDoneTimed(c)
  BY <1>19, Zenon DEF WakeDoneTimed, WakeDone, CpuTypes, Kept
<1>20. CASE NanoSleep(c)
  BY <1>20, Zenon DEF NanoSleep, CpuTypes, Kept
<1>21. CASE TimerInt(c)
  BY <1>21, Zenon DEF TimerInt, CpuTypes, Kept
<1>22. CASE TcExpire(c)
  BY <1>22, Zenon DEF TcExpire, CpuTypes, Kept
<1>23. CASE TcDone(c)
  BY <1>23, Zenon DEF TcDone, CpuTypes, Kept
<1>24. CASE TdAllocFail(c)
  BY <1>24, Zenon DEF TdAllocFail, CpuTypes, Kept
<1>25. CASE TdAlloc(c)
  BY <1>25, Zenon DEF TdAlloc, CpuTypes, Kept
<1>26. CASE TdAllocTd(c)
  BY <1>26, Zenon DEF TdAllocTd, CpuTypes, Kept
<1>27. CASE ForkRunq(c)
  BY <1>27, Zenon DEF ForkRunq, CpuTypes, Kept
<1>28. CASE Exit(c)
  BY <1>28, Zenon DEF Exit, CpuTypes, Kept
<1>29. CASE ExitFree(c)
  BY <1>29, Zenon DEF ExitFree, CpuTypes, Kept
<1>30. ASSUME NEW m \in Mutexes, MtxReenter(c, m) PROVE Kept(d)
  BY <1>30, Zenon DEF MtxReenter, CpuTypes, Kept
<1>31. ASSUME NEW m \in Mutexes, MtxClaim(c, m) PROVE Kept(d)
  BY <1>31, Zenon DEF MtxClaim, CpuTypes, Kept
<1>32. ASSUME NEW m \in Mutexes, MtxBlock(c, m) PROVE Kept(d)
  BY <1>32, Zenon DEF MtxBlock, CpuTypes, Kept
<1>33. ASSUME NEW m \in Mutexes, MtxReleave(c, m) PROVE Kept(d)
  BY <1>33, Zenon DEF MtxReleave, CpuTypes, Kept
<1>34. ASSUME NEW m \in Mutexes, MtxRelease(c, m) PROVE Kept(d)
  BY <1>34, Zenon DEF MtxRelease, CpuTypes, Kept
<1> QED
  BY Zenon, <1>1, <1>2, <1>3, <1>4, <1>5, <1>6, <1>7, <1>8, <1>9, <1>10, <1>11, <1>12, <1>13,
     <1>14, <1>15, <1>16, <1>17, <1>18, <1>19, <1>20, <1>21, <1>22, <1>23, <1>24, <1>25,
     <1>26, <1>27, <1>28, <1>29, <1>30, <1>31, <1>32, <1>33, <1>34
     DEF CpuStep, MtxLockSleep, MtxUnlockSleep

LEMMA CpuTypesStep ==
  ASSUME LockInv, NEW c \in Cpus, CpuStep(c)
  PROVE  CpuTypes'
<1> CpuTypes
  BY Zenon DEF LockInv, TypeOK
<1>1. CASE Yield(c)
  BY <1>1, Zenon DEF Yield, CpuTypes, Locations
<1>2. CASE Schedule(c)
  BY <1>2, Zenon DEF Schedule, ResumePoint, CpuTypes, Locations, ResumePoints
<1>3. CASE SrEnter(c)
  BY <1>3, Zenon DEF SrEnter, CpuTypes, Locations
<1>4. CASE SrHalt(c)
  BY <1>4, Zenon DEF SrHalt, CpuTypes, Locations
<1>5. CASE SrIdle(c)
  BY <1>5, Zenon DEF SrIdle, MayHalt, AllIdle, CpuTypes, Locations
<1>6. CASE IdleLeave(c)
  BY <1>6, Zenon DEF IdleLeave, CpuTypes, Locations
<1>7. CASE Pick(c)
  <2>1. Head(runq) \in Threads
    BY <1>7, PickedThread, Zenon DEF Pick
  <2>2. ctx[Head(runq)].pc \in ResumePoints
    BY <1>7, PickedThread, Zenon DEF Pick
  <2>3. ctx[Head(runq)].chan \in Chans \cup {None}
    BY <1>7, PickedThread, Zenon DEF Pick
  <2> QED
    BY <1>7, <2>1, <2>2, <2>3, Zenon DEF Pick, CpuTypes, Locations, ResumePoints
<1>8. CASE Resume(c)
  BY <1>8, Zenon DEF Resume, CpuTypes, Locations
<1>9. CASE SleepEnter(c)
  BY <1>9, Zenon DEF SleepEnter, CpuTypes, Locations
<1>10. CASE SleepTd(c)
  BY <1>10, Zenon DEF SleepTd, CpuTypes, Locations
<1>11. CASE SleepReturn(c)
  BY <1>11, Zenon DEF SleepReturn, CpuTypes, Locations
<1>12. CASE RelockClaim(c)
  BY <1>12, Zenon DEF RelockClaim, CpuTypes, Locations
<1>13. CASE RelockSleep(c)
  BY <1>13, Zenon DEF RelockSleep, CpuTypes, Locations
<1>14. CASE RelockTimed(c)
  BY <1>14, Zenon DEF RelockTimed, CpuTypes, Locations
<1>15. CASE WakeEnter(c)
  BY <1>15 DEF WakeEnter, CpuTypes, Locations
<1>16. CASE WakeSkip(c)
  BY <1>16, SMTT(60) DEF WakeSkip, CpuTypes, Locations
<1>17. CASE WakeTake(c)
  <2>1. Append(ready[c], sleepq[pos[c]]) \in Seq(Threads)
    BY <1>17, ScannedThread, SeqAppend, Zenon DEF WakeTake, CpuTypes
  <2> QED
    BY <1>17, <2>1, Zenon DEF WakeTake, CpuTypes, Locations
<1>18. CASE WakeDoneMutex(c)
  BY <1>18 DEF WakeDoneMutex, WakeDone, CpuTypes, Locations
<1>19. CASE WakeDoneTimed(c)
  BY <1>19 DEF WakeDoneTimed, WakeDone, CpuTypes, Locations
<1>20. CASE NanoSleep(c)
  <2>1. running[c] \in Threads
    BY <1>20, RunningThread, Zenon DEF NanoSleep, ThreadLocs
  <2> QED
    BY <1>20, <2>1, Zenon DEF NanoSleep, CpuTypes, Locations, Chans
<1>21. CASE TimerInt(c)
  BY <1>21, Zenon DEF TimerInt, CpuTypes, Locations
<1>22. CASE TcExpire(c)
  <2>1. Head(tseq) \in Threads
    BY <1>22, ExpiredThread, Zenon DEF TcExpire
  <2> QED
    BY <1>22, <2>1, Zenon DEF TcExpire, CpuTypes, Locations, Chans
<1>23. CASE TcDone(c)
  BY <1>23, Zenon DEF TcDone, CpuTypes, Locations
<1>24. CASE TdAllocFail(c)
  BY <1>24, Zenon DEF TdAllocFail, CpuTypes, Locations
<1>25. CASE TdAlloc(c)
  BY <1>25, Zenon DEF TdAlloc, CpuTypes, Locations
<1>26. CASE TdAllocTd(c)
  <2>1. Head(freeq) \in Threads
    BY <1>26, NewThread, Zenon DEF TdAllocTd
  <2> QED
    BY <1>26, <2>1, Zenon DEF TdAllocTd, CpuTypes, Locations
<1>27. CASE ForkRunq(c)
  BY <1>27, Zenon DEF ForkRunq, CpuTypes, Locations
<1>28. CASE Exit(c)
  BY <1>28, Zenon DEF Exit, CpuTypes, Locations
<1>29. CASE ExitFree(c)
  BY <1>29, Zenon DEF ExitFree, CpuTypes, Locations
<1>30. ASSUME NEW m \in Mutexes, MtxReenter(c, m) PROVE CpuTypes'
  BY <1>30, Zenon DEF MtxReenter, CpuTypes, Locations
<1>31. ASSUME NEW m \in Mutexes, MtxClaim(c, m) PROVE CpuTypes'
  BY <1>31, Zenon DEF MtxClaim, CpuTypes, Locations
<1>32. ASSUME NEW m \in Mutexes, MtxBlock(c, m) PROVE CpuTypes'
  BY <1>32, Zenon DEF MtxBlock, CpuTypes, Locations, Chans
<1>33. ASSUME NEW m \in Mutexes, MtxReleave(c, m) PROVE CpuTypes'
  BY <1>33, Zenon DEF MtxReleave, CpuTypes, Locations
<1>34. ASSUME NEW m \in Mutexes, MtxRelease(c, m) PROVE CpuTypes'
  BY <1>34, Zenon DEF MtxRelease, CpuTypes, Locations, Chans
<1> QED
  BY Zenon, <1>1, <1>2, <1>3, <1>4, <1>5, <1>6, <1>7, <1>8, <1>9, <1>10, <1>11, <1>12, <1>13,
     <1>14, <1>15, <1>16, <1>17, <1>18, <1>19, <1>20, <1>21, <1>22, <1>23, <1>24, <1>25,
     <1>26, <1>27, <1>28, <1>29, <1>30, <1>31, <1>32, <1>33, <1>34
     DEF CpuStep, MtxLockSleep, MtxUnlockSleep

LEMMA ThreadTypesStep ==
  ASSUME LockInv, NEW c \in Cpus, CpuStep(c)
  PROVE  ThreadTypes'
<1> ThreadTypes
  BY Zenon DEF LockInv, TypeOK
<1> chan \in [Cpus -> Chans \cup {None}]
  BY Zenon DEF LockInv, TypeOK, CpuTypes
<1>1. CASE Yield(c)
  <2>1. running[c] \in Threads
    BY <1>1, RunningThread, Zenon DEF Yield, ThreadLocs
  <2> QED
    BY <1>1, <2>1, Zenon DEF Yield, ThreadTypes, Statuses
<1>2. CASE Schedule(c)
  <2>1. running[c] \in Threads
    BY <1>2, RunningThread, Zenon DEF Schedule, ThreadLocs
  <2> QED
    BY <1>2, <2>1, Zenon DEF Schedule, ResumePoint, ThreadTypes, Statuses, ResumePoints
<1>3. CASE Pick(c)
  <2>1. Head(runq) \in Threads
    BY <1>3, PickedThread, Zenon DEF Pick
  <2> QED
    BY <1>3, <2>1, Zenon DEF Pick, ThreadTypes, Statuses
<1>4. CASE SleepTd(c)
  <2>1. running[c] \in Threads
    BY <1>4, RunningThread, Zenon DEF SleepTd, ThreadLocs
  <2> QED
    BY <1>4, <2>1, Zenon DEF SleepTd, ThreadTypes, Statuses
<1>5. CASE SleepReturn(c)
  <2>1. running[c] \in Threads
    BY <1>5, RunningThread, Zenon DEF SleepReturn, ThreadLocs
  <2> QED
    BY <1>5, <2>1, Zenon DEF SleepReturn, ThreadTypes, Statuses
<1>6. CASE WakeTake(c)
  <2>1. sleepq[pos[c]] \in Threads
    BY <1>6, ScannedThread, Zenon DEF WakeTake
  <2> QED
    BY <1>6, <2>1, Zenon DEF WakeTake, ThreadTypes, Statuses
<1>7. CASE TdAllocTd(c)
  <2>1. Head(freeq) \in Threads
    BY <1>7, NewThread, Zenon DEF TdAllocTd
  <2> QED
    BY <1>7, <2>1, Zenon DEF TdAllocTd, ThreadTypes, Statuses, ResumePoints
<1>8. CASE Exit(c)
  <2>1. running[c] \in Threads
    BY <1>8, RunningThread, Zenon DEF Exit, ThreadLocs
  <2> QED
    BY <1>8, <2>1, Zenon DEF Exit, ThreadTypes, Statuses
<1>9. CASE UNCHANGED threadVars
  BY <1>9, Zenon DEF ThreadTypes, Statuses
<1> QED
  BY <1>1, <1>2, <1>3, <1>4, <1>5, <1>6, <1>7, <1>8, <1>9, Zenon
     DEF CpuStep, MtxLockSleep, MtxUnlockSleep, SrEnter, SrHalt, SrIdle, IdleLeave, Resume,
         SleepEnter, RelockClaim, RelockSleep, RelockTimed, WakeEnter, WakeSkip,
         WakeDoneMutex, WakeDoneTimed, NanoSleep, TimerInt, TcExpire, TcDone, TdAllocFail,
         TdAlloc, ForkRunq, ExitFree, MtxReenter, MtxClaim, MtxBlock, MtxReleave,
         MtxRelease, WakeDone

LEMMA LockTypesStep ==
  ASSUME LockInv, NEW c \in Cpus, CpuStep(c)
  PROVE  LockTypes'
<1> LockTypes
  BY Zenon DEF LockInv, TypeOK
<1>1. CASE Yield(c)
  BY <1>1, Zenon DEF Yield, LockTypes, Queues
<1>2. CASE SrEnter(c)
  BY <1>2, Zenon DEF SrEnter, LockTypes, Queues
<1>3. CASE SrIdle(c)
  BY <1>3, Zenon DEF SrIdle, MayHalt, AllIdle, LockTypes, Queues
<1>4. CASE IdleLeave(c)
  BY <1>4, Zenon DEF IdleLeave, LockTypes, Queues
<1>5. CASE Pick(c)
  BY <1>5, Zenon DEF Pick, LockTypes, Queues
<1>6. CASE Resume(c)
  BY <1>6, Zenon DEF Resume, LockTypes, Queues
<1>7. CASE SleepEnter(c)
  BY <1>7, Zenon DEF SleepEnter, LockTypes, Queues
<1>8. CASE SleepTd(c)
  BY <1>8, Zenon DEF SleepTd, LockTypes, Queues
<1>9. CASE SleepReturn(c)
  BY <1>9, Zenon DEF SleepReturn, LockTypes, Queues
<1>10. CASE RelockSleep(c)
  BY <1>10, Zenon DEF RelockSleep, LockTypes, Queues
<1>11. CASE WakeEnter(c)
  BY <1>11, Zenon DEF WakeEnter, LockTypes, Queues
<1>12. CASE WakeDoneMutex(c)
  BY <1>12, Zenon DEF WakeDoneMutex, WakeDone, LockTypes, Queues
<1>13. CASE WakeDoneTimed(c)
  BY <1>13, Zenon DEF WakeDoneTimed, WakeDone, LockTypes, Queues
<1>14. CASE NanoSleep(c)
  BY <1>14, Zenon DEF NanoSleep, LockTypes, Queues
<1>15. CASE TimerInt(c)
  BY <1>15, Zenon DEF TimerInt, LockTypes, Queues
<1>16. CASE TcDone(c)
  BY <1>16, Zenon DEF TcDone, LockTypes, Queues
<1>17. CASE TdAlloc(c)
  BY <1>17, Zenon DEF TdAlloc, LockTypes, Queues
<1>18. CASE TdAllocTd(c)
  BY <1>18, Zenon DEF TdAllocTd, LockTypes, Queues
<1>19. CASE ForkRunq(c)
  BY <1>19, Zenon DEF ForkRunq, LockTypes, Queues
<1>20. CASE Exit(c)
  BY <1>20, Zenon DEF Exit, LockTypes, Queues
<1>21. ASSUME NEW m \in Mutexes, MtxBlock(c, m) PROVE LockTypes'
  BY <1>21, Zenon DEF MtxBlock, LockTypes, Queues
<1>22. ASSUME NEW m \in Mutexes, MtxRelease(c, m) PROVE LockTypes'
  BY <1>22, Zenon DEF MtxRelease, LockTypes, Queues
<1>23. CASE UNCHANGED lockVars
  BY <1>23, Zenon DEF LockTypes, Queues
<1> QED
  BY Zenon, <1>1, <1>2, <1>3, <1>4, <1>5, <1>6, <1>7, <1>8, <1>9, <1>10, <1>11, <1>12, <1>13,
     <1>14, <1>15, <1>16, <1>17, <1>18, <1>19, <1>20, <1>21, <1>22, <1>23, Zenon
     DEF CpuStep, MtxLockSleep, MtxUnlockSleep, Schedule, SrHalt, RelockClaim, RelockTimed,
         WakeSkip, WakeTake, TcExpire, TdAllocFail, ExitFree, MtxReenter, MtxClaim,
         MtxReleave

LEMMA MutexStep ==
  ASSUME LockInv, NEW c \in Cpus, CpuStep(c)
  PROVE  MutexTypes' /\ MutexInv'
<1> USE NoneAssumption, DepthAssumption
<1> MutexTypes /\ MutexInv
  BY Zenon DEF LockInv, TypeOK
<1>1. CASE RelockClaim(c)
  <2>1. running[c] \in Threads
    BY <1>1, RunningThread, Zenon DEF RelockClaim, ThreadLocs
  <2> QED
    BY <1>1, <2>1, SMTT(60) DEF RelockClaim, MutexTypes, MutexInv
<1>2. ASSUME NEW m \in Mutexes, MtxReenter(c, m) PROVE MutexTypes' /\ MutexInv'
  <2>1. owner[m] # None
    BY <1>2, RunningThread, Zenon DEF MtxReenter, ThreadLocs
  <2>2. depth[m] \in 0..MaxDepth /\ depth[m] + 1 \in 1..MaxDepth
    BY <1>2 DEF MtxReenter, MutexTypes
  <2> QED
    BY <1>2, <2>1, <2>2, SMTT(60) DEF MtxReenter, MutexTypes, MutexInv
<1>3. ASSUME NEW m \in Mutexes, MtxClaim(c, m) PROVE MutexTypes' /\ MutexInv'
  <2>1. running[c] \in Threads
    BY <1>3, RunningThread, Zenon DEF MtxClaim, ThreadLocs
  <2> QED
    BY <1>3, <2>1, SMTT(60) DEF MtxClaim, MutexTypes, MutexInv
<1>4. ASSUME NEW m \in Mutexes, MtxReleave(c, m) PROVE MutexTypes' /\ MutexInv'
  BY <1>4, SMTT(60) DEF MtxReleave, MutexTypes, MutexInv
<1>5. ASSUME NEW m \in Mutexes, MtxRelease(c, m) PROVE MutexTypes' /\ MutexInv'
  <2>1. 0 \in 0..MaxDepth
    BY DepthAssumption
  <2>2. MutexTypes'
    BY <1>5, <2>1, Zenon DEF MtxRelease, MutexTypes
  <2>3. MutexInv'
    BY <1>5, Zenon DEF MtxRelease, MutexTypes, MutexInv
  <2> QED BY <2>2, <2>3, Zenon
<1>6. CASE UNCHANGED mutexVars
  BY <1>6, Zenon DEF MutexTypes, MutexInv
<1> QED
  BY <1>1, <1>2, <1>3, <1>4, <1>5, <1>6, Zenon
     DEF CpuStep, MtxLockSleep, MtxUnlockSleep, Yield, Schedule, SrEnter, SrHalt, SrIdle,
         IdleLeave, Pick, Resume, SleepEnter, SleepTd, SleepReturn, RelockSleep,
         RelockTimed, WakeEnter, WakeSkip, WakeTake, WakeDoneMutex, WakeDoneTimed,
         NanoSleep, TimerInt, TcExpire, TcDone, TdAllocFail, TdAlloc, TdAllocTd, ForkRunq,
         Exit, ExitFree, MtxBlock, WakeDone

LEMMA QueueTypesStep ==
  ASSUME LockInv, NEW c \in Cpus, CpuStep(c)
  PROVE  QueueTypes'
<1> QueueTypes
  BY Zenon DEF LockInv, TypeOK
<1>1. CASE SrEnter(c)
  <2>1. td[c] # None => Append(runq, td[c]) \in Seq(Threads)
    BY <1>1, SeqAppend, Zenon DEF LockInv, TypeOK, CpuTypes, QueueTypes
  <2> QED
    BY <1>1, <2>1, Zenon DEF SrEnter, QueueTypes
<1>2. CASE Pick(c)
  <2>1. Tail(runq) \in Seq(Threads)
    BY <1>2, SeqHead, Zenon DEF Pick, QueueTypes
  <2> QED
    BY <1>2, <2>1, Zenon DEF Pick, QueueTypes
<1>3. CASE SleepTd(c)
  <2>1. running[c] \in Threads
    BY <1>3, RunningThread, Zenon DEF SleepTd, ThreadLocs
  <2>2. <<running[c]>> \o sleepq \in Seq(Threads)
    BY <1>3, <2>1, SeqPush, Zenon DEF QueueTypes
  <2> QED
    BY <1>3, <2>1, <2>2, Zenon DEF SleepTd, QueueTypes
<1>4. CASE WakeTake(c)
  <2>1. Unlink(sleepq, pos[c]) \in Seq(Threads)
    BY <1>4, SeqRemove, Zenon DEF WakeTake, LockInv, TypeOK, CpuTypes, QueueTypes
  <2> QED
    BY <1>4, <2>1, Zenon DEF WakeTake, QueueTypes
<1>5. CASE WakeDoneMutex(c)
  <2>1. runq \o ready[c] \in Seq(Threads)
    BY <1>5, SeqConcat, Zenon DEF LockInv, TypeOK, CpuTypes, QueueTypes
  <2> QED
    BY <1>5, <2>1, Zenon DEF WakeDoneMutex, WakeDone, QueueTypes
<1>6. CASE WakeDoneTimed(c)
  <2>1. runq \o ready[c] \in Seq(Threads)
    BY <1>6, SeqConcat, Zenon DEF LockInv, TypeOK, CpuTypes, QueueTypes
  <2> QED
    BY <1>6, <2>1, Zenon DEF WakeDoneTimed, WakeDone, QueueTypes
<1>7. CASE NanoSleep(c)
  <2>1. running[c] \in Threads
    BY <1>7, RunningThread, Zenon DEF NanoSleep, ThreadLocs
  <2>2. \A i \in 1..Len(tseq) + 1 : LinkAt(tseq, i, running[c]) \in Seq(Threads)
    BY <1>7, <2>1, SeqInsert, Zenon DEF QueueTypes
  <2> QED
    BY <1>7, <2>1, <2>2, Zenon DEF NanoSleep, QueueTypes
<1>8. CASE TcExpire(c)
  <2>1. Tail(tseq) \in Seq(Threads)
    BY <1>8, ExpiredThread, Zenon DEF TcExpire
  <2> QED
    BY <1>8, <2>1, Zenon DEF TcExpire, QueueTypes
<1>9. CASE TdAllocTd(c)
  <2>1. Tail(freeq) \in Seq(Threads)
    BY <1>9, NewThread, Zenon DEF TdAllocTd
  <2> QED
    BY <1>9, <2>1, Zenon DEF TdAllocTd, QueueTypes
<1>10. CASE ForkRunq(c)
  <2>1. Append(runq, td[c]) \in Seq(Threads)
    BY <1>10, SeqAppend, Zenon
       DEF ForkRunq, LockInv, TypeOK, CpuTypes, QueueTypes, CpuInv, LocalsSet
  <2> QED
    BY <1>10, <2>1, Zenon DEF ForkRunq, QueueTypes
<1>11. CASE ExitFree(c)
  <2>1. running[c] \in Threads
    BY <1>11, RunningThread, Zenon DEF ExitFree, ThreadLocs
  <2>2. Append(freeq, running[c]) \in Seq(Threads)
    BY <1>11, <2>1, SeqAppend, Zenon DEF QueueTypes
  <2> QED
    BY <1>11, <2>1, <2>2, Zenon DEF ExitFree, QueueTypes
<1>12. CASE UNCHANGED queueVars
  BY <1>12, Zenon DEF QueueTypes
<1> QED
  BY <1>1, <1>2, <1>3, <1>4, <1>5, <1>6, <1>7, <1>8, <1>9, <1>10, <1>11, <1>12, Zenon
     DEF CpuStep, MtxLockSleep, MtxUnlockSleep, Yield, Schedule, SrHalt, SrIdle, IdleLeave,
         Resume, SleepEnter, SleepReturn, RelockClaim, RelockSleep, RelockTimed, WakeEnter,
         WakeSkip, TimerInt, TcDone, TdAllocFail, TdAlloc, Exit, MtxReenter, MtxClaim,
         MtxBlock, MtxReleave, MtxRelease

-----------------------------------------------------------------------------
\* Control points outside every critical section of a queue.
Unlocked == {"user", "yield", "schedule", "sr_enter", "idle", "first", "yielded", "slept", "dead",
             "relock", "fk_runq", "ex_free"}

\* A step that takes, releases or leaves the lock of a queue.
LEMMA QueuesSame ==
  ASSUME LockInv, NEW c \in Cpus, qlock' = qlock,
         \A q \in Queues : InCritical(c, q)' <=> InCritical(c, q)
  PROVE  QueuesOwned(c)' /\ QueuesPassed(c)
  BY Zenon DEF LockInv, LockDiscipline, QueueLocks, QueuesOwned, QueuesPassed

LEMMA QueueTaken ==
  ASSUME LockInv, NEW c \in Cpus, NEW q \in Queues, qlock[q] = None, qlock' = [qlock EXCEPT ![q] = c],
         \A r \in Queues : InCritical(c, r)' <=> InCritical(c, r) \/ r = q
  PROVE  QueuesOwned(c)' /\ QueuesPassed(c)
<1>1. qlock'[q] = c /\ \A r \in Queues : r # q => qlock'[r] = qlock[r]
  BY Zenon DEF LockInv, TypeOK, LockTypes
<1>2. \A r \in Queues : qlock[r] = c <=> InCritical(c, r)
  BY Zenon DEF LockInv, LockDiscipline, QueueLocks
<1>3. QueuesOwned(c)'
  BY <1>1, <1>2, Zenon DEF QueuesOwned
<1>4. QueuesPassed(c)
  BY <1>1, Zenon DEF QueuesPassed
<1> QED BY <1>3, <1>4, Zenon

LEMMA QueueGiven ==
  ASSUME LockInv, NEW c \in Cpus, NEW q \in Queues, InCritical(c, q), qlock' = [qlock EXCEPT ![q] = None],
         \A r \in Queues : InCritical(c, r)' <=> InCritical(c, r) /\ r # q
  PROVE  QueuesOwned(c)' /\ QueuesPassed(c)
<1>1. qlock'[q] = None /\ \A r \in Queues : r # q => qlock'[r] = qlock[r]
  BY Zenon DEF LockInv, TypeOK, LockTypes
<1>2. \A r \in Queues : qlock[r] = c <=> InCritical(c, r)
  BY Zenon DEF LockInv, LockDiscipline, QueueLocks
<1>3. QueuesOwned(c)'
  BY <1>1, <1>2, NoneAssumption, Zenon DEF QueuesOwned
<1>4. QueuesPassed(c)
  BY <1>1, <1>2, Zenon DEF QueuesPassed
<1> QED BY <1>3, <1>4, Zenon

LEMMA QueuesOwnedStep ==
  ASSUME LockInv, NEW c \in Cpus, CpuStep(c)
  PROVE  QueuesOwned(c)' /\ QueuesPassed(c)
<1> /\ pc \in [Cpus -> Locations]
    /\ chan \in [Cpus -> Chans \cup {None}]
  BY Zenon DEF LockInv, TypeOK, CpuTypes
<1>q. "runq" \in Queues /\ "sleepq" \in Queues /\ "freeq" \in Queues /\ "tseq" \in Queues
  BY Zenon DEF Queues
<1>1. CASE pc[c] \in Unlocked /\ pc'[c] \in Unlocked /\ qlock' = qlock
  <2>1. \A q \in Queues : ~InCritical(c, q) /\ ~InCritical(c, q)'
    BY <1>1, Zenon DEF InCritical, Unlocked
  <2> QED BY <1>1, <2>1, QueuesSame, Zenon
<1>2. CASE pc' = pc /\ chan' = chan /\ qlock' = qlock
  <2>1. \A q \in Queues : InCritical(c, q)' <=> InCritical(c, q)
    BY <1>2, Zenon DEF InCritical
  <2> QED BY <1>2, <2>1, QueuesSame, Zenon
<1>3. CASE /\ pc[c] \in Unlocked /\ pc'[c] \in {"sl_enter", "wk_enter"} /\ chan'[c] \in Mutexes
           /\ qlock' = qlock
  <2>1. chan'[c] \notin Threads
    BY <1>3, ChanAssumption, Zenon
  <2>2. \A q \in Queues : ~InCritical(c, q) /\ ~InCritical(c, q)'
    BY <1>3, <2>1, Zenon DEF InCritical, Unlocked
  <2> QED BY <1>3, <2>2, QueuesSame, Zenon
<1>4. CASE TcExpire(c)
  <2>1. Head(tseq) \in Threads
    BY <1>4, ExpiredThread, Zenon DEF TcExpire
  <2>2. pc[c] = "tc_loop" /\ pc'[c] = "wk_enter" /\ chan'[c] \in Threads /\ qlock' = qlock
    BY <1>4, <2>1, Zenon DEF TcExpire
  <2>3. \A q \in Queues : InCritical(c, q)' <=> InCritical(c, q)
    BY <2>2, Zenon DEF InCritical
  <2> QED BY <2>2, <2>3, QueuesSame, Zenon
<1>5. CASE SrEnter(c) \/ IdleLeave(c)
  <2>1. /\ pc[c] \in Unlocked /\ pc'[c] = "sr_loop"
        /\ qlock["runq"] = None /\ qlock' = [qlock EXCEPT !["runq"] = c]
    BY <1>5, Zenon DEF SrEnter, IdleLeave, Unlocked
  <2>2. \A q \in Queues : InCritical(c, q)' <=> InCritical(c, q) \/ q = "runq"
    BY <2>1, Zenon DEF InCritical, Unlocked
  <2> QED BY <1>q, <2>1, <2>2, QueueTaken, Zenon
<1>6. CASE NanoSleep(c) \/ TimerInt(c)
  <2>1. NanoSleep(c) => running[c] \in Threads
    BY RunningThread, Zenon DEF NanoSleep, ThreadLocs
  <2>2. /\ pc[c] \in Unlocked /\ (pc'[c] = "tc_loop" \/ (pc'[c] = "sl_enter" /\ chan'[c] \in Threads))
        /\ qlock["tseq"] = None /\ qlock' = [qlock EXCEPT !["tseq"] = c]
    BY <1>6, <2>1, Zenon DEF NanoSleep, TimerInt, Unlocked
  <2>3. \A q \in Queues : InCritical(c, q)' <=> InCritical(c, q) \/ q = "tseq"
    BY <2>2, Zenon DEF InCritical, Unlocked
  <2> QED BY <1>q, <2>2, <2>3, QueueTaken, Zenon
<1>7. CASE TdAlloc(c)
  <2>1. /\ pc[c] \in Unlocked /\ pc'[c] = "ta_td"
        /\ qlock["freeq"] = None /\ qlock' = [qlock EXCEPT !["freeq"] = c]
    BY <1>7, Zenon DEF TdAlloc, Unlocked
  <2>2. \A q \in Queues : InCritical(c, q)' <=> InCritical(c, q) \/ q = "freeq"
    BY <2>1, Zenon DEF InCritical, Unlocked
  <2> QED BY <1>q, <2>1, <2>2, QueueTaken, Zenon
<1>8. CASE WakeEnter(c)
  <2>1. /\ pc[c] = "wk_enter" /\ pc'[c] = "wk_scan" /\ chan'[c] = chan[c]
        /\ qlock["sleepq"] = None /\ qlock' = [qlock EXCEPT !["sleepq"] = c]
    BY <1>8, Zenon DEF WakeEnter
  <2>2. \A q \in Queues : InCritical(c, q)' <=> InCritical(c, q) \/ q = "sleepq"
    BY <2>1, Zenon DEF InCritical
  <2> QED BY <1>q, <2>1, <2>2, QueueTaken, Zenon
<1>9. CASE SrIdle(c) \/ Pick(c)
  <2>1. Pick(c) => ctx[Head(runq)].pc \in Unlocked
    BY PickedThread, Zenon DEF Pick, ResumePoints, Unlocked
  <2>2. pc[c] = "sr_loop" /\ pc'[c] \in Unlocked /\ qlock' = [qlock EXCEPT !["runq"] = None]
    BY <1>9, <2>1, Zenon DEF SrIdle, Pick, Unlocked
  <2>3. InCritical(c, "runq") /\ \A q \in Queues : InCritical(c, q)' <=> InCritical(c, q) /\ q # "runq"
    BY <2>2, Zenon DEF InCritical, Unlocked
  <2> QED BY <1>q, <2>2, <2>3, QueueGiven, Zenon
<1>10. CASE SleepTd(c)
  <2>1. pc[c] = "sl_td" /\ pc'[c] \in Unlocked /\ qlock' = [qlock EXCEPT !["sleepq"] = None]
    BY <1>10, Zenon DEF SleepTd, Unlocked
  <2>2. InCritical(c, "sleepq") /\ \A q \in Queues : InCritical(c, q)' <=> InCritical(c, q) /\ q # "sleepq"
    BY <2>1, Zenon DEF InCritical, Unlocked
  <2> QED BY <1>q, <2>1, <2>2, QueueGiven, Zenon
<1>11. CASE WakeDoneMutex(c)
  <2>1. chan[c] \notin Threads
    BY <1>11, ChanAssumption, Zenon DEF WakeDoneMutex
  <2>2. pc[c] = "wk_scan" /\ pc'[c] \in Unlocked /\ qlock' = [qlock EXCEPT !["sleepq"] = None]
    BY <1>11, Zenon DEF WakeDoneMutex, WakeDone, Unlocked
  <2>3. InCritical(c, "sleepq") /\ \A q \in Queues : InCritical(c, q)' <=> InCritical(c, q) /\ q # "sleepq"
    BY <2>1, <2>2, Zenon DEF InCritical, Unlocked
  <2> QED BY <1>q, <2>2, <2>3, QueueGiven, Zenon
<1>12. CASE WakeDoneTimed(c)
  <2>1. /\ pc[c] = "wk_scan" /\ pc'[c] = "tc_loop" /\ chan[c] \in Threads
        /\ qlock' = [qlock EXCEPT !["sleepq"] = None]
    BY <1>12, Zenon DEF WakeDoneTimed, WakeDone
  <2>2. InCritical(c, "sleepq") /\ \A q \in Queues : InCritical(c, q)' <=> InCritical(c, q) /\ q # "sleepq"
    BY <2>1, Zenon DEF InCritical
  <2> QED BY <1>q, <2>1, <2>2, QueueGiven, Zenon
<1>13. CASE TcDone(c)
  <2>1. pc[c] = "tc_loop" /\ pc'[c] \in Unlocked /\ qlock' = [qlock EXCEPT !["tseq"] = None]
    BY <1>13, Zenon DEF TcDone, Unlocked
  <2>2. InCritical(c, "tseq") /\ \A q \in Queues : InCritical(c, q)' <=> InCritical(c, q) /\ q # "tseq"
    BY <2>1, Zenon DEF InCritical, Unlocked
  <2> QED BY <1>q, <2>1, <2>2, QueueGiven, Zenon
<1>14. CASE TdAllocTd(c)
  <2>1. pc[c] = "ta_td" /\ pc'[c] \in Unlocked /\ qlock' = [qlock EXCEPT !["freeq"] = None]
    BY <1>14, Zenon DEF TdAllocTd, Unlocked
  <2>2. InCritical(c, "freeq") /\ \A q \in Queues : InCritical(c, q)' <=> InCritical(c, q) /\ q # "freeq"
    BY <2>1, Zenon DEF InCritical, Unlocked
  <2> QED BY <1>q, <2>1, <2>2, QueueGiven, Zenon
<1>15. CASE SleepEnter(c)
  <2>1. /\ pc[c] = "sl_enter" /\ pc'[c] = "sl_td" /\ qlock["sleepq"] = None
        /\ chan[c] \in Mutexes <=> chan[c] \notin Threads
    BY <1>15, ChanSet, Zenon DEF SleepEnter
  <2>2. CASE chan[c] \in Mutexes
    <3>1. qlock' = [qlock EXCEPT !["sleepq"] = c]
      BY <1>15, <2>2, Zenon DEF SleepEnter
    <3>2. \A q \in Queues : InCritical(c, q)' <=> InCritical(c, q) \/ q = "sleepq"
      BY <2>1, <2>2, Zenon DEF InCritical
    <3> QED BY <1>q, <2>1, <3>1, <3>2, QueueTaken, Zenon
  <2>3. CASE chan[c] \in Threads
    <3>1. qlock' = [qlock EXCEPT !["sleepq"] = c, !["tseq"] = None]
      BY <1>15, <2>1, <2>3, Zenon DEF SleepEnter
    <3>2. \A q \in Queues : InCritical(c, q) <=> q = "tseq"
      BY <2>1, <2>3, Zenon DEF InCritical
    <3>3. \A q \in Queues : InCritical(c, q)' <=> q = "sleepq"
      BY <2>1, Zenon DEF InCritical
    <3>4. \A q \in Queues : qlock[q] = c <=> q = "tseq"
      BY <3>2, Zenon DEF LockInv, LockDiscipline, QueueLocks
    <3>5. /\ qlock'["sleepq"] = c /\ qlock'["tseq"] = None
          /\ \A q \in Queues : q \notin {"sleepq", "tseq"} => qlock'[q] = qlock[q]
      BY <1>q, <3>1, Zenon DEF LockInv, TypeOK, LockTypes
    <3>6. QueuesOwned(c)'
      BY <1>q, <3>3, <3>4, <3>5, NoneAssumption, Zenon DEF QueuesOwned
    <3>7. QueuesPassed(c)
      BY <1>q, <2>1, <3>4, <3>5, Zenon DEF QueuesPassed
    <3> QED BY <3>6, <3>7, Zenon
  <2> QED BY <2>1, <2>2, <2>3, Zenon
<1>16. ASSUME Yield(c) \/ Schedule(c) \/ Resume(c) \/ SleepReturn(c) \/ RelockClaim(c) \/ RelockTimed(c)
              \/ TdAllocFail(c) \/ ForkRunq(c) \/ Exit(c) \/ ExitFree(c)
              \/ \E m \in Mutexes : MtxReenter(c, m) \/ MtxClaim(c, m) \/ MtxReleave(c, m)
       PROVE  pc[c] \in Unlocked /\ pc'[c] \in Unlocked /\ qlock' = qlock
  BY <1>16, Zenon
     DEF Yield, Schedule, Resume, SleepReturn, RelockClaim, RelockTimed, TdAllocFail, ForkRunq, Exit,
         ExitFree, MtxReenter, MtxClaim, MtxReleave, Unlocked
<1>17. ASSUME SrHalt(c) \/ WakeSkip(c) \/ WakeTake(c) PROVE pc' = pc /\ chan' = chan /\ qlock' = qlock
  BY <1>17, Zenon DEF SrHalt, WakeSkip, WakeTake
<1>18. ASSUME RelockSleep(c) \/ \E m \in Mutexes : MtxBlock(c, m) \/ MtxRelease(c, m)
       PROVE  /\ pc[c] \in Unlocked /\ pc'[c] \in {"sl_enter", "wk_enter"} /\ chan'[c] \in Mutexes
              /\ qlock' = qlock
  BY <1>18, Zenon DEF RelockSleep, MtxBlock, MtxRelease, Unlocked
<1> QED
  BY Zenon, <1>1, <1>2, <1>3, <1>4, <1>5, <1>6, <1>7, <1>8, <1>9, <1>10, <1>11, <1>12, <1>13,
     <1>14, <1>15, <1>16, <1>17, <1>18
     DEF CpuStep, MtxLockSleep, MtxUnlockSleep

\* A step that takes, releases or leaves the spinlock of a sleep mutex.
LEMMA MutexesSame ==
  ASSUME LockInv, NEW c \in Cpus, mtxLo' = mtxLo, \A m \in Mutexes : InMutex(c, m)' <=> InMutex(c, m)
  PROVE  MutexesOwned(c)' /\ MutexesPassed(c)
  BY Zenon DEF LockInv, LockDiscipline, MutexLocks, MutexesOwned, MutexesPassed

LEMMA MutexTaken ==
  ASSUME LockInv, NEW c \in Cpus, NEW m \in Mutexes, mtxLo[m] = None, mtxLo' = [mtxLo EXCEPT ![m] = c],
         \A n \in Mutexes : InMutex(c, n)' <=> InMutex(c, n) \/ n = m
  PROVE  MutexesOwned(c)' /\ MutexesPassed(c)
<1>1. mtxLo'[m] = c /\ \A n \in Mutexes : n # m => mtxLo'[n] = mtxLo[n]
  BY Zenon DEF LockInv, TypeOK, LockTypes
<1>2. \A n \in Mutexes : mtxLo[n] = c <=> InMutex(c, n)
  BY Zenon DEF LockInv, LockDiscipline, MutexLocks
<1>3. MutexesOwned(c)'
  BY <1>1, <1>2, Zenon DEF MutexesOwned
<1>4. MutexesPassed(c)
  BY <1>1, Zenon DEF MutexesPassed
<1> QED BY <1>3, <1>4, Zenon

LEMMA MutexGiven ==
  ASSUME LockInv, NEW c \in Cpus, NEW m \in Mutexes, InMutex(c, m), mtxLo' = [mtxLo EXCEPT ![m] = None],
         \A n \in Mutexes : InMutex(c, n)' <=> InMutex(c, n) /\ n # m
  PROVE  MutexesOwned(c)' /\ MutexesPassed(c)
<1>1. mtxLo'[m] = None /\ \A n \in Mutexes : n # m => mtxLo'[n] = mtxLo[n]
  BY Zenon DEF LockInv, TypeOK, LockTypes
<1>2. \A n \in Mutexes : mtxLo[n] = c <=> InMutex(c, n)
  BY Zenon DEF LockInv, LockDiscipline, MutexLocks
<1>3. MutexesOwned(c)'
  BY <1>1, <1>2, NoneAssumption, Zenon DEF MutexesOwned
<1>4. MutexesPassed(c)
  BY <1>1, <1>2, Zenon DEF MutexesPassed
<1> QED BY <1>3, <1>4, Zenon

LEMMA MutexesOwnedStep ==
  ASSUME LockInv, NEW c \in Cpus, CpuStep(c)
  PROVE  MutexesOwned(c)' /\ MutexesPassed(c)
<1> DEFINE Spinning == {"sl_enter", "wk_enter", "wk_scan"}
<1> /\ pc \in [Cpus -> Locations]
    /\ chan \in [Cpus -> Chans \cup {None}]
  BY Zenon DEF LockInv, TypeOK, CpuTypes
<1>1. CASE pc[c] \notin Spinning /\ pc'[c] \notin Spinning /\ mtxLo' = mtxLo
  <2>1. \A m \in Mutexes : ~InMutex(c, m) /\ ~InMutex(c, m)'
    BY <1>1, Zenon DEF InMutex
  <2> QED BY <1>1, <2>1, MutexesSame, Zenon
<1>2. CASE pc[c] \in Spinning /\ pc'[c] \in Spinning /\ chan' = chan /\ mtxLo' = mtxLo
  <2>1. \A m \in Mutexes : InMutex(c, m)' <=> InMutex(c, m)
    BY <1>2, Zenon DEF InMutex
  <2> QED BY <1>2, <2>1, MutexesSame, Zenon
<1>3. CASE /\ pc[c] \in Spinning => chan[c] \in Threads
           /\ pc'[c] \in Spinning => chan'[c] \in Threads
           /\ mtxLo' = mtxLo
  <2>1. \A m \in Mutexes : ~InMutex(c, m) /\ ~InMutex(c, m)'
    BY <1>3, ChanAssumption, Zenon DEF InMutex
  <2> QED BY <1>3, <2>1, MutexesSame, Zenon
<1>4. ASSUME NEW m \in Mutexes, pc[c] \notin Spinning, pc'[c] \in Spinning, chan'[c] = m,
             mtxLo[m] = None, mtxLo' = [mtxLo EXCEPT ![m] = c]
      PROVE  MutexesOwned(c)' /\ MutexesPassed(c)
  <2>1. \A n \in Mutexes : InMutex(c, n)' <=> InMutex(c, n) \/ n = m
    BY <1>4, Zenon DEF InMutex
  <2> QED BY <1>4, <2>1, MutexTaken, Zenon
<1>5. ASSUME NEW m \in Mutexes, pc[c] \in Spinning, pc'[c] \notin Spinning, chan[c] = m,
             mtxLo' = [mtxLo EXCEPT ![m] = None]
      PROVE  MutexesOwned(c)' /\ MutexesPassed(c)
  <2>1. InMutex(c, m) /\ \A n \in Mutexes : InMutex(c, n)' <=> InMutex(c, n) /\ n # m
    BY <1>5, Zenon DEF InMutex
  <2> QED BY <1>5, <2>1, MutexGiven, Zenon
<1>6. CASE RelockSleep(c)
  <2>1. /\ chan[c] \in Mutexes /\ pc[c] \notin Spinning /\ pc'[c] \in Spinning /\ chan'[c] = chan[c]
        /\ mtxLo[chan[c]] = None /\ mtxLo' = [mtxLo EXCEPT ![chan[c]] = c]
    BY <1>6, Zenon DEF RelockSleep
  <2> QED BY <1>4, <2>1, Zenon
<1>7. ASSUME NEW m \in Mutexes, MtxBlock(c, m) \/ MtxRelease(c, m)
      PROVE  MutexesOwned(c)' /\ MutexesPassed(c)
  <2>1. /\ pc[c] \notin Spinning /\ pc'[c] \in Spinning /\ chan'[c] = m
        /\ mtxLo[m] = None /\ mtxLo' = [mtxLo EXCEPT ![m] = c]
    BY <1>7, Zenon DEF MtxBlock, MtxRelease
  <2> QED BY <1>4, <2>1, Zenon
<1>8. CASE SleepEnter(c) \/ WakeDoneMutex(c) \/ WakeDoneTimed(c)
  <2>1. chan[c] \in Mutexes <=> chan[c] \notin Threads
    BY <1>8, ChanSet, Zenon DEF SleepEnter, WakeDoneMutex, WakeDoneTimed, WakeDone
  <2>2. pc[c] \in Spinning /\ pc'[c] \notin Spinning
    BY <1>8, Zenon DEF SleepEnter, WakeDoneMutex, WakeDoneTimed, WakeDone
  <2>3. CASE chan[c] \in Mutexes
    <3>1. mtxLo' = [mtxLo EXCEPT ![chan[c]] = None]
      BY <1>8, <2>1, <2>3, Zenon DEF SleepEnter, WakeDoneMutex, WakeDoneTimed
    <3> QED BY <1>5, <2>2, <2>3, <3>1, Zenon
  <2>4. CASE chan[c] \in Threads
    <3>1. mtxLo' = mtxLo
      BY <1>8, <2>1, <2>4, Zenon DEF SleepEnter, WakeDoneMutex, WakeDoneTimed
    <3> QED BY <1>3, <2>2, <2>4, <3>1, Zenon
  <2> QED BY <2>1, <2>3, <2>4, Zenon
<1>9. CASE NanoSleep(c)
  <2>1. running[c] \in Threads
    BY <1>9, RunningThread, Zenon DEF NanoSleep, ThreadLocs
  <2>2. pc[c] \notin Spinning /\ chan'[c] \in Threads /\ mtxLo' = mtxLo
    BY <1>9, <2>1, Zenon DEF NanoSleep
  <2> QED BY <1>3, <2>2, Zenon
<1>10. CASE TcExpire(c)
  <2>1. Head(tseq) \in Threads
    BY <1>10, ExpiredThread, Zenon DEF TcExpire
  <2>2. pc[c] \notin Spinning /\ chan'[c] \in Threads /\ mtxLo' = mtxLo
    BY <1>10, <2>1, Zenon DEF TcExpire
  <2> QED BY <1>3, <2>2, Zenon
<1>11. CASE Pick(c)
  <2>1. ctx[Head(runq)].pc \notin Spinning
    BY <1>11, PickedThread, Zenon DEF Pick, ResumePoints
  <2>2. pc[c] \notin Spinning /\ pc'[c] \notin Spinning /\ mtxLo' = mtxLo
    BY <1>11, <2>1, Zenon DEF Pick
  <2> QED BY <1>1, <2>2, Zenon
<1>12. ASSUME Yield(c) \/ Schedule(c) \/ SrEnter(c) \/ SrHalt(c) \/ SrIdle(c) \/ IdleLeave(c) \/ Resume(c)
              \/ SleepTd(c) \/ SleepReturn(c) \/ RelockClaim(c) \/ RelockTimed(c) \/ TimerInt(c)
              \/ TcDone(c) \/ TdAllocFail(c) \/ TdAlloc(c) \/ TdAllocTd(c) \/ ForkRunq(c) \/ Exit(c)
              \/ ExitFree(c) \/ \E m \in Mutexes : MtxReenter(c, m) \/ MtxClaim(c, m) \/ MtxReleave(c, m)
       PROVE  pc[c] \notin Spinning /\ pc'[c] \notin Spinning /\ mtxLo' = mtxLo
  BY <1>12, Zenon
     DEF Yield, Schedule, SrEnter, SrHalt, SrIdle, IdleLeave, Resume, SleepTd, SleepReturn, RelockClaim,
         RelockTimed, TimerInt, TcDone, TdAllocFail, TdAlloc, TdAllocTd, ForkRunq, Exit, ExitFree,
         MtxReenter, MtxClaim, MtxReleave
<1>13. ASSUME WakeEnter(c) \/ WakeSkip(c) \/ WakeTake(c)
       PROVE  pc[c] \in Spinning /\ pc'[c] \in Spinning /\ chan' = chan /\ mtxLo' = mtxLo
  BY <1>13, Zenon DEF WakeEnter, WakeSkip, WakeTake
<1> HIDE DEF Spinning
<1> QED
  BY Zenon, <1>1, <1>2, <1>6, <1>7, <1>8, <1>9, <1>10, <1>11, <1>12, <1>13
     DEF CpuStep, MtxLockSleep, MtxUnlockSleep

\* A step that takes, releases or leaves the lock of a thread.
LEMMA ThreadsSame ==
  ASSUME LockInv, NEW c \in Cpus, tdLock' = tdLock, \A t \in Threads : InThread(c, t)' <=> InThread(c, t)
  PROVE  ThreadsOwned(c)' /\ ThreadsPassed(c)
  BY Zenon DEF LockInv, LockDiscipline, ThreadLocks, ThreadsOwned, ThreadsPassed

LEMMA ThreadTaken ==
  ASSUME LockInv, NEW c \in Cpus, NEW t \in Threads, tdLock[t] = None, tdLock' = [tdLock EXCEPT ![t] = c],
         \A s \in Threads : InThread(c, s)' <=> InThread(c, s) \/ s = t
  PROVE  ThreadsOwned(c)' /\ ThreadsPassed(c)
<1>1. tdLock'[t] = c /\ \A s \in Threads : s # t => tdLock'[s] = tdLock[s]
  BY Zenon DEF LockInv, TypeOK, LockTypes
<1>2. \A s \in Threads : tdLock[s] = c <=> InThread(c, s)
  BY Zenon DEF LockInv, LockDiscipline, ThreadLocks
<1>3. ThreadsOwned(c)'
  BY <1>1, <1>2, Zenon DEF ThreadsOwned
<1>4. ThreadsPassed(c)
  BY <1>1, Zenon DEF ThreadsPassed
<1> QED BY <1>3, <1>4, Zenon

LEMMA ThreadGiven ==
  ASSUME LockInv, NEW c \in Cpus, NEW t \in Threads, InThread(c, t), tdLock' = [tdLock EXCEPT ![t] = None],
         \A s \in Threads : InThread(c, s)' <=> InThread(c, s) /\ s # t
  PROVE  ThreadsOwned(c)' /\ ThreadsPassed(c)
<1>1. tdLock'[t] = None /\ \A s \in Threads : s # t => tdLock'[s] = tdLock[s]
  BY Zenon DEF LockInv, TypeOK, LockTypes
<1>2. \A s \in Threads : tdLock[s] = c <=> InThread(c, s)
  BY Zenon DEF LockInv, LockDiscipline, ThreadLocks
<1>3. ThreadsOwned(c)'
  BY <1>1, <1>2, NoneAssumption, Zenon DEF ThreadsOwned
<1>4. ThreadsPassed(c)
  BY <1>1, <1>2, Zenon DEF ThreadsPassed
<1> QED BY <1>3, <1>4, Zenon

LEMMA ThreadsOwnedStep ==
  ASSUME LockInv, NEW c \in Cpus, CpuStep(c)
  PROVE  ThreadsOwned(c)' /\ ThreadsPassed(c)
<1> DEFINE OnThread == {"schedule", "ex_free", "first", "yielded", "slept", "dead"}
           OffThread == {"sr_enter", "fk_runq"}
           Held == OnThread \cup OffThread
<1> /\ pc \in [Cpus -> Locations]
    /\ running \in [Cpus -> Threads \cup {None}]
    /\ td \in [Cpus -> Threads \cup {None}]
  BY Zenon DEF LockInv, TypeOK, CpuTypes
<1>1. CASE pc[c] \notin Held /\ pc'[c] \notin Held /\ tdLock' = tdLock
  <2>1. \A t \in Threads : ~InThread(c, t) /\ ~InThread(c, t)'
    BY <1>1, Zenon DEF InThread
  <2> QED BY <1>1, <2>1, ThreadsSame, Zenon
<1>2. ASSUME NEW t \in Threads, pc[c] \notin Held, pc'[c] \in OnThread, running'[c] = t,
             tdLock[t] = None, tdLock' = [tdLock EXCEPT ![t] = c]
      PROVE  ThreadsOwned(c)' /\ ThreadsPassed(c)
  <2>1. \A s \in Threads : ~InThread(c, s)
    BY <1>2, Zenon DEF InThread
  <2>2. \A s \in Threads : InThread(c, s)' <=> s = t
    BY <1>2, Zenon DEF InThread
  <2> QED BY <1>2, <2>1, <2>2, ThreadTaken, Zenon
<1>3. ASSUME NEW t \in Threads, InThread(c, t), \A s \in Threads : InThread(c, s) => s = t,
             pc'[c] \notin Held, tdLock' = [tdLock EXCEPT ![t] = None]
      PROVE  ThreadsOwned(c)' /\ ThreadsPassed(c)
  <2>1. \A s \in Threads : ~InThread(c, s)'
    BY <1>3, Zenon DEF InThread
  <2> QED BY <1>3, <2>1, ThreadGiven, Zenon
<1>4. CASE Yield(c) \/ SleepTd(c) \/ Exit(c)
  <2>1. running[c] \in Threads
    BY <1>4, RunningThread, Zenon DEF Yield, SleepTd, Exit, ThreadLocs
  <2>2. /\ pc[c] \notin Held /\ pc'[c] \in OnThread /\ running'[c] = running[c]
        /\ tdLock[running[c]] = None /\ tdLock' = [tdLock EXCEPT ![running[c]] = c]
    BY <1>4, Zenon DEF Yield, SleepTd, Exit
  <2> HIDE DEF Held, OnThread
  <2> QED BY <1>2, <2>1, <2>2, Zenon
<1>5. CASE Pick(c)
  <2>1. Head(runq) \in Threads /\ ctx[Head(runq)].pc \in OnThread
    BY <1>5, PickedThread, Zenon DEF Pick, ResumePoints
  <2>2. /\ pc[c] \notin Held /\ pc'[c] = ctx[Head(runq)].pc /\ running'[c] = Head(runq)
        /\ tdLock[Head(runq)] = None /\ tdLock' = [tdLock EXCEPT ![Head(runq)] = c]
    BY <1>5, Zenon DEF Pick
  <2> HIDE DEF Held, OnThread
  <2> QED BY <1>2, <2>1, <2>2, Zenon
<1>6. CASE Resume(c) \/ SleepReturn(c)
  <2>1. running[c] \in Threads
    BY <1>6, RunningThread, Zenon DEF Resume, SleepReturn, ThreadLocs
  <2>2. pc[c] \in OnThread /\ pc[c] \notin OffThread /\ pc'[c] \notin Held
    BY <1>6, Zenon DEF Resume, SleepReturn
  <2>3. tdLock' = [tdLock EXCEPT ![running[c]] = None]
    BY <1>6, Zenon DEF Resume, SleepReturn
  <2>4. InThread(c, running[c]) /\ \A s \in Threads : InThread(c, s) => s = running[c]
    BY <2>2, Zenon DEF InThread
  <2> HIDE DEF Held
  <2> QED BY <1>3, <2>1, <2>2, <2>3, <2>4, Zenon
<1>7. CASE (SrEnter(c) /\ td[c] # None) \/ ForkRunq(c)
  <2>1. td[c] \in Threads
    BY <1>7, Zenon DEF ForkRunq, LockInv, CpuInv, LocalsSet
  <2>2. pc[c] \in OffThread /\ pc[c] \notin OnThread /\ pc'[c] \notin Held
    BY <1>7, Zenon DEF SrEnter, ForkRunq
  <2>3. tdLock' = [tdLock EXCEPT ![td[c]] = None]
    BY <1>7, Zenon DEF SrEnter, ForkRunq
  <2>4. InThread(c, td[c]) /\ \A s \in Threads : InThread(c, s) => s = td[c]
    BY <2>2, Zenon DEF InThread
  <2> HIDE DEF Held
  <2> QED BY <1>3, <2>1, <2>2, <2>3, <2>4, Zenon
<1>8. CASE SrEnter(c) /\ td[c] = None
  <2>1. pc[c] = "sr_enter" /\ pc'[c] = "sr_loop" /\ tdLock' = tdLock
    BY <1>8, Zenon DEF SrEnter
  <2>2. \A t \in Threads : ~InThread(c, t) /\ ~InThread(c, t)'
    BY <1>8, <2>1, NoneAssumption, Zenon DEF InThread
  <2> QED BY <2>1, <2>2, ThreadsSame, Zenon
<1>9. CASE TdAllocTd(c)
  <2>1. Head(freeq) \in Threads
    BY <1>9, NewThread, Zenon DEF TdAllocTd
  <2>2. /\ pc[c] = "ta_td" /\ pc'[c] = "fk_runq" /\ td'[c] = Head(freeq)
        /\ tdLock[Head(freeq)] = None /\ tdLock' = [tdLock EXCEPT ![Head(freeq)] = c]
    BY <1>9, Zenon DEF TdAllocTd
  <2>3. \A t \in Threads : InThread(c, t)' <=> InThread(c, t) \/ t = Head(freeq)
    BY <2>2, Zenon DEF InThread
  <2> QED BY <2>1, <2>2, <2>3, ThreadTaken, Zenon
<1>10. CASE Schedule(c)
  <2>1. pc[c] = "schedule" /\ pc'[c] = "sr_enter" /\ td'[c] = running[c] /\ tdLock' = tdLock
    BY <1>10, Zenon DEF Schedule
  <2>2. \A t \in Threads : InThread(c, t)' <=> InThread(c, t)
    BY <2>1, Zenon DEF InThread
  <2> QED BY <2>1, <2>2, ThreadsSame, Zenon
<1>11. CASE ExitFree(c)
  <2>1. pc[c] = "ex_free" /\ pc'[c] = "schedule" /\ running' = running /\ tdLock' = tdLock
    BY <1>11, Zenon DEF ExitFree
  <2>2. \A t \in Threads : InThread(c, t)' <=> InThread(c, t)
    BY <2>1, Zenon DEF InThread
  <2> QED BY <2>1, <2>2, ThreadsSame, Zenon
<1>12. ASSUME SrHalt(c) \/ SrIdle(c) \/ IdleLeave(c) \/ SleepEnter(c) \/ RelockClaim(c) \/ RelockSleep(c)
              \/ RelockTimed(c) \/ WakeEnter(c) \/ WakeSkip(c) \/ WakeTake(c) \/ WakeDoneMutex(c)
              \/ WakeDoneTimed(c) \/ NanoSleep(c) \/ TimerInt(c) \/ TcExpire(c) \/ TcDone(c)
              \/ TdAllocFail(c) \/ TdAlloc(c)
              \/ \E m \in Mutexes : \/ MtxReenter(c, m) \/ MtxClaim(c, m) \/ MtxBlock(c, m)
                                    \/ MtxReleave(c, m) \/ MtxRelease(c, m)
       PROVE  pc[c] \notin Held /\ pc'[c] \notin Held /\ tdLock' = tdLock
  BY <1>12, Zenon
     DEF SrHalt, SrIdle, IdleLeave, SleepEnter, RelockClaim, RelockSleep, RelockTimed, WakeEnter,
         WakeSkip, WakeTake, WakeDoneMutex, WakeDoneTimed, WakeDone, NanoSleep, TimerInt, TcExpire,
         TcDone, TdAllocFail, TdAlloc, MtxReenter, MtxClaim, MtxBlock, MtxReleave, MtxRelease
<1> HIDE DEF Held, OnThread, OffThread
<1> QED
  BY Zenon, <1>1, <1>4, <1>5, <1>6, <1>7, <1>8, <1>9, <1>10, <1>11, <1>12
     DEF CpuStep, MtxLockSleep, MtxUnlockSleep

LEMMA QueueLocksStep ==
  ASSUME LockInv, NEW c \in Cpus, CpuStep(c)
  PROVE  QueueLocks'
<1> SUFFICES ASSUME NEW d \in Cpus, NEW q \in Queues PROVE qlock'[q] = d <=> InCritical(d, q)'
  BY Zenon DEF QueueLocks
<1>1. CASE d = c
  BY <1>1, QueuesOwnedStep, Zenon DEF QueuesOwned
<1>2. CASE d # c
  <2>1. qlock'[q] = d <=> qlock[q] = d
    BY <1>2, QueuesOwnedStep, NoneAssumption, Zenon DEF QueuesPassed
  <2>2. InCritical(d, q)' <=> InCritical(d, q)
    BY <1>2, OthersStill, Zenon DEF Kept, InCritical
  <2> QED
    BY <2>1, <2>2, Zenon DEF LockInv, LockDiscipline, QueueLocks
<1> QED BY <1>1, <1>2, Zenon

LEMMA MutexLocksStep ==
  ASSUME LockInv, NEW c \in Cpus, CpuStep(c)
  PROVE  MutexLocks'
<1> SUFFICES ASSUME NEW d \in Cpus, NEW m \in Mutexes PROVE mtxLo'[m] = d <=> InMutex(d, m)'
  BY Zenon DEF MutexLocks
<1>1. CASE d = c
  BY <1>1, MutexesOwnedStep, Zenon DEF MutexesOwned
<1>2. CASE d # c
  <2>1. mtxLo'[m] = d <=> mtxLo[m] = d
    BY <1>2, MutexesOwnedStep, NoneAssumption, Zenon DEF MutexesPassed
  <2>2. InMutex(d, m)' <=> InMutex(d, m)
    BY <1>2, OthersStill, Zenon DEF Kept, InMutex
  <2> QED
    BY <2>1, <2>2, Zenon DEF LockInv, LockDiscipline, MutexLocks
<1> QED BY <1>1, <1>2, Zenon

LEMMA ThreadLocksStep ==
  ASSUME LockInv, NEW c \in Cpus, CpuStep(c)
  PROVE  ThreadLocks'
<1> SUFFICES ASSUME NEW d \in Cpus, NEW t \in Threads PROVE tdLock'[t] = d <=> InThread(d, t)'
  BY Zenon DEF ThreadLocks
<1>1. CASE d = c
  BY <1>1, ThreadsOwnedStep, Zenon DEF ThreadsOwned
<1>2. CASE d # c
  <2>1. tdLock'[t] = d <=> tdLock[t] = d
    BY <1>2, ThreadsOwnedStep, NoneAssumption, Zenon DEF ThreadsPassed
  <2>2. InThread(d, t)' <=> InThread(d, t)
    BY <1>2, OthersStill, Zenon DEF Kept, InThread
  <2> QED
    BY <2>1, <2>2, Zenon DEF LockInv, LockDiscipline, ThreadLocks
<1> QED BY <1>1, <1>2, Zenon

-----------------------------------------------------------------------------
(***************************************************************************)
(* The locals of the CPUs                                                  *)
(***************************************************************************)

\* The td_lock of a thread protects its td_status.
LEMMA StatusStill ==
  ASSUME LockInv, NEW c \in Cpus, CpuStep(c), NEW d \in Cpus, d # c, NEW t \in Threads, InThread(d, t)
  PROVE  status'[t] = status[t]
<1> status \in [Threads -> Statuses]
  BY Zenon DEF LockInv, TypeOK, ThreadTypes
<1> USE NoneAssumption
<1> tdLock[t] # None
  BY Zenon DEF LockInv, LockDiscipline, ThreadLocks
<1>1. CASE Yield(c)
  BY <1>1, Zenon DEF Yield
<1>2. CASE Pick(c)
  BY <1>2, Zenon DEF Pick
<1>3. CASE SleepTd(c)
  BY <1>3, Zenon DEF SleepTd
<1>4. CASE WakeTake(c)
  BY <1>4, Zenon DEF WakeTake
<1>5. CASE TdAllocTd(c)
  BY <1>5, Zenon DEF TdAllocTd
<1>6. CASE Exit(c)
  BY <1>6, Zenon DEF Exit
<1>7. CASE UNCHANGED status
  BY <1>7, Zenon
<1> QED
  BY <1>1, <1>2, <1>3, <1>4, <1>5, <1>6, <1>7, Zenon
     DEF CpuStep, MtxLockSleep, MtxUnlockSleep, Schedule, SrEnter, SrHalt, SrIdle,
         IdleLeave, Resume, SleepEnter, SleepReturn, RelockClaim, RelockSleep, RelockTimed,
         WakeEnter, WakeSkip, WakeDoneMutex, WakeDoneTimed, NanoSleep, TimerInt, TcExpire,
         TcDone, TdAllocFail, TdAlloc, ForkRunq, ExitFree, MtxReenter, MtxClaim, MtxBlock,
         MtxReleave, MtxRelease, WakeDone

LEMMA OwnLocals ==
  ASSUME LockInv, NEW c \in Cpus, CpuStep(c)
  PROVE  LocalsSet(c)'
<1> /\ pc \in [Cpus -> Locations]
    /\ running \in [Cpus -> Threads \cup {None}]
    /\ chan \in [Cpus -> Chans \cup {None}]
    /\ td \in [Cpus -> Threads \cup {None}]
  BY Zenon DEF LockInv, TypeOK, CpuTypes
<1> USE NoneAssumption
<1> LocalsSet(c)
  BY Zenon DEF LockInv, CpuInv
<1>1. CASE Yield(c)
  BY <1>1, Zenon DEF Yield, LocalsSet, ThreadLocs
<1>2. CASE Schedule(c)
  BY <1>2, Zenon DEF Schedule, ResumePoint, LocalsSet, ThreadLocs
<1>3. CASE SrEnter(c)
  BY <1>3, Zenon DEF SrEnter, LocalsSet, ThreadLocs
<1>4. CASE SrHalt(c)
  BY <1>4, Zenon DEF SrHalt, LocalsSet, ThreadLocs
<1>5. CASE SrIdle(c)
  BY <1>5, Zenon DEF SrIdle, MayHalt, AllIdle, LocalsSet, ThreadLocs
<1>6. CASE IdleLeave(c)
  BY <1>6, Zenon DEF IdleLeave, LocalsSet, ThreadLocs
<1>7. CASE Pick(c)
  <2>1. Head(runq) \in Threads
    BY <1>7, PickedThread, Zenon DEF Pick
  <2>2. ctx[Head(runq)].pc \in ResumePoints
    BY <1>7, PickedThread, Zenon DEF Pick
  <2>3. ctx[Head(runq)].pc = "slept" => ctx[Head(runq)].chan # None
    BY <1>7, PickedThread, Zenon DEF Pick
  <2> QED
    BY <1>7, <2>1, <2>2, <2>3, Zenon DEF Pick, LocalsSet, ThreadLocs, ResumePoints
<1>8. CASE Resume(c)
  BY <1>8, Zenon DEF Resume, LocalsSet, ThreadLocs
<1>9. CASE SleepEnter(c)
  BY <1>9, Zenon DEF SleepEnter, LocalsSet, ThreadLocs
<1>10. CASE SleepTd(c)
  BY <1>10, Zenon DEF SleepTd, LocalsSet, ThreadLocs
<1>11. CASE SleepReturn(c)
  BY <1>11, Zenon DEF SleepReturn, LocalsSet, ThreadLocs
<1>12. CASE RelockClaim(c)
  BY <1>12, Zenon DEF RelockClaim, LocalsSet, ThreadLocs
<1>13. CASE RelockSleep(c)
  BY <1>13, Zenon DEF RelockSleep, LocalsSet, ThreadLocs
<1>14. CASE RelockTimed(c)
  BY <1>14, Zenon DEF RelockTimed, LocalsSet, ThreadLocs
<1>15. CASE WakeEnter(c)
  BY <1>15, Zenon DEF WakeEnter, LocalsSet, ThreadLocs
<1>16. CASE WakeSkip(c)
  BY <1>16, Zenon DEF WakeSkip, LocalsSet, ThreadLocs
<1>17. CASE WakeTake(c)
  BY <1>17, Zenon DEF WakeTake, LocalsSet, ThreadLocs
<1>18. CASE WakeDoneMutex(c)
  BY <1>18, Zenon DEF WakeDoneMutex, WakeDone, LocalsSet, ThreadLocs
<1>19. CASE WakeDoneTimed(c)
  BY <1>19, Zenon DEF WakeDoneTimed, WakeDone, LocalsSet, ThreadLocs
<1>20. CASE NanoSleep(c)
  <2>1. running[c] \in Threads
    BY <1>20, RunningThread, Zenon DEF NanoSleep, ThreadLocs
  <2> QED
    BY <1>20, <2>1, Zenon DEF NanoSleep, LocalsSet, ThreadLocs
<1>21. CASE TimerInt(c)
  BY <1>21, Zenon DEF TimerInt, LocalsSet, ThreadLocs
<1>22. CASE TcExpire(c)
  <2>1. Head(tseq) \in Threads
    BY <1>22, ExpiredThread, Zenon DEF TcExpire
  <2> QED
    BY <1>22, ChanAssumption, <2>1, Zenon DEF TcExpire, LocalsSet, ThreadLocs
<1>23. CASE TcDone(c)
  BY <1>23, Zenon DEF TcDone, LocalsSet, ThreadLocs
<1>24. CASE TdAllocFail(c)
  BY <1>24, Zenon DEF TdAllocFail, LocalsSet, ThreadLocs
<1>25. CASE TdAlloc(c)
  BY <1>25, Zenon DEF TdAlloc, LocalsSet, ThreadLocs
<1>26. CASE TdAllocTd(c)
  <2>1. Head(freeq) \in Threads
    BY <1>26, NewThread, Zenon DEF TdAllocTd
  <2> QED
    BY <1>26, <2>1, Zenon DEF TdAllocTd, LocalsSet, ThreadLocs
<1>27. CASE ForkRunq(c)
  BY <1>27, Zenon DEF ForkRunq, LocalsSet, ThreadLocs
<1>28. CASE Exit(c)
  BY <1>28, Zenon DEF Exit, LocalsSet, ThreadLocs
<1>29. CASE ExitFree(c)
  BY <1>29, Zenon DEF ExitFree, LocalsSet, ThreadLocs
<1>30. ASSUME NEW m \in Mutexes, MtxReenter(c, m) PROVE LocalsSet(c)'
  BY <1>30, Zenon DEF MtxReenter, LocalsSet, ThreadLocs
<1>31. ASSUME NEW m \in Mutexes, MtxClaim(c, m) PROVE LocalsSet(c)'
  BY <1>31, Zenon DEF MtxClaim, LocalsSet, ThreadLocs
<1>32. ASSUME NEW m \in Mutexes, MtxBlock(c, m) PROVE LocalsSet(c)'
  BY <1>32, Zenon DEF MtxBlock, LocalsSet, ThreadLocs
<1>33. ASSUME NEW m \in Mutexes, MtxReleave(c, m) PROVE LocalsSet(c)'
  BY <1>33, Zenon DEF MtxReleave, LocalsSet, ThreadLocs
<1>34. ASSUME NEW m \in Mutexes, MtxRelease(c, m) PROVE LocalsSet(c)'
  BY <1>34, Zenon DEF MtxRelease, LocalsSet, ThreadLocs
<1> QED
  BY Zenon, <1>1, <1>2, <1>3, <1>4, <1>5, <1>6, <1>7, <1>8, <1>9, <1>10, <1>11, <1>12, <1>13,
     <1>14, <1>15, <1>16, <1>17, <1>18, <1>19, <1>20, <1>21, <1>22, <1>23, <1>24, <1>25,
     <1>26, <1>27, <1>28, <1>29, <1>30, <1>31, <1>32, <1>33, <1>34
     DEF CpuStep, MtxLockSleep, MtxUnlockSleep

LEMMA OwnLeaving ==
  ASSUME LockInv, NEW c \in Cpus, CpuStep(c)
  PROVE  Leaving(c)'
<1> /\ pc \in [Cpus -> Locations]
    /\ running \in [Cpus -> Threads \cup {None}]
    /\ chan \in [Cpus -> Chans \cup {None}]
    /\ status \in [Threads -> Statuses]
  BY Zenon DEF LockInv, TypeOK, CpuTypes, ThreadTypes
<1> LocalsSet(c) /\ Leaving(c)
  BY Zenon DEF LockInv, CpuInv
<1>1. CASE Yield(c)
  <2>1. running[c] \in Threads
    BY <1>1, RunningThread, Zenon DEF Yield, ThreadLocs
  <2> QED
    BY <1>1, <2>1, Zenon DEF Yield, Leaving
<1>2. CASE Schedule(c)
  BY <1>2, Zenon DEF Schedule, ResumePoint, Leaving
<1>3. CASE SrEnter(c)
  BY <1>3, Zenon DEF SrEnter, Leaving
<1>4. CASE SrHalt(c)
  BY <1>4, Zenon DEF SrHalt, Leaving
<1>5. CASE SrIdle(c)
  BY <1>5, Zenon DEF SrIdle, MayHalt, AllIdle, Leaving
<1>6. CASE IdleLeave(c)
  BY <1>6, Zenon DEF IdleLeave, Leaving
<1>7. CASE Pick(c)
  <2>1. ctx[Head(runq)].pc \in ResumePoints
    BY <1>7, PickedThread, Zenon DEF Pick
  <2> QED
    BY <1>7, <2>1, Zenon DEF Pick, Leaving, ResumePoints
<1>8. CASE Resume(c)
  BY <1>8, Zenon DEF Resume, Leaving
<1>9. CASE SleepEnter(c)
  BY <1>9, Zenon DEF SleepEnter, Leaving
<1>10. CASE SleepTd(c)
  <2>1. running[c] \in Threads
    BY <1>10, RunningThread, Zenon DEF SleepTd, ThreadLocs
  <2> QED
    BY <1>10, <2>1, Zenon DEF SleepTd, Leaving, LocalsSet
<1>11. CASE SleepReturn(c)
  BY <1>11, Zenon DEF SleepReturn, Leaving
<1>12. CASE RelockClaim(c)
  BY <1>12, Zenon DEF RelockClaim, Leaving
<1>13. CASE RelockSleep(c)
  BY <1>13, Zenon DEF RelockSleep, Leaving
<1>14. CASE RelockTimed(c)
  BY <1>14, Zenon DEF RelockTimed, Leaving
<1>15. CASE WakeEnter(c)
  BY <1>15, Zenon DEF WakeEnter, Leaving
<1>16. CASE WakeSkip(c)
  BY <1>16, Zenon DEF WakeSkip, Leaving
<1>17. CASE WakeTake(c)
  BY <1>17, Zenon DEF WakeTake, Leaving
<1>18. CASE WakeDoneMutex(c)
  BY <1>18, Zenon DEF WakeDoneMutex, WakeDone, Leaving
<1>19. CASE WakeDoneTimed(c)
  BY <1>19, Zenon DEF WakeDoneTimed, WakeDone, Leaving
<1>20. CASE NanoSleep(c)
  BY <1>20, Zenon DEF NanoSleep, Leaving
<1>21. CASE TimerInt(c)
  BY <1>21, Zenon DEF TimerInt, Leaving
<1>22. CASE TcExpire(c)
  BY <1>22, Zenon DEF TcExpire, Leaving
<1>23. CASE TcDone(c)
  BY <1>23, Zenon DEF TcDone, Leaving
<1>24. CASE TdAllocFail(c)
  BY <1>24, Zenon DEF TdAllocFail, Leaving
<1>25. CASE TdAlloc(c)
  BY <1>25, Zenon DEF TdAlloc, Leaving
<1>26. CASE TdAllocTd(c)
  BY <1>26, Zenon DEF TdAllocTd, Leaving
<1>27. CASE ForkRunq(c)
  BY <1>27, Zenon DEF ForkRunq, Leaving
<1>28. CASE Exit(c)
  <2>1. running[c] \in Threads
    BY <1>28, RunningThread, Zenon DEF Exit, ThreadLocs
  <2> QED
    BY <1>28, <2>1, Zenon DEF Exit, Leaving
<1>29. CASE ExitFree(c)
  <2>1. running[c] \in Threads
    BY <1>29, RunningThread, Zenon DEF ExitFree, ThreadLocs
  <2> QED
    BY <1>29, <2>1, Zenon DEF ExitFree, Leaving
<1>30. ASSUME NEW m \in Mutexes, MtxReenter(c, m) PROVE Leaving(c)'
  BY <1>30, Zenon DEF MtxReenter, Leaving
<1>31. ASSUME NEW m \in Mutexes, MtxClaim(c, m) PROVE Leaving(c)'
  BY <1>31, Zenon DEF MtxClaim, Leaving
<1>32. ASSUME NEW m \in Mutexes, MtxBlock(c, m) PROVE Leaving(c)'
  BY <1>32, Zenon DEF MtxBlock, Leaving
<1>33. ASSUME NEW m \in Mutexes, MtxReleave(c, m) PROVE Leaving(c)'
  BY <1>33, Zenon DEF MtxReleave, Leaving
<1>34. ASSUME NEW m \in Mutexes, MtxRelease(c, m) PROVE Leaving(c)'
  BY <1>34, Zenon DEF MtxRelease, Leaving
<1> QED
  BY Zenon, <1>1, <1>2, <1>3, <1>4, <1>5, <1>6, <1>7, <1>8, <1>9, <1>10, <1>11, <1>12, <1>13,
     <1>14, <1>15, <1>16, <1>17, <1>18, <1>19, <1>20, <1>21, <1>22, <1>23, <1>24, <1>25,
     <1>26, <1>27, <1>28, <1>29, <1>30, <1>31, <1>32, <1>33, <1>34
     DEF CpuStep, MtxLockSleep, MtxUnlockSleep

LEMMA CpuInvStep ==
  ASSUME LockInv, NEW c \in Cpus, CpuStep(c)
  PROVE  CpuInv'
<1> SUFFICES ASSUME NEW d \in Cpus PROVE LocalsSet(d)' /\ Leaving(d)'
  BY Zenon DEF CpuInv
<1>1. CASE d = c
  BY <1>1, OwnLocals, OwnLeaving, Zenon
<1>2. CASE d # c
  <2>1. Kept(d)
    BY <1>2, OthersStill, Zenon
  <2>2. LocalsSet(d)'
    BY <2>1, Zenon DEF Kept, LockInv, CpuInv, LocalsSet
  <2>3. ASSUME pc[d] \in {"ex_free", "schedule"} PROVE status'[running[d]] = status[running[d]]
    <3>1. running[d] \in Threads
      BY <2>3, RunningThread, Zenon DEF ThreadLocs
    <3> QED
      BY <1>2, <2>3, <3>1, StatusStill, Zenon DEF InThread
  <2>4. Leaving(d)'
    BY <2>1, <2>3, Zenon DEF Kept, LockInv, CpuInv, Leaving
  <2> QED BY <2>2, <2>4, Zenon
<1> QED BY <1>1, <1>2, Zenon

LEMMA FreeqKept ==
  ASSUME LockInv, NEW c \in Cpus, CpuStep(c)
  PROVE  FreeqStays(c)
<1> pc \in [Cpus -> Locations]
  BY Zenon DEF LockInv, TypeOK, CpuTypes
<1>1. CASE Yield(c)
  BY <1>1, Zenon DEF Yield, FreeqStays
<1>2. CASE Schedule(c)
  BY <1>2, Zenon DEF Schedule, ResumePoint, FreeqStays
<1>3. CASE SrEnter(c)
  BY <1>3, Zenon DEF SrEnter, FreeqStays
<1>4. CASE SrHalt(c)
  BY <1>4, Zenon DEF SrHalt, FreeqStays
<1>5. CASE SrIdle(c)
  BY <1>5, Zenon DEF SrIdle, MayHalt, AllIdle, FreeqStays
<1>6. CASE IdleLeave(c)
  BY <1>6, Zenon DEF IdleLeave, FreeqStays
<1>7. CASE Pick(c)
  <2>1. ctx[Head(runq)].pc \in ResumePoints
    BY <1>7, PickedThread, Zenon DEF Pick
  <2> QED
    BY <1>7, <2>1, Zenon DEF Pick, FreeqStays, ResumePoints
<1>8. CASE Resume(c)
  BY <1>8, Zenon DEF Resume, FreeqStays
<1>9. CASE SleepEnter(c)
  BY <1>9, Zenon DEF SleepEnter, FreeqStays
<1>10. CASE SleepTd(c)
  BY <1>10, Zenon DEF SleepTd, FreeqStays
<1>11. CASE SleepReturn(c)
  BY <1>11, Zenon DEF SleepReturn, FreeqStays
<1>12. CASE RelockClaim(c)
  BY <1>12, Zenon DEF RelockClaim, FreeqStays
<1>13. CASE RelockSleep(c)
  BY <1>13, Zenon DEF RelockSleep, FreeqStays
<1>14. CASE RelockTimed(c)
  BY <1>14, Zenon DEF RelockTimed, FreeqStays
<1>15. CASE WakeEnter(c)
  BY <1>15, Zenon DEF WakeEnter, FreeqStays
<1>16. CASE WakeSkip(c)
  BY <1>16, Zenon DEF WakeSkip, FreeqStays
<1>17. CASE WakeTake(c)
  BY <1>17, Zenon DEF WakeTake, FreeqStays
<1>18. CASE WakeDoneMutex(c)
  BY <1>18, Zenon DEF WakeDoneMutex, WakeDone, FreeqStays
<1>19. CASE WakeDoneTimed(c)
  BY <1>19, Zenon DEF WakeDoneTimed, WakeDone, FreeqStays
<1>20. CASE NanoSleep(c)
  BY <1>20, Zenon DEF NanoSleep, FreeqStays
<1>21. CASE TimerInt(c)
  BY <1>21, Zenon DEF TimerInt, FreeqStays
<1>22. CASE TcExpire(c)
  BY <1>22, Zenon DEF TcExpire, FreeqStays
<1>23. CASE TcDone(c)
  BY <1>23, Zenon DEF TcDone, FreeqStays
<1>24. CASE TdAllocFail(c)
  BY <1>24, Zenon DEF TdAllocFail, FreeqStays
<1>25. CASE TdAlloc(c)
  BY <1>25, Zenon DEF TdAlloc, FreeqStays
<1>26. CASE TdAllocTd(c)
  BY <1>26, Zenon DEF TdAllocTd, FreeqStays
<1>27. CASE ForkRunq(c)
  BY <1>27, Zenon DEF ForkRunq, FreeqStays
<1>28. CASE Exit(c)
  BY <1>28, Zenon DEF Exit, FreeqStays
<1>29. CASE ExitFree(c)
  <2>1. running[c] \in Threads
    BY <1>29, RunningThread, Zenon DEF ExitFree, ThreadLocs
  <2>2. Append(freeq, running[c]) # <<>>
    BY <1>29, <2>1, SeqAppend, Zenon DEF LockInv, TypeOK, QueueTypes
  <2> QED
    BY <1>29, <2>1, <2>2, Zenon DEF ExitFree, FreeqStays
<1>30. ASSUME NEW m \in Mutexes, MtxReenter(c, m) PROVE FreeqStays(c)
  BY <1>30, Zenon DEF MtxReenter, FreeqStays
<1>31. ASSUME NEW m \in Mutexes, MtxClaim(c, m) PROVE FreeqStays(c)
  BY <1>31, Zenon DEF MtxClaim, FreeqStays
<1>32. ASSUME NEW m \in Mutexes, MtxBlock(c, m) PROVE FreeqStays(c)
  BY <1>32, Zenon DEF MtxBlock, FreeqStays
<1>33. ASSUME NEW m \in Mutexes, MtxReleave(c, m) PROVE FreeqStays(c)
  BY <1>33, Zenon DEF MtxReleave, FreeqStays
<1>34. ASSUME NEW m \in Mutexes, MtxRelease(c, m) PROVE FreeqStays(c)
  BY <1>34, Zenon DEF MtxRelease, FreeqStays
<1> QED
  BY Zenon, <1>1, <1>2, <1>3, <1>4, <1>5, <1>6, <1>7, <1>8, <1>9, <1>10, <1>11, <1>12, <1>13,
     <1>14, <1>15, <1>16, <1>17, <1>18, <1>19, <1>20, <1>21, <1>22, <1>23, <1>24, <1>25,
     <1>26, <1>27, <1>28, <1>29, <1>30, <1>31, <1>32, <1>33, <1>34
     DEF CpuStep, MtxLockSleep, MtxUnlockSleep

LEMMA FreeqInvStep ==
  ASSUME LockInv, NEW c \in Cpus, CpuStep(c)
  PROVE  FreeqInv'
<1> SUFFICES ASSUME NEW d \in Cpus, pc'[d] = "ta_td" PROVE freeq' # <<>>
  BY Zenon DEF FreeqInv
<1>1. CASE d = c
  BY <1>1, FreeqKept, Zenon DEF FreeqStays
<1>2. CASE d # c
  <2>1. pc[d] = "ta_td"
    BY <1>2, OthersStill, Zenon DEF Kept
  <2>2. pc[c] # "ta_td"
    BY <1>2, <2>1, Zenon DEF LockInv, LockDiscipline, QueueLocks, InCritical, Queues
  <2> QED
    BY <2>1, <2>2, FreeqKept, Zenon DEF FreeqStays, LockInv, FreeqInv
<1> QED BY <1>1, <1>2, Zenon

LEMMA CtxInvStep ==
  ASSUME LockInv, NEW c \in Cpus, CpuStep(c)
  PROVE  CtxInv'
<1> ctx \in [Threads -> [pc : ResumePoints, chan : Chans \cup {None}]]
  BY Zenon DEF LockInv, TypeOK, ThreadTypes
<1> CtxInv
  BY Zenon DEF LockInv
<1>1. CASE Schedule(c)
  <2>1. running[c] \in Threads
    BY <1>1, RunningThread, Zenon DEF Schedule, ThreadLocs
  <2>2. status[running[c]] = "SLEEPING" => chan[c] # None
    BY <1>1, Zenon DEF Schedule, LockInv, CpuInv, Leaving
  <2> QED
    BY <1>1, <2>1, <2>2, Zenon DEF Schedule, ResumePoint, CtxInv
<1>2. CASE TdAllocTd(c)
  <2>1. Head(freeq) \in Threads
    BY <1>2, NewThread, Zenon DEF TdAllocTd
  <2> QED
    BY <1>2, <2>1, Zenon DEF TdAllocTd, CtxInv
<1>3. CASE UNCHANGED ctx
  BY <1>3, Zenon DEF CtxInv
<1> QED
  BY <1>1, <1>2, <1>3, Zenon
     DEF CpuStep, MtxLockSleep, MtxUnlockSleep, Yield, SrEnter, SrHalt, SrIdle, IdleLeave,
         Pick, Resume, SleepEnter, SleepTd, SleepReturn, RelockClaim, RelockSleep,
         RelockTimed, WakeEnter, WakeSkip, WakeTake, WakeDoneMutex, WakeDoneTimed,
         NanoSleep, TimerInt, TcExpire, TcDone, TdAllocFail, TdAlloc, ForkRunq, Exit,
         ExitFree, MtxReenter, MtxClaim, MtxBlock, MtxReleave, MtxRelease, WakeDone

-----------------------------------------------------------------------------
(***************************************************************************)
(* Theorems                                                                *)
(***************************************************************************)

LEMMA LockStep == LockInv /\ [Next]_vars => LockInv'
<1> SUFFICES ASSUME LockInv, [Next]_vars PROVE LockInv'
  BY Zenon
<1> USE DEF LockInv, TypeOK, LockDiscipline
<1>1. ASSUME NEW c \in Cpus, CpuStep(c) PROVE LockInv'
  <2>1. TypeOK'
    BY <1>1, CpuTypesStep, ThreadTypesStep, LockTypesStep, MutexStep, QueueTypesStep, Zenon
  <2>2. LockDiscipline'
    BY <1>1, QueueLocksStep, MutexLocksStep, ThreadLocksStep, Zenon
  <2>3. CpuInv' /\ FreeqInv' /\ CtxInv' /\ MutexInv'
    BY <1>1, CpuInvStep, FreeqInvStep, CtxInvStep, MutexStep, Zenon
  <2> QED BY <2>1, <2>2, <2>3, Zenon
<1>2. CASE UNCHANGED vars
  <2>1. TypeOK'
    BY <1>2, Zenon DEF vars, CpuTypes, ThreadTypes, LockTypes, MutexTypes, QueueTypes
  <2>2. LockDiscipline'
    BY <1>2, SMTT(60) DEF vars, QueueLocks, MutexLocks, ThreadLocks, InCritical, InMutex, InThread
  <2>3. CpuInv' /\ FreeqInv' /\ CtxInv' /\ MutexInv'
    BY <1>2, Zenon DEF vars, CpuInv, LocalsSet, Leaving, FreeqInv, CtxInv, MutexInv
  <2> QED BY <2>1, <2>2, <2>3, Zenon
<1> QED
  BY <1>1, <1>2, Zenon DEF Next, Stopped

LEMMA LockAlways == Spec => []LockInv
  BY LockInit, LockStep, PTL DEF Spec

\* Type correctness of the thread layer, for any number of CPUs, threads and mutexes.
THEOREM TypeCorrect == Spec => []TypeOK
  BY LockAlways, PTL DEF LockInv

\* No path of the thread layer leaks a spinlock, releases one it does not own or
\* enters a critical section that another CPU is in.
THEOREM LocksExact == Spec => []LockDiscipline
  BY LockAlways, PTL DEF LockInv

\* Whenever schedule() is entered its checks succeed: the CPU holds the lock of
\* the thread it leaves, no other lock, and the thread is no longer RUNNING.
THEOREM ScheduleSafe == Spec => []ScheduleEntry
<1>1. LockInv => ScheduleEntry
  <2> SUFFICES ASSUME LockInv, NEW c \in Cpus, pc[c] = "schedule"
               PROVE  /\ tdLock[running[c]] = c
                      /\ status[running[c]] # "RUNNING"
                      /\ \A t \in Threads : tdLock[t] = c => t = running[c]
                      /\ \A q \in Queues : qlock[q] # c
                      /\ \A m \in Mutexes : mtxLo[m] # c
    BY Zenon DEF ScheduleEntry
  <2>1. running[c] \in Threads
    BY RunningThread, Zenon DEF LockInv, TypeOK, ThreadLocs
  <2>2. /\ tdLock[running[c]] = c
        /\ \A t \in Threads : tdLock[t] = c => t = running[c]
    BY <2>1 DEF LockInv, LockDiscipline, ThreadLocks, InThread
  <2>3. \A q \in Queues : qlock[q] # c
    BY Zenon DEF LockInv, LockDiscipline, QueueLocks, InCritical
  <2>4. \A m \in Mutexes : mtxLo[m] # c
    BY Zenon DEF LockInv, LockDiscipline, MutexLocks, InMutex
  <2>5. status[running[c]] # "RUNNING"
    BY Zenon DEF LockInv, CpuInv, Leaving
  <2> QED BY <2>2, <2>3, <2>4, <2>5, Zenon
<1> QED
  BY <1>1, LockAlways, PTL

=============================================================================
