----------------------------- MODULE SchedWaits -----------------------------
(***************************************************************************)
(* Proofs about the thread layer, part 3: what sleeping threads wait for   *)
(* (the inductive invariant WaitInv, on top of LockInv and PlaceInv).      *)
(***************************************************************************)
EXTENDS SchedPlaces

\* A CPU has a channel in its hands only inside sleep() and wakeup().
ChanLocs == {"sl_enter", "sl_td", "slept", "relock", "wk_enter", "wk_scan"}
ChanUsed(c) ==
    chan[c] # None => pc[c] \in ChanLocs \/ (pc[c] = "schedule" /\ status[running[c]] = "SLEEPING")
Channels ==
    /\ \A t \in Threads : ctx[t].chan # None => ctx[t].pc = "slept"
    /\ \A c \in Cpus : ChanUsed(c)

\* A thread does not wait for a mutex it owns, and in a timed sleep it waits for itself.
MayWait(t, ch) == (ch \in Mutexes => owner[ch] # t) /\ (ch \in Threads => ch = t)
SleepLocs == {"sl_enter", "sl_td", "schedule", "slept", "relock"}
Waits ==
    /\ \A c \in Cpus : pc[c] \in SleepLocs => MayWait(running[c], chan[c])
    /\ \A t \in Threads : (\A c \in Cpus : running[c] # t) => MayWait(t, ctx[t].chan)
    /\ \A t \in Threads : status[t] = "SLEEPING" => MayWait(t, wchan[t])

\* A queued timeout event is that of a thread in a timed sleep, or entering
\* it, that nobody is waking yet.
InTimed(t) ==
    \/ status[t] = "SLEEPING" /\ wchan[t] = t
    \/ \E c \in Cpus : running[c] = t /\ chan[c] = t /\ pc[c] \in {"sl_enter", "sl_td"}
Events ==
    /\ NoDup(tseq)
    /\ \A t \in Threads : InSeq(t, tseq) => InTimed(t)
    /\ \A c \in Cpus : pc[c] \in {"wk_enter", "wk_scan"} /\ chan[c] \in Threads => ~InSeq(chan[c], tseq)

\* What the scan of wakeup() has passed does not wait for its channel.
Scanned ==
    \A c \in Cpus : pc[c] = "wk_scan" =>
        \A i \in 1..Len(sleepq) : i < pos[c] => wchan[sleepq[i]] # chan[c]

\* A thread on its way into the sleep queue has somebody to wake it: a wakeup()
\* that comes before it is in the queue must still wait for the queue.
Expected(ch) == \E d \in Cpus : pc[d] = "wk_enter" /\ chan[d] = ch
Awaited(c) ==
    /\ chan[c] \in Mutexes => \/ owner[chan[c]] # None
                              \/ pc[c] = "sl_td" /\ Expected(chan[c])
    /\ chan[c] \in Threads => \/ InSeq(chan[c], tseq)
                              \/ pc[c] = "sl_td" /\ Expected(chan[c])
Wakers == \A c \in Cpus : pc[c] \in {"sl_enter", "sl_td"} => Awaited(c)

\* A mutex whose sleepers are being woken has no owner yet.
Released ==
    \A c \in Cpus : pc[c] \in {"wk_enter", "wk_scan"} /\ chan[c] \in Mutexes => owner[chan[c]] = None

\* The inductive invariant for sleep() and wakeup(), on top of LockInv and PlaceInv.
WaitInv == Channels /\ Waits /\ Events /\ Scanned /\ Released /\ Wakers /\ NoLostWakeup

USE DEF Goto, At, InUser, cpuVars, threadVars, lockVars, mutexVars, queueVars

-----------------------------------------------------------------------------
(***************************************************************************)
(* What a step of CPU c can do to the waiting threads                      *)
(***************************************************************************)

\* A mutex gets an owner from mtx_lock_sleep() of a running thread, and loses
\* it in mtx_unlock_sleep().
LEMMA OwnerStep ==
  ASSUME LockInv, NEW c \in Cpus, CpuStep(c), NEW m \in Mutexes, owner'[m] # owner[m]
  PROVE  /\ mtxLo[m] = None
         /\ \/ /\ owner'[m] = running[c] /\ owner[m] = None /\ pc[c] \in {"user", "relock"}
               /\ pc'[c] = "user" /\ running' = running
               /\ owner' = [owner EXCEPT ![m] = running[c]]
            \/ owner'[m] = None /\ MtxRelease(c, m)
<1> owner \in [Mutexes -> Threads \cup {None}] /\ pc \in [Cpus -> Locations]
  BY Zenon DEF LockInv, TypeOK, MutexTypes, CpuTypes
<1>1. CASE RelockClaim(c)
  BY <1>1, Zenon DEF RelockClaim
<1>2. ASSUME NEW n \in Mutexes, MtxClaim(c, n)
      PROVE  /\ owner'[m] = running[c] /\ owner[m] = None /\ pc[c] = "user" /\ pc' = pc
             /\ running' = running /\ mtxLo[m] = None /\ owner' = [owner EXCEPT ![m] = running[c]]
  BY <1>2, Zenon DEF MtxClaim
<1>3. ASSUME NEW n \in Mutexes, MtxRelease(c, n) PROVE owner'[m] = None /\ m = n /\ mtxLo[m] = None
  BY <1>3, Zenon DEF MtxRelease
<1>4. owner' # owner
  BY Zenon
<1> QED
  BY <1>1, <1>2, <1>3, <1>4, Zenon
     DEF CpuStep, MtxLockSleep, MtxUnlockSleep, Yield, Schedule, SrEnter, SrHalt, SrIdle,
         IdleLeave, Pick, Resume, SleepEnter, SleepTd, SleepReturn, RelockSleep, RelockTimed,
         WakeEnter, WakeSkip, WakeTake, WakeDoneMutex, WakeDoneTimed, NanoSleep, TimerInt,
         TcExpire, TcDone, TdAllocFail, TdAlloc, TdAllocTd, ForkRunq, Exit, ExitFree,
         MtxReenter, MtxBlock, MtxReleave, WakeDone

\* A thread falls asleep in sleep(), and its channel stays while it sleeps.
LEMMA SleeperStep ==
  ASSUME LockInv, PlaceInv, NEW c \in Cpus, CpuStep(c), NEW t \in Threads, status'[t] = "SLEEPING"
  PROVE  \/ SleepTd(c) /\ t = running[c]
         \/ status[t] = "SLEEPING" /\ wchan'[t] = wchan[t]
<1> /\ status \in [Threads -> Statuses] /\ wchan \in [Threads -> Chans \cup {None}]
  BY Zenon DEF LockInv, TypeOK, ThreadTypes
<1>1. CASE Yield(c)
  BY <1>1, Zenon DEF Yield
<1>2. CASE Pick(c)
  BY <1>2, Zenon DEF Pick
<1>3. ASSUME SleepTd(c), t # running[c] PROVE status'[t] = status[t] /\ wchan'[t] = wchan[t]
  BY <1>3, Zenon DEF SleepTd
<1>4. CASE WakeTake(c)
  BY <1>4, Zenon DEF WakeTake
<1>5. CASE TdAllocTd(c)
  BY <1>5, Zenon DEF TdAllocTd
<1>6. CASE Exit(c)
  BY <1>6, Zenon DEF Exit
<1>7. CASE SleepReturn(c)
  <2>1. t # running[c]
    BY <1>7, Zenon DEF SleepReturn, PlaceInv, Runs
  <2> QED BY <1>7, <2>1, Zenon DEF SleepReturn
<1>8. CASE UNCHANGED <<status, wchan>>
  BY <1>8, Zenon
<1>9. \/ Yield(c) \/ Pick(c) \/ SleepTd(c) \/ WakeTake(c) \/ TdAllocTd(c) \/ Exit(c) \/ SleepReturn(c)
      \/ UNCHANGED <<status, wchan>>
  BY Zenon
     DEF CpuStep, MtxLockSleep, MtxUnlockSleep, Schedule, SrEnter, SrHalt, SrIdle,
         IdleLeave, Resume, SleepEnter, RelockClaim, RelockSleep, RelockTimed,
         WakeEnter, WakeSkip, WakeDoneMutex, WakeDoneTimed, NanoSleep, TimerInt, TcExpire,
         TcDone, TdAllocFail, TdAlloc, ForkRunq, ExitFree, MtxReenter, MtxClaim, MtxBlock,
         MtxReleave, MtxRelease, WakeDone
<1> QED
  BY <1>1, <1>2, <1>3, <1>4, <1>5, <1>6, <1>7, <1>8, <1>9, Zenon

\* ... until a wakeup() takes it out of the sleep queue.
LEMMA SleeperStays ==
  ASSUME LockInv, PlaceInv, NEW c \in Cpus, CpuStep(c), NEW t \in Threads, status[t] = "SLEEPING",
         ~(WakeTake(c) /\ t = sleepq[pos[c]])
  PROVE  status'[t] = "SLEEPING" /\ wchan'[t] = wchan[t]
<1> status \in [Threads -> Statuses] /\ wchan \in [Threads -> Chans \cup {None}]
  BY Zenon DEF LockInv, TypeOK, ThreadTypes
<1>0. \A d \in Cpus : running[d] = t => pc[d] \in {"schedule", "ex_free"}
  BY Zenon DEF PlaceInv, Runs
<1>1. CASE Yield(c)
  BY <1>0, <1>1, Zenon DEF Yield
<1>2. CASE Pick(c)
  <2>1. Head(runq) \in Threads /\ status[Head(runq)] = "RUNNABLE"
    BY <1>2, PickedThread, InTail, Zenon DEF Pick, PlaceInv, InRunq, LockInv, TypeOK, QueueTypes
  <2> QED BY <1>2, <2>1, Zenon DEF Pick
<1>3. CASE SleepTd(c)
  BY <1>0, <1>3, Zenon DEF SleepTd
<1>4. CASE WakeTake(c)
  BY <1>4, Zenon DEF WakeTake
<1>5. CASE TdAllocTd(c)
  <2>1. status[Head(freeq)] = "UNUSED"
    BY <1>5, NewThread, InTail, Zenon DEF TdAllocTd, PlaceInv, InFreeq, LockInv, TypeOK, QueueTypes, FreeqInv
  <2> QED BY <1>5, <2>1, Zenon DEF TdAllocTd
<1>6. CASE Exit(c)
  BY <1>0, <1>6, Zenon DEF Exit
<1>7. CASE SleepReturn(c)
  BY <1>0, <1>7, Zenon DEF SleepReturn
<1>8. CASE UNCHANGED <<status, wchan>>
  BY <1>8, Zenon
<1> QED
  BY <1>1, <1>2, <1>3, <1>4, <1>5, <1>6, <1>7, <1>8, Zenon
     DEF CpuStep, MtxLockSleep, MtxUnlockSleep, Schedule, SrEnter, SrHalt, SrIdle, IdleLeave,
         Resume, SleepEnter, RelockClaim, RelockSleep, RelockTimed, WakeEnter, WakeSkip,
         WakeDoneMutex, WakeDoneTimed, NanoSleep, TimerInt, TcExpire, TcDone, TdAllocFail,
         TdAlloc, ForkRunq, ExitFree, MtxReenter, MtxClaim, MtxBlock, MtxReleave, MtxRelease,
         WakeDone

\* The sleep queue and the event queue change only under their locks.
LEMMA QueueStep ==
  ASSUME NEW c \in Cpus, CpuStep(c)
  PROVE  /\ sleepq' = sleepq \/ SleepTd(c) \/ WakeTake(c)
         /\ tseq' = tseq \/ NanoSleep(c) \/ TcExpire(c)
<1>1. sleepq' = sleepq \/ SleepTd(c) \/ WakeTake(c)
  BY Zenon
     DEF CpuStep, MtxLockSleep, MtxUnlockSleep, Yield, Schedule, SrEnter, SrHalt, SrIdle,
         IdleLeave, Pick, Resume, SleepEnter, SleepReturn, RelockClaim, RelockSleep, RelockTimed,
         WakeEnter, WakeSkip, WakeDoneMutex, WakeDoneTimed, NanoSleep, TimerInt,
         TcExpire, TcDone, TdAllocFail, TdAlloc, TdAllocTd, ForkRunq, Exit, ExitFree,
         MtxReenter, MtxClaim, MtxBlock, MtxReleave, MtxRelease, WakeDone
<1>2. tseq' = tseq \/ NanoSleep(c) \/ TcExpire(c)
  BY Zenon
     DEF CpuStep, MtxLockSleep, MtxUnlockSleep, Yield, Schedule, SrEnter, SrHalt, SrIdle,
         IdleLeave, Pick, Resume, SleepEnter, SleepTd, SleepReturn, RelockClaim, RelockSleep,
         RelockTimed, WakeEnter, WakeSkip, WakeTake, WakeDoneMutex, WakeDoneTimed, TimerInt,
         TcDone, TdAllocFail, TdAlloc, TdAllocTd, ForkRunq, Exit, ExitFree,
         MtxReenter, MtxClaim, MtxBlock, MtxReleave, MtxRelease, WakeDone
<1> QED BY <1>1, <1>2, Zenon

\* The steps that lead CPU c into sleep(), wakeup() and schedule().
LEMMA PathStep ==
  ASSUME LockInv, NEW c \in Cpus, CpuStep(c)
  PROVE  /\ pc'[c] \in {"sl_enter", "sl_td"} =>
               SleepEnter(c) \/ RelockSleep(c) \/ NanoSleep(c) \/ \E m \in Mutexes : MtxBlock(c, m)
         /\ pc'[c] \in {"wk_enter", "wk_scan"} =>
               WakeEnter(c) \/ WakeSkip(c) \/ WakeTake(c) \/ TcExpire(c) \/ \E m \in Mutexes : MtxRelease(c, m)
         /\ pc'[c] \in {"slept", "relock"} => Pick(c) \/ SleepReturn(c)
         /\ pc'[c] = "schedule" => Yield(c) \/ SleepTd(c) \/ ExitFree(c)
<1> pc \in [Cpus -> Locations]
  BY Zenon DEF LockInv, TypeOK, CpuTypes
<1>0. runq # <<>> => ctx[Head(runq)].pc \in ResumePoints
  BY PickedThread, Zenon
<1>1. ASSUME pc'[c] \in {"sl_enter", "sl_td"}
      PROVE  SleepEnter(c) \/ RelockSleep(c) \/ NanoSleep(c) \/ \E m \in Mutexes : MtxBlock(c, m)
  BY <1>0, <1>1, Zenon
     DEF CpuStep, MtxLockSleep, MtxUnlockSleep, Yield, Schedule, SrEnter, SrHalt, SrIdle,
         IdleLeave, Pick, Resume, SleepTd, SleepReturn, RelockClaim, RelockTimed, WakeEnter,
         WakeSkip, WakeTake, WakeDoneMutex, WakeDoneTimed, TimerInt, TcExpire, TcDone,
         TdAllocFail, TdAlloc, TdAllocTd, ForkRunq, Exit, ExitFree, MtxReenter, MtxClaim,
         MtxReleave, MtxRelease, WakeDone, ResumePoints
<1>2. ASSUME pc'[c] \in {"wk_enter", "wk_scan"}
      PROVE  WakeEnter(c) \/ WakeSkip(c) \/ WakeTake(c) \/ TcExpire(c) \/ \E m \in Mutexes : MtxRelease(c, m)
  BY <1>0, <1>2, Zenon
     DEF CpuStep, MtxLockSleep, MtxUnlockSleep, Yield, Schedule, SrEnter, SrHalt, SrIdle,
         IdleLeave, Pick, Resume, SleepEnter, SleepTd, SleepReturn, RelockClaim, RelockSleep,
         RelockTimed, WakeDoneMutex, WakeDoneTimed, NanoSleep, TimerInt, TcDone, TdAllocFail,
         TdAlloc, TdAllocTd, ForkRunq, Exit, ExitFree, MtxReenter, MtxClaim, MtxBlock,
         MtxReleave, WakeDone, ResumePoints
<1>3. ASSUME pc'[c] \in {"slept", "relock"} PROVE Pick(c) \/ SleepReturn(c)
  BY <1>3, Zenon
     DEF CpuStep, MtxLockSleep, MtxUnlockSleep, Yield, Schedule, SrEnter, SrHalt, SrIdle,
         IdleLeave, Resume, SleepEnter, SleepTd, RelockClaim, RelockSleep, RelockTimed,
         WakeEnter, WakeSkip, WakeTake, WakeDoneMutex, WakeDoneTimed, NanoSleep, TimerInt,
         TcExpire, TcDone, TdAllocFail, TdAlloc, TdAllocTd, ForkRunq, Exit, ExitFree,
         MtxReenter, MtxClaim, MtxBlock, MtxReleave, MtxRelease, WakeDone
<1>4. ASSUME pc'[c] = "schedule" PROVE Yield(c) \/ SleepTd(c) \/ ExitFree(c)
  BY <1>0, <1>4, Zenon
     DEF CpuStep, MtxLockSleep, MtxUnlockSleep, Schedule, SrEnter, SrHalt, SrIdle, IdleLeave,
         Pick, Resume, SleepEnter, SleepReturn, RelockClaim, RelockSleep, RelockTimed,
         WakeEnter, WakeSkip, WakeTake, WakeDoneMutex, WakeDoneTimed, NanoSleep, TimerInt,
         TcExpire, TcDone, TdAllocFail, TdAlloc, TdAllocTd, ForkRunq, Exit, MtxReenter,
         MtxClaim, MtxBlock, MtxReleave, MtxRelease, WakeDone, ResumePoints
<1> QED BY <1>1, <1>2, <1>3, <1>4, Zenon

-----------------------------------------------------------------------------
LEMMA ChannelsStep ==
  ASSUME LockInv, Channels, NEW c \in Cpus, CpuStep(c)
  PROVE  Channels'
<1> /\ pc \in [Cpus -> Locations] /\ chan \in [Cpus -> Chans \cup {None}]
    /\ status \in [Threads -> Statuses] /\ ctx \in [Threads -> [pc : ResumePoints, chan : Chans \cup {None}]]
  BY Zenon DEF LockInv, TypeOK, CpuTypes, ThreadTypes
<1>1. \A t \in Threads : ctx'[t].chan # None => ctx'[t].pc = "slept"
  <2>1. CASE Schedule(c)
    <3>1. running[c] \in Threads
      BY <2>1, RunningThread, Zenon DEF Schedule, ThreadLocs
    <3>2. chan[c] # None => status[running[c]] = "SLEEPING"
      BY <2>1, Zenon DEF Schedule, Channels, ChanUsed, ChanLocs
    <3>3. /\ ctx'[running[c]].chan = chan[c]
          /\ status[running[c]] = "SLEEPING" => ctx'[running[c]].pc = "slept"
          /\ \A t \in Threads : t # running[c] => ctx'[t] = ctx[t]
      BY <2>1, <3>1, Zenon DEF Schedule, ResumePoint
    <3> QED BY <3>2, <3>3, Zenon DEF Channels
  <2>2. CASE TdAllocTd(c)
    <3>1. Head(freeq) \in Threads
      BY <2>2, NewThread, Zenon DEF TdAllocTd
    <3> QED
      BY <2>2, <3>1, Zenon DEF TdAllocTd, Channels
  <2>3. CASE UNCHANGED ctx
    BY <2>3, Zenon DEF Channels
  <2> QED
    BY <2>1, <2>2, <2>3, Zenon
     DEF CpuStep, MtxLockSleep, MtxUnlockSleep, Yield, SrEnter, SrHalt, SrIdle, IdleLeave,
         Pick, Resume, SleepEnter, SleepTd, SleepReturn, RelockClaim, RelockSleep,
         RelockTimed, WakeEnter, WakeSkip, WakeTake, WakeDoneMutex, WakeDoneTimed, NanoSleep,
         TimerInt, TcExpire, TcDone, TdAllocFail, TdAlloc, ForkRunq, Exit, ExitFree,
         MtxReenter, MtxClaim, MtxBlock, MtxReleave, MtxRelease, WakeDone
<1>2. ChanUsed(c)'
  <2> SUFFICES ASSUME chan'[c] # None
               PROVE  pc'[c] \in ChanLocs \/ (pc'[c] = "schedule" /\ status'[running'[c]] = "SLEEPING")
    BY Zenon DEF ChanUsed
  <2>1. chan[c] # None => pc[c] \in ChanLocs \/ pc[c] = "schedule"
    BY Zenon DEF Channels, ChanUsed
  <2>2. \/ Pick(c) \/ SleepEnter(c) \/ SleepTd(c) \/ SleepReturn(c) \/ RelockSleep(c)
        \/ WakeEnter(c) \/ WakeSkip(c) \/ WakeTake(c) \/ NanoSleep(c) \/ TcExpire(c)
        \/ \E m \in Mutexes : MtxBlock(c, m) \/ MtxRelease(c, m)
    BY <2>1, Zenon
     DEF CpuStep, MtxLockSleep, MtxUnlockSleep, Yield, Schedule, SrEnter, SrHalt, SrIdle,
         IdleLeave, Resume, RelockClaim, RelockTimed, WakeDoneMutex, WakeDoneTimed, TimerInt,
         TcDone, TdAllocFail, TdAlloc, TdAllocTd, ForkRunq, Exit, ExitFree, MtxReenter,
         MtxClaim, MtxReleave, WakeDone, ChanLocs
  <2>3. CASE Pick(c)
    <3>1. Head(runq) \in Threads
      BY <2>3, PickedThread, Zenon DEF Pick
    <3> QED BY <2>3, <3>1, Zenon DEF Pick, Channels, ChanLocs
  <2>4. CASE SleepTd(c)
    <3>1. running[c] \in Threads
      BY <2>4, RunningThread, Zenon DEF SleepTd, ThreadLocs
    <3> QED BY <2>4, <3>1, Zenon DEF SleepTd
  <2> QED
    BY <2>2, <2>3, <2>4, Zenon
       DEF SleepEnter, SleepReturn, RelockSleep, WakeEnter, WakeSkip, WakeTake, NanoSleep, TcExpire,
           MtxBlock, MtxRelease, ChanLocs
<1>3. ASSUME NEW d \in Cpus, d # c PROVE ChanUsed(d)'
  <2>1. Kept(d)
    BY <1>3, OthersStill, Zenon
  <2>2. ASSUME pc[d] = "schedule" PROVE status'[running[d]] = status[running[d]]
    <3>1. running[d] \in Threads
      BY <2>2, RunningThread, Zenon DEF ThreadLocs
    <3> QED BY <1>3, <2>2, <3>1, StatusStill, Zenon DEF InThread
  <2> QED BY <2>1, <2>2, Zenon DEF Kept, Channels, ChanUsed
<1> QED BY <1>1, <1>2, <1>3, Zenon DEF Channels

\* A thread that may wait for a channel still may, unless it has just become
\* the owner of a mutex.
LEMMA MayWaitStill ==
  ASSUME LockInv, NEW c \in Cpus, CpuStep(c), NEW t \in Threads, NEW ch, MayWait(t, ch),
         ~(running[c] = t /\ pc[c] \in {"user", "relock"} /\ pc'[c] = "user")
  PROVE  (ch \in Mutexes => owner'[ch] # t) /\ (ch \in Threads => ch = t)
<1> SUFFICES ASSUME ch \in Mutexes PROVE owner'[ch] # t
  BY Zenon DEF MayWait
<1>1. t # None /\ owner[ch] # t
  BY NoneAssumption, Zenon DEF MayWait
<1> QED BY <1>1, OwnerStep, Zenon

LEMMA WaitsStep ==
  ASSUME LockInv, PlaceInv, Channels, Waits, NEW c \in Cpus, CpuStep(c)
  PROVE  Waits'
<1> /\ pc \in [Cpus -> Locations] /\ chan \in [Cpus -> Chans \cup {None}]
    /\ running \in [Cpus -> Threads \cup {None}]
    /\ status \in [Threads -> Statuses] /\ ctx \in [Threads -> [pc : ResumePoints, chan : Chans \cup {None}]]
    /\ wchan \in [Threads -> Chans \cup {None}]
  BY Zenon DEF LockInv, TypeOK, CpuTypes, ThreadTypes
<1>1. ASSUME pc'[c] \in SleepLocs PROVE MayWait(running[c], chan[c])'
  <2>1. CASE SleepEnter(c) \/ RelockSleep(c) \/ SleepTd(c) \/ SleepReturn(c)
    <3>1. /\ running'[c] = running[c] /\ chan'[c] = chan[c] /\ owner' = owner /\ pc[c] \in SleepLocs
      BY <2>1, Zenon DEF SleepEnter, RelockSleep, SleepTd, SleepReturn, SleepLocs
    <3> QED BY <3>1, Zenon DEF Waits, MayWait
  <2>2. CASE \E m \in Mutexes : MtxBlock(c, m)
    BY <2>2, ChanAssumption, Zenon DEF MtxBlock, MayWait
  <2>3. CASE NanoSleep(c)
    <3>1. running[c] \in Threads
      BY <2>3, RunningThread, Zenon DEF NanoSleep, ThreadLocs
    <3> QED BY <2>3, <3>1, ChanAssumption, Zenon DEF NanoSleep, MayWait
  <2>4. CASE Pick(c)
    <3>1. Head(runq) \in Threads /\ ~OnCpu(Head(runq))
      BY <2>4, PickedThread, InTail, Zenon DEF Pick, PlaceInv, InRunq, LockInv, TypeOK, QueueTypes
    <3>2. MayWait(Head(runq), ctx[Head(runq)].chan)
      BY <3>1, Zenon DEF Waits, OnCpu, On
    <3>3. owner' = owner /\ running'[c] = Head(runq) /\ chan'[c] = ctx[Head(runq)].chan
      BY <2>4, Zenon DEF Pick
    <3> QED BY <3>2, <3>3, Zenon DEF MayWait
  <2>5. CASE Yield(c) \/ ExitFree(c)
    <3>1. chan'[c] = None
      BY <2>5, Zenon DEF Yield, ExitFree, Channels, ChanUsed, ChanLocs
    <3> QED BY <3>1, NoneAssumption, Zenon DEF MayWait
  <2>6. pc'[c] \in {"sl_enter", "sl_td"} \/ pc'[c] \in {"slept", "relock"} \/ pc'[c] = "schedule"
    BY <1>1, Zenon DEF SleepLocs
  <2> QED BY <2>1, <2>2, <2>3, <2>4, <2>5, <2>6, PathStep, Zenon
<1>2. ASSUME NEW d \in Cpus, d # c, pc'[d] \in SleepLocs PROVE MayWait(running[d], chan[d])'
  <2>1. Kept(d)
    BY <1>2, OthersStill, Zenon
  <2>2. pc[d] \in SleepLocs /\ running'[d] = running[d] /\ chan'[d] = chan[d]
    BY <1>2, <2>1, Zenon DEF Kept
  <2>3. running[d] \in Threads
    BY <2>2, RunningThread, Zenon DEF SleepLocs, ThreadLocs
  <2>4. running[c] # running[d]
    BY <1>2, <2>3, Zenon DEF PlaceInv, Alone, On
  <2>5. MayWait(running[d], chan[d])
    BY <2>2, Zenon DEF Waits
  <2>6. (chan[d] \in Mutexes => owner'[chan[d]] # running[d]) /\ (chan[d] \in Threads => chan[d] = running[d])
    BY <2>3, <2>4, <2>5, MayWaitStill, Zenon
  <2> QED BY <2>2, <2>6, Zenon DEF MayWait
<1>3. ASSUME NEW t \in Threads, \A d \in Cpus : running'[d] # t PROVE MayWait(t, ctx[t].chan)'
  <2>1. CASE Schedule(c) /\ t = running[c]
    <3>1. ctx'[t].chan = chan[c] /\ owner' = owner /\ pc[c] \in SleepLocs
      BY <2>1, Zenon DEF Schedule, SleepLocs
    <3> QED BY <2>1, <3>1, Zenon DEF Waits, MayWait
  <2>2. CASE TdAllocTd(c) /\ t = Head(freeq)
    <3>1. ctx'[t].chan = None
      BY <2>2, Zenon DEF TdAllocTd
    <3> QED BY <3>1, NoneAssumption, ZenonT(60) DEF MayWait
  <2>3. CASE ~(Schedule(c) /\ t = running[c]) /\ ~(TdAllocTd(c) /\ t = Head(freeq))
    <3>1. ctx'[t] = ctx[t] /\ running[c] # t
      <4>1. CASE Schedule(c)
        BY <2>3, <4>1, Zenon DEF Schedule
      <4>2. CASE TdAllocTd(c)
        BY <1>3, <2>3, <4>2, Zenon DEF TdAllocTd
      <4>3. CASE Pick(c)
        <5>1. running[c] = None
          BY <4>3, Zenon DEF Pick, LockInv, CpuInv, LocalsSet
        <5> QED BY <4>3, <5>1, NoneAssumption, Zenon DEF Pick
      <4>4. CASE UNCHANGED <<ctx, running>>
        BY <1>3, <4>4, Zenon
      <4> QED
        BY <4>1, <4>2, <4>3, <4>4, Zenon
           DEF CpuStep, MtxLockSleep, MtxUnlockSleep, Yield, SrEnter, SrHalt, SrIdle, IdleLeave,
               Resume, SleepEnter, SleepTd, SleepReturn, RelockClaim, RelockSleep, RelockTimed,
               WakeEnter, WakeSkip, WakeTake, WakeDoneMutex, WakeDoneTimed, NanoSleep, TimerInt,
               TcExpire, TcDone, TdAllocFail, TdAlloc, ForkRunq, Exit, ExitFree, MtxReenter,
               MtxClaim, MtxBlock, MtxReleave, MtxRelease, WakeDone
    <3>2. \A d \in Cpus : running[d] # t
      BY <1>3, <3>1, OthersStill, Zenon DEF Kept
    <3>3. MayWait(t, ctx[t].chan)
      BY <3>2, Zenon DEF Waits
    <3>4. LET ch == ctx[t].chan IN (ch \in Mutexes => owner'[ch] # t) /\ (ch \in Threads => ch = t)
      BY <3>1, <3>3, MayWaitStill, Zenon
    <3> QED BY <3>1, <3>4, Zenon DEF MayWait
  <2> QED BY <2>1, <2>2, <2>3, Zenon
<1>4. ASSUME NEW t \in Threads, status'[t] = "SLEEPING" PROVE MayWait(t, wchan[t])'
  <2>1. CASE SleepTd(c) /\ t = running[c]
    <3>1. wchan'[t] = chan[c] /\ owner' = owner /\ pc[c] \in SleepLocs
      BY <2>1, Zenon DEF SleepTd, SleepLocs
    <3> QED BY <2>1, <3>1, Zenon DEF Waits, MayWait
  <2>2. CASE status[t] = "SLEEPING" /\ wchan'[t] = wchan[t]
    <3>1. ~(running[c] = t /\ pc[c] \in {"user", "relock"})
      BY <2>2, Zenon DEF PlaceInv, Runs
    <3>2. MayWait(t, wchan[t])
      BY <2>2, Zenon DEF Waits
    <3>4. LET ch == wchan[t] IN (ch \in Mutexes => owner'[ch] # t) /\ (ch \in Threads => ch = t)
      BY <3>1, <3>2, MayWaitStill, Zenon
    <3> QED BY <2>2, <3>4, Zenon DEF MayWait
  <2> QED BY <1>4, <2>1, <2>2, SleeperStep, Zenon
<1>5. ASSUME NEW d \in Cpus, pc'[d] \in SleepLocs PROVE MayWait(running[d], chan[d])'
  BY <1>1, <1>2, <1>5, Zenon
<1> QED BY <1>3, <1>4, <1>5, Zenon DEF Waits

-----------------------------------------------------------------------------
\* A thread whose CPU is elsewhere in the kernel or in user mode has no event.
LEMMA NoEvent ==
  ASSUME PlaceInv, Events, NEW t \in Threads, status[t] # "SLEEPING",
         \A c \in Cpus : running[c] = t => pc[c] \notin {"sl_enter", "sl_td"}
  PROVE  ~InSeq(t, tseq)
  BY Zenon DEF Events, InTimed

\* The lock of the event queue: nobody else wakes a thread or queues an event.
LEMMA TimedLock ==
  ASSUME LockInv, NEW c \in Cpus, pc[c] \in {"sl_enter", "wk_enter", "wk_scan"}, chan[c] \in Threads
  PROVE  qlock["tseq"] = c
  BY Zenon DEF LockInv, LockDiscipline, QueueLocks, InCritical, Queues

\* A thread with an event that stays queued remains in, or entering, its timed sleep.
LEMMA InTimedStill ==
  ASSUME LockInv, PlaceInv, Events, NEW c \in Cpus, CpuStep(c), NEW t \in Threads, InSeq(t, tseq)
  PROVE  InTimed(t)'
<1> /\ pc \in [Cpus -> Locations] /\ chan \in [Cpus -> Chans \cup {None}]
    /\ running \in [Cpus -> Threads \cup {None}]
    /\ status \in [Threads -> Statuses] /\ wchan \in [Threads -> Chans \cup {None}]
  BY Zenon DEF LockInv, TypeOK, CpuTypes, ThreadTypes
<1>1. CASE status[t] = "SLEEPING" /\ wchan[t] = t
  <2>1. ~(WakeTake(c) /\ t = sleepq[pos[c]])
    BY <1>1, Zenon DEF WakeTake, Events
  <2> QED BY <1>1, <2>1, SleeperStays, Zenon DEF InTimed
<1>2. ASSUME NEW d \in Cpus, running[d] = t, chan[d] = t, pc[d] \in {"sl_enter", "sl_td"} PROVE InTimed(t)'
  <2>1. CASE d # c
    <3>1. Kept(d)
      BY <2>1, OthersStill, Zenon
    <3> QED BY <1>2, <3>1, Zenon DEF Kept, InTimed
  <2>2. CASE d = c
    <3>1. CASE SleepEnter(c)
      BY <1>2, <2>2, <3>1, Zenon DEF SleepEnter, InTimed
    <3>2. CASE SleepTd(c)
      BY <1>2, <2>2, <3>2, Zenon DEF SleepTd, InTimed
    <3> QED
      BY <1>2, <2>2, <3>1, <3>2, Zenon
         DEF CpuStep, MtxLockSleep, MtxUnlockSleep, Yield, Schedule, SrEnter, SrHalt, SrIdle,
             IdleLeave, Pick, Resume, SleepReturn, RelockClaim, RelockSleep, RelockTimed,
             WakeEnter, WakeSkip, WakeTake, WakeDoneMutex, WakeDoneTimed, NanoSleep, TimerInt,
             TcExpire, TcDone, TdAllocFail, TdAlloc, TdAllocTd, ForkRunq, Exit, ExitFree,
             MtxReenter, MtxClaim, MtxBlock, MtxReleave, MtxRelease, WakeDone
  <2> QED BY <2>1, <2>2, Zenon
<1> QED BY <1>1, <1>2, Zenon DEF Events, InTimed

LEMMA EventsStep ==
  ASSUME LockInv, PlaceInv, Events, NEW c \in Cpus, CpuStep(c)
  PROVE  Events'
<1> /\ pc \in [Cpus -> Locations] /\ chan \in [Cpus -> Chans \cup {None}]
    /\ running \in [Cpus -> Threads \cup {None}] /\ tseq \in Seq(Threads)
  BY Zenon DEF LockInv, TypeOK, CpuTypes, QueueTypes
<1>0. \A t \in Threads : InSeq(t, tseq) => InTimed(t)'
  BY InTimedStill, Zenon
<1>1. CASE NanoSleep(c)
  <2>1. running[c] \in Threads /\ pc[c] = "user"
    BY <1>1, RunningThread, Zenon DEF NanoSleep, ThreadLocs
  <2>2. ~InSeq(running[c], tseq)
    <3>1. status[running[c]] = "RUNNING"
      BY <2>1, Zenon DEF PlaceInv, Runs
    <3>2. \A d \in Cpus : running[d] = running[c] => pc[d] \notin {"sl_enter", "sl_td"}
      BY <2>1, Zenon DEF PlaceInv, Alone, On
    <3> QED BY <2>1, <3>1, <3>2, NoEvent, Zenon
  <2>3. PICK i \in 1..Len(tseq) + 1 : tseq' = LinkAt(tseq, i, running[c])
    BY <1>1, Zenon DEF NanoSleep
  <2>4. /\ \A t : InSeq(t, LinkAt(tseq, i, running[c])) <=> InSeq(t, tseq) \/ t = running[c]
        /\ NoDup(LinkAt(tseq, i, running[c]))
    BY <2>1, <2>2, InLink, Zenon DEF Events
  <2>5. ASSUME NEW t \in Threads, t = running[c] PROVE InTimed(t)'
    BY <1>1, <2>1, <2>5, Zenon DEF NanoSleep, InTimed
  <2>6. ASSUME NEW d \in Cpus, pc'[d] \in {"wk_enter", "wk_scan"}, chan'[d] \in Threads PROVE FALSE
    <3>1. d # c
      BY <1>1, <2>6, Zenon DEF NanoSleep
    <3>2. Kept(d)
      BY <3>1, OthersStill, Zenon
    <3>3. qlock["tseq"] = d
      BY <2>6, <3>2, TimedLock, Zenon DEF Kept
    <3> QED BY <1>1, <3>3, NoneAssumption, Zenon DEF NanoSleep
  <2>7. NoDup(tseq') /\ \A t \in Threads : InSeq(t, tseq') => InTimed(t)'
    BY <1>0, <2>3, <2>4, <2>5, Zenon
  <2> QED BY <2>6, <2>7, Zenon DEF Events
<1>2. CASE TcExpire(c)
  <2>1. /\ NoDup(Tail(tseq)) /\ Head(tseq) \in Threads
        /\ \A t : InSeq(t, Tail(tseq)) <=> InSeq(t, tseq) /\ t # Head(tseq)
    BY <1>2, InTail, ExpiredThread, Zenon DEF TcExpire, Events
  <2>2. tseq' = Tail(tseq) /\ chan'[c] = Head(tseq)
    BY <1>2, Zenon DEF TcExpire
  <2>3. ASSUME NEW d \in Cpus, pc'[d] \in {"wk_enter", "wk_scan"}, chan'[d] \in Threads
        PROVE  ~InSeq(chan'[d], Tail(tseq))
    <3>1. CASE d = c
      BY <2>1, <2>2, <3>1, Zenon
    <3>2. CASE d # c
      <4>1. Kept(d)
        BY <3>2, OthersStill, Zenon
      <4> QED BY <2>1, <2>3, <4>1, Zenon DEF Kept, Events
    <3> QED BY <3>1, <3>2, Zenon
  <2> QED BY <1>0, <2>1, <2>2, <2>3, Zenon DEF Events
<1>3. CASE tseq' = tseq /\ ~TcExpire(c)
  <2>1. ASSUME NEW d \in Cpus, pc'[d] \in {"wk_enter", "wk_scan"}, chan'[d] \in Threads
        PROVE  ~InSeq(chan'[d], tseq)
    <3>1. CASE d = c
      <4>1. CASE WakeEnter(c) \/ WakeSkip(c) \/ WakeTake(c)
        <5>1. chan'[c] = chan[c] /\ pc[c] \in {"wk_enter", "wk_scan"}
          BY <4>1, Zenon DEF WakeEnter, WakeSkip, WakeTake
        <5> QED BY <2>1, <3>1, <5>1, Zenon DEF Events
      <4>2. CASE \E m \in Mutexes : MtxRelease(c, m)
        BY <2>1, <3>1, <4>2, ChanAssumption, Zenon DEF MtxRelease
      <4> QED BY <1>3, <2>1, <3>1, <4>1, <4>2, PathStep, Zenon
    <3>2. CASE d # c
      <4>1. Kept(d)
        BY <3>2, OthersStill, Zenon
      <4> QED BY <2>1, <4>1, Zenon DEF Kept, Events
    <3> QED BY <3>1, <3>2, Zenon
  <2>2. NoDup(tseq)
    BY Zenon DEF Events
  <2> QED BY <1>0, <1>3, <2>1, <2>2, Zenon DEF Events
<1> QED BY <1>1, <1>2, <1>3, QueueStep, Zenon

LEMMA ScannedStep ==
  ASSUME LockInv, PlaceInv, Scanned, NEW c \in Cpus, CpuStep(c)
  PROVE  Scanned'
<1> /\ pc \in [Cpus -> Locations] /\ pos \in [Cpus -> Nat \ {0}] /\ sleepq \in Seq(Threads)
  BY Zenon DEF LockInv, TypeOK, CpuTypes, QueueTypes
<1>1. ASSUME NEW d \in Cpus, d # c, pc'[d] = "wk_scan", NEW i \in 1..Len(sleepq'), i < pos'[d]
      PROVE  wchan'[sleepq'[i]] # chan'[d]
  <2>1. Kept(d)
    BY <1>1, OthersStill, Zenon
  <2>2. pc[c] \notin {"sl_td", "wk_scan"}
    BY <1>1, <2>1 DEF Kept, LockInv, LockDiscipline, QueueLocks, InCritical, Queues
  <2>3. sleepq' = sleepq
    BY <2>2, QueueStep, Zenon DEF SleepTd, WakeTake
  <2>4. sleepq[i] \in Threads /\ InSeq(sleepq[i], sleepq) /\ i \in 1..Len(sleepq)
    BY <1>1, <2>3 DEF InSeq
  <2>5. status[sleepq[i]] = "SLEEPING"
    BY <2>4, Zenon DEF PlaceInv, InSleepq
  <2>6. PlaceInv'
    BY PlaceStep, Zenon DEF Next
  <2>7. status'[sleepq[i]] = "SLEEPING"
    BY <2>3, <2>4, <2>6, Zenon DEF PlaceInv, InSleepq
  <2>8. wchan'[sleepq[i]] = wchan[sleepq[i]]
    BY <2>2, <2>4, <2>7, SleeperStep, Zenon DEF SleepTd
  <2> QED BY <1>1, <2>1, <2>3, <2>4, <2>8, Zenon DEF Kept, Scanned
<1>2. ASSUME pc'[c] = "wk_scan", NEW i \in 1..Len(sleepq'), i < pos'[c]
      PROVE  wchan'[sleepq'[i]] # chan'[c]
  <2>1. CASE WakeEnter(c)
    <3>1. pos'[c] = 1
      BY <2>1, Zenon DEF WakeEnter
    <3> QED BY <1>2, <3>1
  <2>2. CASE WakeSkip(c)
    <3>1. /\ pos'[c] = pos[c] + 1 /\ sleepq' = sleepq /\ wchan' = wchan /\ chan' = chan /\ pc[c] = "wk_scan"
          /\ wchan[sleepq[pos[c]]] # chan[c]
      BY <2>2, Zenon DEF WakeSkip
    <3>2. i = pos[c] \/ i < pos[c]
      BY <1>2, <3>1
    <3> QED BY <1>2, <3>1, <3>2, Zenon DEF Scanned
  <2>3. CASE WakeTake(c)
    <3>1. /\ pos'[c] = pos[c] /\ sleepq' = Unlink(sleepq, pos[c]) /\ wchan' = wchan /\ chan' = chan
          /\ pc[c] = "wk_scan" /\ pos[c] <= Len(sleepq)
      BY <2>3, Zenon DEF WakeTake
    <3>2. \A j \in 1..Len(Unlink(sleepq, pos[c])) : j < pos[c] => j \in 1..Len(sleepq) /\ Unlink(sleepq, pos[c])[j] = sleepq[j]
      BY <3>1, InUnlink DEF PlaceInv, InSleepq
    <3>3. i \in 1..Len(sleepq) /\ sleepq'[i] = sleepq[i] /\ i < pos[c]
      BY <1>2, <3>1, <3>2, Zenon
    <3> QED BY <3>1, <3>3, Zenon DEF Scanned
  <2>4. CASE TcExpire(c) \/ \E m \in Mutexes : MtxRelease(c, m)
    BY <1>2, <2>4, Zenon DEF TcExpire, MtxRelease
  <2> QED BY <1>2, <2>1, <2>2, <2>3, <2>4, PathStep, Zenon
<1> QED BY <1>1, <1>2, Zenon DEF Scanned

LEMMA ReleasedStep ==
  ASSUME LockInv, Released, NEW c \in Cpus, CpuStep(c)
  PROVE  Released'
<1> /\ pc \in [Cpus -> Locations] /\ chan \in [Cpus -> Chans \cup {None}]
    /\ owner \in [Mutexes -> Threads \cup {None}]
  BY Zenon DEF LockInv, TypeOK, CpuTypes, MutexTypes
<1>1. ASSUME pc'[c] \in {"wk_enter", "wk_scan"}, chan'[c] \in Mutexes PROVE owner'[chan'[c]] = None
  <2>1. CASE WakeEnter(c) \/ WakeSkip(c) \/ WakeTake(c)
    <3>1. chan'[c] = chan[c] /\ pc[c] \in {"wk_enter", "wk_scan"} /\ owner' = owner
      BY <2>1, Zenon DEF WakeEnter, WakeSkip, WakeTake
    <3> QED BY <1>1, <3>1, Zenon DEF Released
  <2>2. CASE TcExpire(c)
    BY <1>1, <2>2, ExpiredThread, ChanAssumption, Zenon DEF TcExpire
  <2>3. CASE \E m \in Mutexes : MtxRelease(c, m)
    BY <1>1, <2>3, Zenon DEF MtxRelease
  <2> QED BY <1>1, <2>1, <2>2, <2>3, PathStep, Zenon
<1>2. ASSUME NEW d \in Cpus, d # c, pc'[d] \in {"wk_enter", "wk_scan"}, chan'[d] \in Mutexes
      PROVE  owner'[chan'[d]] = None
  <2>1. pc'[d] = pc[d] /\ chan'[d] = chan[d]
    BY <1>2, OthersStill, Zenon DEF Kept
  <2>2. mtxLo[chan[d]] # None
    BY <1>2, <2>1, NoneAssumption, SMTT(60) DEF LockInv, LockDiscipline, MutexLocks, InMutex
  <2>3. owner'[chan[d]] = owner[chan[d]]
    BY <1>2, <2>1, <2>2, OwnerStep, Zenon
  <2> QED BY <1>2, <2>1, <2>3, Zenon DEF Released
<1> QED BY <1>1, <1>2, Zenon DEF Released

-----------------------------------------------------------------------------
\* A wakeup() that waits for the sleep queue still does while another CPU has it.
LEMMA ExpectedStill ==
  ASSUME LockInv, NEW c \in Cpus, CpuStep(c), NEW d \in Cpus, pc[d] = "sl_td",
         NEW e \in Cpus, pc[e] = "wk_enter"
  PROVE  pc'[e] = "wk_enter" /\ chan'[e] = chan[e]
<1>1. CASE e # c
  BY <1>1, OthersStill, Zenon DEF Kept
<1>2. CASE e = c
  <2>1. qlock["sleepq"] = d
    BY Zenon DEF LockInv, LockDiscipline, QueueLocks, InCritical, Queues
  <2>2. ~WakeEnter(c)
    BY <2>1, NoneAssumption, Zenon DEF WakeEnter
  <2> QED
    BY <1>2, <2>2, Zenon
       DEF CpuStep, MtxLockSleep, MtxUnlockSleep, Yield, Schedule, SrEnter, SrHalt, SrIdle,
           IdleLeave, Pick, Resume, SleepEnter, SleepTd, SleepReturn, RelockClaim, RelockSleep,
           RelockTimed, WakeSkip, WakeTake, WakeDoneMutex, WakeDoneTimed, NanoSleep, TimerInt,
           TcExpire, TcDone, TdAllocFail, TdAlloc, TdAllocTd, ForkRunq, Exit, ExitFree,
           MtxReenter, MtxClaim, MtxBlock, MtxReleave, MtxRelease, WakeDone
<1> QED BY <1>1, <1>2, Zenon

\* An event enters the queue of a running thread and leaves it when it expires.
LEMMA EventEnters ==
  ASSUME LockInv, PlaceInv, Events, NEW c \in Cpus, NanoSleep(c)
  PROVE  \A t : InSeq(t, tseq') <=> InSeq(t, tseq) \/ t = running[c]
<1> tseq \in Seq(Threads)
  BY Zenon DEF LockInv, TypeOK, QueueTypes
<1>1. PICK i \in 1..Len(tseq) + 1 : tseq' = LinkAt(tseq, i, running[c])
  BY Zenon DEF NanoSleep
<1>2. running[c] \in Threads /\ pc[c] = "user"
  BY RunningThread, Zenon DEF NanoSleep, ThreadLocs
<1>3. ~InSeq(running[c], tseq)
  <2>1. status[running[c]] = "RUNNING"
    BY <1>2, Zenon DEF PlaceInv, Runs
  <2>2. \A d \in Cpus : running[d] = running[c] => pc[d] \notin {"sl_enter", "sl_td"}
    BY <1>2, Zenon DEF PlaceInv, Alone, On
  <2> QED BY <1>2, <2>1, <2>2, NoEvent, Zenon
<1>4. \A t : InSeq(t, LinkAt(tseq, i, running[c])) <=> InSeq(t, tseq) \/ t = running[c]
  BY <1>2, <1>3, InLink, Zenon DEF Events
<1> QED BY <1>1, <1>4, Zenon

LEMMA EventLeaves ==
  ASSUME LockInv, PlaceInv, Events, NEW c \in Cpus, CpuStep(c), NEW t, InSeq(t, tseq), ~InSeq(t, tseq')
  PROVE  TcExpire(c) /\ Head(tseq) = t
<1> tseq \in Seq(Threads)
  BY Zenon DEF LockInv, TypeOK, QueueTypes
<1>1. TcExpire(c)
  BY EventEnters, QueueStep, Zenon
<1>2. \A x : InSeq(x, Tail(tseq)) <=> InSeq(x, tseq) /\ x # Head(tseq)
  BY <1>1, InTail, Zenon DEF TcExpire, Events
<1> QED BY <1>1, <1>2, Zenon DEF TcExpire

LEMMA WakersStep ==
  ASSUME LockInv, PlaceInv, Events, Wakers, NEW c \in Cpus, CpuStep(c)
  PROVE  Wakers'
<1> /\ pc \in [Cpus -> Locations] /\ chan \in [Cpus -> Chans \cup {None}]
    /\ running \in [Cpus -> Threads \cup {None}] /\ tseq \in Seq(Threads)
    /\ owner \in [Mutexes -> Threads \cup {None}]
  BY Zenon DEF LockInv, TypeOK, CpuTypes, QueueTypes, MutexTypes
<1>1. ASSUME pc'[c] \in {"sl_enter", "sl_td"} PROVE Awaited(c)'
  <2>1. CASE SleepEnter(c)
    <3>1. chan' = chan /\ owner' = owner /\ tseq' = tseq /\ pc[c] = "sl_enter"
      BY <2>1, Zenon DEF SleepEnter
    <3> QED BY <3>1, Zenon DEF Wakers, Awaited
  <2>2. CASE RelockSleep(c)
    BY <2>2, ChanAssumption, Zenon DEF RelockSleep, Awaited
  <2>3. ASSUME NEW m \in Mutexes, MtxBlock(c, m) PROVE Awaited(c)'
    <3>1. chan'[c] = m /\ owner'[m] # None /\ m \notin Threads
      BY <2>3, ChanAssumption, Zenon DEF MtxBlock
    <3> QED BY <3>1, Zenon DEF Awaited
  <2>4. CASE NanoSleep(c)
    <3>1. running[c] \in Threads /\ running[c] \notin Mutexes /\ chan'[c] = running[c]
      BY <2>4, RunningThread, ChanAssumption, Zenon DEF NanoSleep, ThreadLocs
    <3>2. InSeq(running[c], tseq')
      BY <2>4, EventEnters, Zenon
    <3> QED BY <3>1, <3>2, Zenon DEF Awaited
  <2> QED BY <1>1, <2>1, <2>2, <2>3, <2>4, PathStep, Zenon
<1>2. ASSUME NEW d \in Cpus, d # c, pc'[d] \in {"sl_enter", "sl_td"} PROVE Awaited(d)'
  <2>1. pc'[d] = pc[d] /\ chan'[d] = chan[d] /\ Awaited(d)
    BY <1>2, OthersStill, Zenon DEF Kept, Wakers
  <2>2. ASSUME pc[d] = "sl_td", Expected(chan[d]) PROVE pc'[d] = "sl_td" /\ Expected(chan[d])'
    BY <2>1, <2>2, ExpectedStill, Zenon DEF Expected
  <2>3. ASSUME chan[d] \in Mutexes, owner[chan[d]] # None, owner'[chan[d]] = None
        PROVE  pc[d] = "sl_td" /\ Expected(chan[d])'
    <3>1. MtxRelease(c, chan[d])
      <4>1. owner'[chan[d]] # running[c] \/ pc[c] \notin {"user", "relock"}
        BY <2>3, NoneAssumption, RunningThread, Zenon DEF ThreadLocs
      <4> QED BY <2>3, <4>1, OwnerStep, Zenon
    <3>2. pc[d] # "sl_enter"
      <4>1. mtxLo[chan[d]] = None
        BY <3>1, Zenon DEF MtxRelease
      <4> QED BY <2>3, <4>1, NoneAssumption DEF LockInv, LockDiscipline, MutexLocks, InMutex
    <3>3. pc'[c] = "wk_enter" /\ chan'[c] = chan[d]
      BY <3>1, Zenon DEF MtxRelease
    <3> QED BY <1>2, <2>1, <3>2, <3>3, Zenon DEF Expected
  <2>4. ASSUME chan[d] \in Threads, InSeq(chan[d], tseq), ~InSeq(chan[d], tseq')
        PROVE  pc[d] = "sl_td" /\ Expected(chan[d])'
    <3>1. TcExpire(c) /\ Head(tseq) = chan[d]
      BY <2>4, EventLeaves, Zenon
    <3>2. pc[d] # "sl_enter"
      <4>1. qlock["tseq"] = c
        BY <3>1, Zenon DEF TcExpire, LockInv, LockDiscipline, QueueLocks, InCritical, Queues
      <4> QED BY <1>2, <2>4, <4>1, TimedLock, Zenon
    <3>4. pc'[c] = "wk_enter" /\ chan'[c] = chan[d]
      BY <3>1, Zenon DEF TcExpire
    <3> QED BY <1>2, <2>1, <3>2, <3>4, Zenon DEF Expected
  <2>5. chan[d] \in Mutexes => owner'[chan[d]] # None \/ (pc[d] = "sl_td" /\ Expected(chan[d])')
    BY <2>1, <2>2, <2>3, Zenon DEF Awaited
  <2>6. chan[d] \in Threads => InSeq(chan[d], tseq') \/ (pc[d] = "sl_td" /\ Expected(chan[d])')
    BY <2>1, <2>2, <2>4, Zenon DEF Awaited
  <2> QED BY <2>1, <2>5, <2>6, Zenon DEF Awaited
<1> QED BY <1>1, <1>2, Zenon DEF Wakers

\* A wakeup() ends only when its channel has no sleeper.
LEMMA WakingStill ==
  ASSUME LockInv, PlaceInv, Scanned, NEW c \in Cpus, CpuStep(c), NEW d \in Cpus, NEW ch,
         Waking(d, ch), NEW t \in Threads, status[t] = "SLEEPING", wchan[t] = ch
  PROVE  pc'[d] \in {"wk_enter", "wk_scan"} /\ chan'[d] = ch
<1> /\ pc \in [Cpus -> Locations] /\ chan \in [Cpus -> Chans \cup {None}]
    /\ pos \in [Cpus -> Nat \ {0}] /\ sleepq \in Seq(Threads)
  BY Zenon DEF LockInv, TypeOK, CpuTypes, QueueTypes
<1>1. CASE d # c
  BY <1>1, OthersStill, Zenon DEF Kept, Waking
<1>2. CASE d = c
  <2>1. ~WakeDone(c)
    <3>1. PICK i \in 1..Len(sleepq) : sleepq[i] = t
      BY Zenon DEF PlaceInv, InSleepq, InSeq
    <3>2. pc[c] = "wk_scan" => ~(i < pos[c])
      BY <1>2, <3>1, Zenon DEF Scanned, Waking
    <3>3. pos[c] > Len(sleepq) => i < pos[c]
      <4>1. pos[c] \in Nat /\ Len(sleepq) \in Nat
        OBVIOUS
      <4> QED BY <4>1, SMTT(60)
    <3> QED BY <3>2, <3>3, Zenon DEF WakeDone
  <2>2. CASE WakeEnter(c) \/ WakeSkip(c) \/ WakeTake(c)
    BY <1>2, <2>2, Zenon DEF Waking, WakeEnter, WakeSkip, WakeTake
  <2> QED
    BY <1>2, <2>1, <2>2, Zenon
       DEF CpuStep, MtxLockSleep, MtxUnlockSleep, Yield, Schedule, SrEnter, SrHalt, SrIdle,
           IdleLeave, Pick, Resume, SleepEnter, SleepTd, SleepReturn, RelockClaim, RelockSleep,
           RelockTimed, WakeDoneMutex, WakeDoneTimed, NanoSleep, TimerInt, TcExpire, TcDone,
           TdAllocFail, TdAlloc, TdAllocTd, ForkRunq, Exit, ExitFree, MtxReenter, MtxClaim,
           MtxBlock, MtxReleave, MtxRelease, Waking
<1> QED BY <1>1, <1>2, Zenon

LEMMA LostStep ==
  ASSUME LockInv, PlaceInv, Waits, Waits', Events, Scanned, Wakers, NoLostWakeup, NEW c \in Cpus, CpuStep(c)
  PROVE  NoLostWakeup'
<1> /\ pc \in [Cpus -> Locations] /\ chan \in [Cpus -> Chans \cup {None}]
    /\ running \in [Cpus -> Threads \cup {None}] /\ tseq \in Seq(Threads)
    /\ owner \in [Mutexes -> Threads \cup {None}] /\ wchan \in [Threads -> Chans \cup {None}]
  BY Zenon DEF LockInv, TypeOK, CpuTypes, QueueTypes, MutexTypes, ThreadTypes
<1> SUFFICES ASSUME NEW t \in Threads, status'[t] = "SLEEPING"
             PROVE  /\ wchan'[t] \in Mutexes =>
                          owner'[wchan'[t]] \notin {None, t} \/ \E d \in Cpus : Waking(d, wchan[t])'
                    /\ wchan'[t] \in Threads =>
                          InSeq(t, tseq') \/ \E d \in Cpus : Waking(d, wchan[t])'
  BY Zenon DEF NoLostWakeup
<1>0. /\ wchan'[t] \in Mutexes => owner'[wchan'[t]] # t
      /\ wchan'[t] \in Threads => wchan'[t] = t
  BY Zenon DEF Waits, MayWait
<1>1. CASE SleepTd(c) /\ t = running[c]
  <2>1. /\ wchan'[t] = chan[c] /\ owner' = owner /\ tseq' = tseq /\ chan' = chan /\ pc[c] = "sl_td"
        /\ pc' = [pc EXCEPT ![c] = "schedule"]
    BY <1>1, Zenon DEF SleepTd
  <2>2. Expected(chan[c]) => \E d \in Cpus : Waking(d, wchan[t])'
    BY <2>1, Zenon DEF Expected, Waking
  <2>3. Awaited(c)
    BY <2>1, Zenon DEF Wakers
  <2> QED BY <1>0, <2>1, <2>2, <2>3, Zenon DEF Awaited
<1>2. CASE status[t] = "SLEEPING" /\ wchan'[t] = wchan[t]
  <2>1. (\E d \in Cpus : Waking(d, wchan[t])) => \E d \in Cpus : Waking(d, wchan[t])'
    BY <1>2, WakingStill, Zenon DEF Waking
  <2>2. ASSUME wchan[t] \in Mutexes, owner[wchan[t]] # None, owner'[wchan[t]] = None
        PROVE  \E d \in Cpus : Waking(d, wchan[t])'
    <3>1. MtxRelease(c, wchan[t])
      <4>1. owner'[wchan[t]] # running[c] \/ pc[c] \notin {"user", "relock"}
        BY <2>2, NoneAssumption, RunningThread, Zenon DEF ThreadLocs
      <4> QED BY <2>2, <4>1, OwnerStep, Zenon
    <3>2. pc'[c] = "wk_enter" /\ chan'[c] = wchan'[t]
      BY <1>2, <3>1, Zenon DEF MtxRelease
    <3> QED BY <3>2, Zenon DEF Waking
  <2>3. ASSUME wchan[t] = t, InSeq(t, tseq), ~InSeq(t, tseq') PROVE \E d \in Cpus : Waking(d, wchan[t])'
    <3>1. TcExpire(c) /\ Head(tseq) = t
      BY <2>3, EventLeaves, Zenon
    <3>2. pc'[c] = "wk_enter" /\ chan'[c] = wchan'[t]
      BY <1>2, <2>3, <3>1, Zenon DEF TcExpire
    <3> QED BY <3>2, Zenon DEF Waking
  <2> QED BY <1>0, <1>2, <2>1, <2>2, <2>3, Zenon DEF NoLostWakeup
<1> QED BY <1>1, <1>2, SleeperStep, Zenon

-----------------------------------------------------------------------------
(***************************************************************************)
(* Theorems                                                                *)
(***************************************************************************)
LEMMA WaitInit == Init => WaitInv
<1> SUFFICES ASSUME Init PROVE WaitInv
  BY Zenon
<1> USE NoneAssumption DEF Init
<1>1. Channels /\ Waits
  BY Zenon DEF Channels, ChanUsed, Waits, MayWait, SleepLocs
<1>2. Events
  BY InEmpty, Zenon DEF Events
<1>3. Scanned /\ Released /\ Wakers
  BY Zenon DEF Scanned, Released, Wakers
<1>4. NoLostWakeup
  BY Zenon DEF NoLostWakeup
<1> QED BY <1>1, <1>2, <1>3, <1>4, Zenon DEF WaitInv

LEMMA WaitStep == LockInv /\ PlaceInv /\ WaitInv /\ [Next]_vars => WaitInv'
<1> SUFFICES ASSUME LockInv, PlaceInv, WaitInv, [Next]_vars PROVE WaitInv'
  BY Zenon
<1>1. ASSUME NEW c \in Cpus, CpuStep(c) PROVE WaitInv'
  <2>1. Channels' /\ Waits'
    BY <1>1, ChannelsStep, WaitsStep, Zenon DEF WaitInv
  <2>2. Events' /\ Scanned' /\ Released' /\ Wakers'
    BY <1>1, EventsStep, ScannedStep, ReleasedStep, WakersStep, Zenon DEF WaitInv
  <2>3. NoLostWakeup'
    BY <1>1, <2>1, LostStep, Zenon DEF WaitInv
  <2> QED BY <2>1, <2>2, <2>3, Zenon DEF WaitInv
<1>2. CASE UNCHANGED vars
  <2>1. /\ pc' = pc /\ running' = running /\ chan' = chan /\ pos' = pos /\ status' = status
        /\ wchan' = wchan /\ ctx' = ctx /\ owner' = owner /\ sleepq' = sleepq /\ tseq' = tseq
    BY <1>2, Zenon DEF vars
  <2>2. Channels' /\ Waits'
    BY <2>1, Zenon DEF WaitInv, Channels, ChanUsed, Waits, MayWait
  <2>3. Events' /\ Scanned' /\ Released'
    BY <2>1, Zenon DEF WaitInv, Events, InTimed, Scanned, Released
  <2>4. Wakers'
    BY <2>1, Zenon DEF WaitInv, Wakers, Awaited, Expected
  <2>5. NoLostWakeup'
    BY <2>1, Zenon DEF WaitInv, NoLostWakeup, Waking
  <2> QED BY <2>2, <2>3, <2>4, <2>5, Zenon DEF WaitInv
<1> QED
  BY <1>1, <1>2, Zenon DEF Next, Stopped

LEMMA WaitAlways == Spec => [](LockInv /\ PlaceInv /\ WaitInv)
  BY PlaceAlways, WaitInit, WaitStep, PTL DEF Spec

\* For any number of CPUs, threads and mutexes, sleep() and wakeup() lose no
\* wakeup: a sleeping thread always has an owner, a queued timeout or a
\* wakeup() that will reach it.
THEOREM WakeupsKept == Spec => []NoLostWakeup
  BY WaitAlways, PTL DEF WaitInv

\* No thread is ever linked twice or in two of the queues, the sleep queue
\* holds exactly the SLEEPING threads, and no timeout event is queued twice.
THEOREM QueuesSafe == Spec => []QueuesExact
<1>1. LockInv /\ PlaceInv /\ WaitInv => QueuesExact
  BY Zenon DEF PlaceInv, WaitInv, QueuesExact, InRunq, InReady, InSleepq, InFreeq, Events
<1> QED
  BY <1>1, WaitAlways, PTL

\* The assertion of tse_free() holds: when a timed sleep returns its event has
\* been taken out of the queue.
THEOREM EventsUnlinked == Spec => []EventUnlinked
<1>1. LockInv /\ PlaceInv /\ WaitInv => EventUnlinked
  <2> SUFFICES ASSUME LockInv, PlaceInv, WaitInv, NEW c \in Cpus, pc[c] = "relock"
               PROVE  ~InSeq(running[c], tseq)
    BY Zenon DEF EventUnlinked
  <2>1. running[c] \in Threads
    BY RunningThread, Zenon DEF ThreadLocs
  <2>2. status[running[c]] = "RUNNING"
    BY <2>1, Zenon DEF PlaceInv, Runs
  <2>3. \A d \in Cpus : running[d] = running[c] => pc[d] \notin {"sl_enter", "sl_td"}
    BY <2>1, Zenon DEF PlaceInv, Alone, On
  <2> QED BY <2>1, <2>2, <2>3, NoEvent, Zenon DEF WaitInv
<1> QED
  BY <1>1, WaitAlways, PTL

-----------------------------------------------------------------------------
(***************************************************************************)
(* Refinement: the thread layer implements Monitor.  A step of a CPU is    *)
(* seen by the users of the monitor only where it claims a mutex, or where *)
(* sleep() or wakeup() locks the sleep queue.                              *)
(***************************************************************************)
Releasing(c, m) == pc[c] = "wk_enter" /\ chan[c] = m
Entering(t, ch) == \E c \in Cpus : pc[c] = "sl_td" /\ running[c] = t /\ chan[c] = ch

\* What the refinement mapping says, without CHOOSE and without the queue.
OwnerBarExact ==
    \A m \in Mutexes :
        /\ \A c \in Cpus : Releasing(c, m) => ownerBar[m] = running[c]
        /\ (\A c \in Cpus : ~Releasing(c, m)) => ownerBar[m] = owner[m]
BlockedExact ==
    \A t \in Threads, ch \in Chans :
        BlockedOn(t, ch) <=> (status[t] = "SLEEPING" /\ wchan[t] = ch) \/ Entering(t, ch)

LEMMA OwnerBarIs == LockInv => OwnerBarExact
<1> SUFFICES ASSUME LockInv, NEW m \in Mutexes
             PROVE  /\ \A c \in Cpus : Releasing(c, m) => ownerBar[m] = running[c]
                    /\ (\A c \in Cpus : ~Releasing(c, m)) => ownerBar[m] = owner[m]
  BY Zenon DEF OwnerBarExact
<1>1. ASSUME NEW c \in Cpus, Releasing(c, m) PROVE ownerBar[m] = running[c]
  <2>1. PICK d : d = CHOOSE e \in Cpus : pc[e] = "wk_enter" /\ chan[e] = m
    BY Zenon
  <2>2. d \in Cpus /\ pc[d] = "wk_enter" /\ chan[d] = m
    BY <1>1, <2>1, Zenon DEF Releasing
  <2>3. d = c
    <3>1. mtxLo[m] = d
      BY <2>2, Zenon DEF LockInv, LockDiscipline, MutexLocks, InMutex
    <3>2. mtxLo[m] = c
      BY <1>1, Zenon DEF Releasing, LockInv, LockDiscipline, MutexLocks, InMutex
    <3> QED BY <3>1, <3>2, Zenon
  <2> QED BY <1>1, <2>1, <2>3, Zenon DEF ownerBar, Releasing
<1>2. ASSUME \A c \in Cpus : ~Releasing(c, m) PROVE ownerBar[m] = owner[m]
  BY <1>2, Zenon DEF ownerBar, Releasing
<1> QED BY <1>1, <1>2, Zenon

LEMMA BlockedOnIs == PlaceInv => BlockedExact
  BY Zenon DEF PlaceInv, InSleepq, BlockedOn, BlockedExact, Entering

LEMMA OwnerBarWillBe == LockInv' => OwnerBarExact'
  BY OwnerBarIs, PTL

LEMMA BlockedOnWillBe == PlaceInv' => BlockedExact'
  BY BlockedOnIs, PTL

\* The owner of a mutex changes for its users when it is claimed, and when the
\* wakeup() of its release has the sleep queue.
LEMMA OwnerBarStep ==
  ASSUME LockInv, LockInv', NEW c \in Cpus, CpuStep(c), NEW m \in Mutexes,
         ~(WakeEnter(c) /\ chan[c] = m), owner'[m] = owner[m] \/ owner'[m] = None
  PROVE  ownerBar'[m] = ownerBar[m]
<1> pc \in [Cpus -> Locations] /\ chan \in [Cpus -> Chans \cup {None}]
  BY Zenon DEF LockInv, TypeOK, CpuTypes
<1>1. ASSUME NEW d \in Cpus, Releasing(d, m) PROVE Releasing(d, m)' /\ running'[d] = running[d]
  <2>1. CASE d # c
    BY <1>1, <2>1, OthersStill, Zenon DEF Kept, Releasing
  <2>2. CASE d = c
    <3>1. WakeEnter(c)
      BY <1>1, <2>2, Zenon
         DEF CpuStep, MtxLockSleep, MtxUnlockSleep, Yield, Schedule, SrEnter, SrHalt, SrIdle,
             IdleLeave, Pick, Resume, SleepEnter, SleepTd, SleepReturn, RelockClaim, RelockSleep,
             RelockTimed, WakeSkip, WakeTake, WakeDoneMutex, WakeDoneTimed, NanoSleep, TimerInt,
             TcExpire, TcDone, TdAllocFail, TdAlloc, TdAllocTd, ForkRunq, Exit, ExitFree,
             MtxReenter, MtxClaim, MtxBlock, MtxReleave, MtxRelease, WakeDone, Releasing
    <3> QED BY <1>1, <2>2, <3>1, ZenonT(60) DEF Releasing
  <2> QED BY <2>1, <2>2, Zenon
<1>2. ASSUME NEW d \in Cpus, Releasing(d, m) PROVE ownerBar'[m] = ownerBar[m]
  <2>1. ownerBar[m] = running[d]
    BY <1>2, OwnerBarIs, Zenon DEF OwnerBarExact
  <2>2. ownerBar'[m] = running'[d]
    BY <1>1, <1>2, OwnerBarWillBe, Zenon DEF OwnerBarExact
  <2> QED BY <1>1, <1>2, <2>1, <2>2, Zenon
<1>3. CASE \A d \in Cpus : ~Releasing(d, m)
  <2>0. ownerBar[m] = owner[m]
    BY <1>3, OwnerBarIs, Zenon DEF OwnerBarExact
  <2>1. CASE MtxRelease(c, m)
    <3>1. Releasing(c, m)' /\ running'[c] = running[c] /\ owner[m] = running[c]
      BY <2>1, Zenon DEF MtxRelease, Releasing
    <3> QED BY <2>0, <3>1, OwnerBarWillBe, Zenon DEF OwnerBarExact
  <2>2. CASE ~MtxRelease(c, m)
    <3>1. ASSUME NEW d \in Cpus PROVE ~Releasing(d, m)'
      <4>1. CASE d # c
        BY <1>3, <4>1, OthersStill, Zenon DEF Kept, Releasing
      <4>2. CASE d = c
        <5> SUFFICES ASSUME pc'[c] = "wk_enter", chan'[c] = m PROVE FALSE
          BY <4>2, Zenon DEF Releasing
        <5>1. CASE WakeEnter(c) \/ WakeSkip(c) \/ WakeTake(c)
          BY <5>1, Zenon DEF WakeEnter, WakeSkip, WakeTake
        <5>2. CASE TcExpire(c)
          BY <5>2, ExpiredThread, ChanAssumption, Zenon DEF TcExpire
        <5>3. ASSUME NEW n \in Mutexes, MtxRelease(c, n) PROVE FALSE
          <6>1. n = m
            BY <5>3, Zenon DEF MtxRelease
          <6> QED BY <2>2, <5>3, <6>1, Zenon
        <5> QED BY <5>1, <5>2, <5>3, PathStep, Zenon
      <4> QED BY <4>1, <4>2, Zenon
    <3>2. owner'[m] = owner[m]
      <4>1. ASSUME owner'[m] # owner[m] PROVE FALSE
        <5>1. owner'[m] = None /\ owner'[m] = running[c] /\ pc[c] \in {"user", "relock"}
          BY <2>2, <4>1, OwnerStep, Zenon
        <5> QED BY <5>1, NoneAssumption, RunningThread, Zenon DEF ThreadLocs
      <4> QED BY <4>1, Zenon
    <3> QED BY <2>0, <3>1, <3>2, OwnerBarWillBe, Zenon DEF OwnerBarExact
  <2> QED BY <2>1, <2>2, Zenon
<1> QED BY <1>2, <1>3, Zenon

\* A wakeup() that scans the queue for a channel, and the end of its scan.
LEMMA ScanningStep ==
  ASSUME LockInv, NEW c \in Cpus, CpuStep(c), NEW ch
  PROVE  /\ ~Scanning(ch) /\ ~(WakeEnter(c) /\ chan[c] = ch) => ~Scanning(ch)'
         /\ Scanning(ch) /\ ~(WakeDone(c) /\ chan[c] = ch) => Scanning(ch)'
<1> pc \in [Cpus -> Locations] /\ chan \in [Cpus -> Chans \cup {None}]
  BY Zenon DEF LockInv, TypeOK, CpuTypes
<1>1. ASSUME NEW d \in Cpus, pc'[d] = "wk_scan", chan'[d] = ch, ~(WakeEnter(c) /\ chan[c] = ch)
      PROVE  Scanning(ch)
  <2>1. CASE d # c
    BY <1>1, <2>1, OthersStill, Zenon DEF Kept, Scanning
  <2>2. CASE d = c
    <3>1. WakeEnter(c) => chan'[c] = chan[c]
      BY Zenon DEF WakeEnter
    <3>2. CASE WakeSkip(c) \/ WakeTake(c)
      BY <1>1, <2>2, <3>2, Zenon DEF WakeSkip, WakeTake, Scanning
    <3>3. CASE TcExpire(c) \/ \E m \in Mutexes : MtxRelease(c, m)
      BY <1>1, <2>2, <3>3, Zenon DEF TcExpire, MtxRelease
    <3> QED BY <1>1, <2>2, <3>1, <3>2, <3>3, PathStep, Zenon
  <2> QED BY <2>1, <2>2, Zenon
<1>2. ASSUME NEW d \in Cpus, pc[d] = "wk_scan", chan[d] = ch, ~(WakeDone(c) /\ chan[c] = ch)
      PROVE  Scanning(ch)'
  <2>1. CASE d # c
    BY <1>2, <2>1, OthersStill, ZenonT(60) DEF Kept, Scanning
  <2>2. CASE d = c
    <3>1. CASE WakeSkip(c) \/ WakeTake(c)
      BY <1>2, <2>2, <3>1, Zenon DEF WakeSkip, WakeTake, Scanning
    <3> QED
      BY <1>2, <2>2, <3>1, ZenonT(60)
         DEF CpuStep, MtxLockSleep, MtxUnlockSleep, Yield, Schedule, SrEnter, SrHalt, SrIdle,
             IdleLeave, Pick, Resume, SleepEnter, SleepTd, SleepReturn, RelockClaim, RelockSleep,
             RelockTimed, WakeEnter, WakeDoneMutex, WakeDoneTimed, NanoSleep, TimerInt, TcExpire,
             TcDone, TdAllocFail, TdAlloc, TdAllocTd, ForkRunq, Exit, ExitFree, MtxReenter,
             MtxClaim, MtxBlock, MtxReleave, MtxRelease
  <2> QED BY <2>1, <2>2, Zenon
<1> QED BY <1>1, <1>2, Zenon DEF Scanning

\* The threads blocked on a channel change for the users of the monitor when
\* sleep() or wakeup() of that channel has the sleep queue.
LEMMA BlockedStep ==
  ASSUME LockInv, PlaceInv, PlaceInv', Scanned, NEW c \in Cpus, CpuStep(c), NEW ch \in Chans,
         ~((WakeEnter(c) \/ SleepEnter(c)) /\ chan[c] = ch), NEW t \in Threads
  PROVE  ~Scanning(ch)' /\ BlockedOn(t, ch)' <=> ~Scanning(ch) /\ BlockedOn(t, ch)
<1> /\ pc \in [Cpus -> Locations] /\ chan \in [Cpus -> Chans \cup {None}]
    /\ wchan \in [Threads -> Chans \cup {None}] /\ status \in [Threads -> Statuses]
    /\ pos \in [Cpus -> Nat \ {0}] /\ sleepq \in Seq(Threads)
  BY Zenon DEF LockInv, TypeOK, CpuTypes, ThreadTypes, QueueTypes
<1>0. /\ BlockedOn(t, ch) <=> (status[t] = "SLEEPING" /\ wchan[t] = ch) \/ Entering(t, ch)
      /\ BlockedOn(t, ch)' <=> (status'[t] = "SLEEPING" /\ wchan'[t] = ch) \/ Entering(t, ch)'
  BY BlockedOnIs, BlockedOnWillBe, Zenon DEF BlockedExact
<1>1. ASSUME BlockedOn(t, ch)' PROVE BlockedOn(t, ch)
  <2>1. CASE status'[t] = "SLEEPING" /\ wchan'[t] = ch
    <3>1. CASE SleepTd(c) /\ t = running[c]
      BY <1>0, <2>1, <3>1, Zenon DEF SleepTd, Entering
    <3> QED BY <1>0, <2>1, <3>1, SleeperStep, Zenon
  <2>2. ASSUME NEW d \in Cpus, pc'[d] = "sl_td", running'[d] = t, chan'[d] = ch PROVE Entering(t, ch)
    <3>1. CASE d # c
      BY <2>2, <3>1, OthersStill, Zenon DEF Kept, Entering
    <3>2. CASE d = c
      BY <2>2, <3>2, PathStep, Zenon DEF SleepEnter, RelockSleep, NanoSleep, MtxBlock
    <3> QED BY <3>1, <3>2, Zenon
  <2> QED BY <1>0, <1>1, <2>1, <2>2, Zenon DEF Entering
<1>2. ASSUME BlockedOn(t, ch), ~Scanning(ch) PROVE BlockedOn(t, ch)'
  <2>1. CASE status[t] = "SLEEPING" /\ wchan[t] = ch
    <3>1. ~(WakeTake(c) /\ t = sleepq[pos[c]])
      BY <1>2, <2>1, Zenon DEF WakeTake, Scanning
    <3> QED BY <1>0, <2>1, <3>1, SleeperStays, Zenon
  <2>2. ASSUME NEW d \in Cpus, pc[d] = "sl_td", running[d] = t, chan[d] = ch PROVE BlockedOn(t, ch)'
    <3>1. CASE d # c
      <4>1. Entering(t, ch)'
        BY <2>2, <3>1, OthersStill, Zenon DEF Kept, Entering
      <4> QED BY <1>0, <4>1, Zenon
    <3>2. CASE d = c
      <4>1. SleepTd(c)
        BY <2>2, <3>2, ZenonT(60)
           DEF CpuStep, MtxLockSleep, MtxUnlockSleep, Yield, Schedule, SrEnter, SrHalt, SrIdle,
               IdleLeave, Pick, Resume, SleepEnter, SleepReturn, RelockClaim, RelockSleep,
               RelockTimed, WakeEnter, WakeSkip, WakeTake, WakeDoneMutex, WakeDoneTimed, NanoSleep,
               TimerInt, TcExpire, TcDone, TdAllocFail, TdAlloc, TdAllocTd, ForkRunq, Exit,
               ExitFree, MtxReenter, MtxClaim, MtxBlock, MtxReleave, MtxRelease, WakeDone
      <4> QED BY <1>0, <2>2, <3>2, <4>1, Zenon DEF SleepTd
    <3> QED BY <3>1, <3>2, Zenon
  <2> QED BY <1>0, <1>2, <2>1, <2>2, Zenon DEF Entering
<1>3. ASSUME WakeDone(c), chan[c] = ch PROVE ~BlockedOn(t, ch)
  <2>1. ~(status[t] = "SLEEPING" /\ wchan[t] = ch)
    <3> SUFFICES ASSUME status[t] = "SLEEPING", wchan[t] = ch PROVE FALSE
      BY Zenon
    <3>1. PICK i \in 1..Len(sleepq) : sleepq[i] = t
      BY Zenon DEF PlaceInv, InSleepq, InSeq
    <3>2. pc[c] = "wk_scan" /\ pos[c] > Len(sleepq)
      BY <1>3, Zenon DEF WakeDone
    <3>3. i < pos[c]
      BY <3>2, SMTT(60)
    <3> QED BY <1>3, <3>1, <3>2, <3>3, Zenon DEF Scanned
  <2>2. ~Entering(t, ch)
    BY <1>3, Zenon DEF WakeDone, Entering, LockInv, LockDiscipline, QueueLocks, InCritical, Queues
  <2> QED BY <1>0, <2>1, <2>2, Zenon
<1> QED BY <1>1, <1>2, <1>3, ScanningStep, Zenon

\* A running thread is not blocked.
LEMMA RunningAwake ==
  ASSUME LockInv, PlaceInv, NEW c \in Cpus, running[c] \in Threads,
         pc[c] \notin {"sl_td", "schedule", "ex_free"}, NEW ch \in Chans
  PROVE  ~BlockedOn(running[c], ch)
<1>1. status[running[c]] = "RUNNING"
  BY Zenon DEF PlaceInv, Runs
<1>2. ~Entering(running[c], ch)
  BY Zenon DEF PlaceInv, Alone, On, Entering
<1> QED BY <1>1, <1>2, BlockedOnIs, Zenon DEF BlockedExact

\* Only the thread itself is blocked on the channel of a timed sleep.
OnlyTimed == \A t, u \in Threads : BlockedOn(t, u) => t = u

LEMMA TimedBlocked == PlaceInv /\ Waits => OnlyTimed
<1> SUFFICES ASSUME PlaceInv, Waits, NEW u \in Threads, NEW t \in Threads, BlockedOn(t, u) PROVE t = u
  BY Zenon DEF OnlyTimed
<1>1. u \in Chans
  BY Zenon DEF Chans
<1>2. CASE status[t] = "SLEEPING" /\ wchan[t] = u
  BY <1>2, Zenon DEF Waits, MayWait
<1>3. CASE Entering(t, u)
  BY <1>3, Zenon DEF Entering, Waits, MayWait, SleepLocs
<1> QED BY <1>1, <1>2, <1>3, BlockedOnIs, Zenon DEF BlockedExact

LEMMA TimedBlockedNext == PlaceInv' /\ Waits' => OnlyTimed'
  BY TimedBlocked, PTL

LEMMA WaitingBarStill ==
  ASSUME LockInv, PlaceInv, PlaceInv', Scanned, NEW c \in Cpus, CpuStep(c), NEW ch \in Chans,
         ~((WakeEnter(c) \/ SleepEnter(c)) /\ chan[c] = ch)
  PROVE  waitingBar'[ch] = waitingBar[ch]
<1>1. waitingBar'[ch] = IF Scanning(ch)' THEN {} ELSE {t \in Threads : BlockedOn(t, ch)'}
  BY Zenon DEF waitingBar
<1>2. waitingBar[ch] = IF Scanning(ch) THEN {} ELSE {t \in Threads : BlockedOn(t, ch)}
  BY Zenon DEF waitingBar
<1>3. \A t \in Threads : ~Scanning(ch)' /\ BlockedOn(t, ch)' <=> ~Scanning(ch) /\ BlockedOn(t, ch)
  BY BlockedStep, Zenon
<1>4. \A t : t \in waitingBar'[ch] <=> t \in waitingBar[ch]
  BY <1>1, <1>2, <1>3, Zenon
<1> HIDE DEF waitingBar
<1> QED BY <1>1, <1>2, <1>4, Zenon

LEMMA BarDomains ==
  /\ ownerBar = [m \in Mutexes |-> ownerBar[m]] /\ waitingBar = [ch \in Chans |-> waitingBar[ch]]
  /\ ownerBar' = [m \in Mutexes |-> ownerBar'[m]] /\ waitingBar' = [ch \in Chans |-> waitingBar'[ch]]
  BY Zenon DEF ownerBar, waitingBar

\* The claim of a mutex, as the users of the monitor see it.
LEMMA AcquireStep ==
  ASSUME LockInv, LockInv', PlaceInv, PlaceInv', WaitInv, NEW c \in Cpus, CpuStep(c),
         NEW m \in Mutexes, owner'[m] # owner[m], owner'[m] # None
  PROVE  M!Acquire(running[c], m) /\ running[c] \in Threads
<1>1. /\ owner[m] = None /\ mtxLo[m] = None /\ pc[c] \in {"user", "relock"} /\ pc'[c] = "user"
      /\ owner'[m] = running[c] /\ owner' = [owner EXCEPT ![m] = running[c]]
  BY OwnerStep, Zenon
<1>2. running[c] \in Threads
  BY <1>1, RunningThread, Zenon DEF ThreadLocs
<1>3. \A ch \in Chans : waitingBar'[ch] = waitingBar[ch]
  BY <1>1, WaitingBarStill, Zenon DEF WaitInv, WakeEnter, SleepEnter
<1>4. \A d \in Cpus : ~Releasing(d, m)
  BY <1>1, NoneAssumption, SMTT(60) DEF Releasing, LockInv, LockDiscipline, MutexLocks, InMutex
<1>5. \A d \in Cpus : ~Releasing(d, m)'
  BY <1>1, <1>4, OthersStill, Zenon DEF Kept, Releasing
<1>6. ownerBar[m] = None /\ ownerBar'[m] = running[c]
  BY <1>1, <1>4, <1>5, OwnerBarIs, OwnerBarWillBe, Zenon DEF OwnerBarExact
<1>7. ASSUME NEW n \in Mutexes, n # m PROVE ownerBar'[n] = ownerBar[n]
  <2>1. owner'[n] = owner[n]
    BY <1>1, <1>7, Zenon DEF LockInv, TypeOK, MutexTypes
  <2> QED BY <1>1, <2>1, OwnerBarStep, Zenon DEF WakeEnter
<1>8. ownerBar' = [ownerBar EXCEPT ![m] = running[c]]
  BY <1>6, <1>7, BarDomains, Zenon
<1>9. waitingBar' = waitingBar
  BY <1>3, BarDomains, Zenon
<1>10. M!Awake(running[c])
  BY <1>1, <1>2, RunningAwake, Zenon DEF M!Awake, M!Chans, Chans, waitingBar
<1> QED BY <1>2, <1>6, <1>8, <1>9, <1>10, Zenon DEF M!Acquire


\* wakeup() of a released mutex has the sleep queue ...
LEMMA ReleaseStep ==
  ASSUME LockInv, LockInv', PlaceInv, PlaceInv', WaitInv, NEW c \in Cpus, CpuStep(c),
         WakeEnter(c), chan[c] \in Mutexes
  PROVE  M!Release(running[c], chan[c]) /\ running[c] \in Threads
<1> pc \in [Cpus -> Locations] /\ chan \in [Cpus -> Chans \cup {None}]
  BY Zenon DEF LockInv, TypeOK, CpuTypes
<1>1. /\ pc[c] = "wk_enter" /\ pc' = [pc EXCEPT ![c] = "wk_scan"] /\ chan' = chan /\ owner' = owner
  BY Zenon DEF WakeEnter
<1>2. running[c] \in Threads /\ owner[chan[c]] = None /\ chan[c] \in Chans
  BY <1>1, Zenon DEF LockInv, TypeOK, CpuTypes, CpuInv, LocalsSet, WaitInv, Released, Chans
<1>3. ownerBar[chan[c]] = running[c]
  BY <1>1, OwnerBarIs, Zenon DEF OwnerBarExact, Releasing
<1>4. \A d \in Cpus : ~Releasing(d, chan[c])'
  <2> SUFFICES ASSUME NEW d \in Cpus, pc'[d] = "wk_enter", chan[d] = chan[c] PROVE FALSE
    BY <1>1, Zenon DEF Releasing
  <2>1. d # c /\ pc[d] = "wk_enter"
    BY <1>1, Zenon
  <2> QED BY <1>1, <2>1 DEF LockInv, LockDiscipline, MutexLocks, InMutex
<1>5. ownerBar'[chan[c]] = None
  <2>1. PICK m \in Mutexes : m = chan[c]
    BY Zenon
  <2>2. \A d \in Cpus : ~Releasing(d, m)'
    BY <1>1, <1>4, <2>1, Zenon DEF Releasing
  <2>3. ownerBar'[m] = owner'[m]
    BY <2>2, OwnerBarWillBe, Zenon DEF OwnerBarExact
  <2> QED BY <1>1, <1>2, <2>1, <2>3, Zenon
<1>6. \A n \in Mutexes : n # chan[c] => ownerBar'[n] = ownerBar[n]
  BY <1>1, OwnerBarStep, Zenon
<1>7. waitingBar'[chan[c]] = {}
  <2>1. PICK ch \in Chans : ch = chan[c]
    BY <1>2, Zenon
  <2>2. Scanning(ch)'
    BY <1>1, <2>1, Zenon DEF Scanning
  <2>3. waitingBar'[ch] = {}
    BY <2>2, Zenon DEF waitingBar
  <2> QED BY <2>1, <2>3, Zenon
<1>8. \A ch \in Chans : ch # chan[c] => waitingBar'[ch] = waitingBar[ch]
  BY WaitingBarStill, Zenon DEF WaitInv
<1>9. ownerBar' = [ownerBar EXCEPT ![chan[c]] = None]
  BY <1>5, <1>6, BarDomains, Zenon
<1>10. waitingBar' = [waitingBar EXCEPT ![chan[c]] = {}]
  BY <1>2, <1>7, <1>8, BarDomains, Zenon
<1>11. M!Awake(running[c])
  BY <1>1, <1>2, RunningAwake, Zenon DEF M!Awake, M!Chans, Chans, waitingBar
<1> QED BY <1>2, <1>3, <1>9, <1>10, <1>11, Zenon DEF M!Release

\* ... or that of an expired timeout.
LEMMA ExpireStep ==
  ASSUME LockInv, LockInv', PlaceInv, PlaceInv', WaitInv, NEW c \in Cpus, CpuStep(c),
         WakeEnter(c), chan[c] \in Threads
  PROVE  M!Expire(chan[c]) \/ UNCHANGED <<ownerBar, waitingBar>>
<1> pc \in [Cpus -> Locations]
  BY Zenon DEF LockInv, TypeOK, CpuTypes
<1>1. /\ pc[c] = "wk_enter" /\ pc' = [pc EXCEPT ![c] = "wk_scan"] /\ chan' = chan /\ owner' = owner
  BY Zenon DEF WakeEnter
<1>2. chan[c] \notin Mutexes /\ chan[c] \in Chans
  BY ChanAssumption, Zenon DEF Chans
<1>3. \A n \in Mutexes : ownerBar'[n] = ownerBar[n]
  BY <1>1, <1>2, OwnerBarStep, Zenon
<1>4. waitingBar'[chan[c]] = {}
  <2>1. PICK ch \in Chans : ch = chan[c]
    BY <1>2, Zenon
  <2>2. Scanning(ch)'
    BY <1>1, <2>1, Zenon DEF Scanning
  <2>3. waitingBar'[ch] = {}
    BY <2>2, Zenon DEF waitingBar
  <2> QED BY <2>1, <2>3, Zenon
<1>5. \A ch \in Chans : ch # chan[c] => waitingBar'[ch] = waitingBar[ch]
  BY WaitingBarStill, Zenon DEF WaitInv
<1>6. waitingBar[chan[c]] = {} \/ waitingBar[chan[c]] = {chan[c]}
  <2>1. \A t \in waitingBar[chan[c]] : t = chan[c]
    BY <1>2, TimedBlocked, Zenon DEF waitingBar, WaitInv, OnlyTimed
  <2> HIDE DEF waitingBar
  <2> QED BY <2>1, Zenon
<1>7. ownerBar' = ownerBar
  BY <1>3, BarDomains, Zenon
<1>8. waitingBar' = [waitingBar EXCEPT ![chan[c]] = {}]
  BY <1>2, <1>4, <1>5, BarDomains, Zenon
<1>9. waitingBar[chan[c]] = {} => waitingBar' = waitingBar
  BY <1>2, <1>4, <1>5, BarDomains, SMTT(60)
<1> QED BY <1>6, <1>7, <1>8, <1>9, Zenon DEF M!Expire

\* sleep() has the sleep queue: the thread is blocked on the mutex ...
LEMMA BlockStep ==
  ASSUME LockInv, LockInv', PlaceInv, PlaceInv', WaitInv, NEW c \in Cpus, CpuStep(c),
         SleepEnter(c), chan[c] \in Mutexes
  PROVE  M!Block(running[c], chan[c]) /\ running[c] \in Threads
<1> pc \in [Cpus -> Locations]
  BY Zenon DEF LockInv, TypeOK, CpuTypes
<1>1. /\ pc[c] = "sl_enter" /\ pc' = [pc EXCEPT ![c] = "sl_td"] /\ chan' = chan /\ owner' = owner
      /\ running' = running /\ status' = status /\ wchan' = wchan
  BY Zenon DEF SleepEnter
<1>2. running[c] \in Threads /\ chan[c] \in Chans
  BY <1>1, RunningThread, Zenon DEF ThreadLocs, Chans
<1>3. owner[chan[c]] \notin {None, running[c]}
  BY <1>1, Zenon DEF WaitInv, Waits, MayWait, SleepLocs, Wakers, Awaited
<1>4. \A d \in Cpus : d # c => ~(pc[d] \in {"wk_enter", "wk_scan"} /\ chan[d] = chan[c])
  BY <1>1, SMTT(60) DEF LockInv, LockDiscipline, MutexLocks, InMutex
<1>5. ownerBar[chan[c]] = owner[chan[c]]
  BY <1>1, <1>4, OwnerBarIs, Zenon DEF OwnerBarExact, Releasing
<1>6. \A n \in Mutexes : ownerBar'[n] = ownerBar[n]
  BY <1>1, OwnerBarStep, Zenon DEF WakeEnter
<1>7. \A ch \in Chans : ch # chan[c] => waitingBar'[ch] = waitingBar[ch]
  BY WaitingBarStill, Zenon DEF WaitInv
<1>8. waitingBar'[chan[c]] = waitingBar[chan[c]] \cup {running[c]}
  <2>1. PICK ch \in Chans : ch = chan[c]
    BY <1>2, Zenon
  <2>2. ~Scanning(ch) /\ ~Scanning(ch)'
    BY <1>1, <1>4, <2>1, Zenon DEF Scanning
  <2>3. ASSUME NEW t \in Threads PROVE BlockedOn(t, ch)' <=> BlockedOn(t, ch) \/ t = running[c]
    <3>1. Entering(t, ch)' <=> Entering(t, ch) \/ t = running[c]
      <4>1. Entering(t, ch) => Entering(t, ch)'
        BY <1>1, Zenon DEF Entering
      <4>2. t = running[c] => Entering(t, ch)'
        BY <1>1, <2>1, Zenon DEF Entering
      <4>3. Entering(t, ch)' => Entering(t, ch) \/ t = running[c]
        BY <1>1, Zenon DEF Entering
      <4> QED BY <4>1, <4>2, <4>3, Zenon
    <3> QED BY <1>1, <3>1, BlockedOnIs, BlockedOnWillBe, Zenon DEF BlockedExact
  <2>4. /\ waitingBar[ch] = {t \in Threads : BlockedOn(t, ch)}
        /\ waitingBar'[ch] = {t \in Threads : BlockedOn(t, ch)'}
    BY <2>2, Zenon DEF waitingBar
  <2>5. waitingBar'[ch] = waitingBar[ch] \cup {running[c]}
    <3> HIDE DEF waitingBar, BlockedOn
    <3>1. \A t : t \in waitingBar'[ch] <=> t \in waitingBar[ch] \cup {running[c]}
      BY <1>2, <2>3, <2>4, Zenon
    <3>2. waitingBar'[ch] \subseteq Threads /\ waitingBar[ch] \subseteq Threads
      BY <2>4, Zenon
    <3> QED BY <1>2, <3>1, <3>2, Zenon
  <2> QED BY <2>1, <2>5, Zenon
<1>9. ownerBar' = ownerBar
  BY <1>6, BarDomains, Zenon
<1>10. waitingBar' = [waitingBar EXCEPT ![chan[c]] = @ \cup {running[c]}]
  BY <1>2, <1>7, <1>8, BarDomains, Zenon
<1>11. M!Awake(running[c])
  BY <1>1, <1>2, RunningAwake, Zenon DEF M!Awake, M!Chans, Chans, waitingBar
<1> QED BY <1>2, <1>3, <1>5, <1>9, <1>10, <1>11, Zenon DEF M!Block

\* ... or on its own channel, in a timed sleep.
LEMMA TimedStep ==
  ASSUME LockInv, LockInv', PlaceInv, PlaceInv', WaitInv, WaitInv', NEW c \in Cpus, CpuStep(c),
         SleepEnter(c), chan[c] \in Threads
  PROVE  M!TimedSleep(running[c]) /\ running[c] \in Threads
<1> pc \in [Cpus -> Locations]
  BY Zenon DEF LockInv, TypeOK, CpuTypes
<1>1. /\ pc[c] = "sl_enter" /\ pc' = [pc EXCEPT ![c] = "sl_td"] /\ chan' = chan /\ owner' = owner
      /\ running' = running
  BY Zenon DEF SleepEnter
<1>2. running[c] \in Threads /\ chan[c] = running[c] /\ chan[c] \in Chans /\ chan[c] \notin Mutexes
  BY <1>1, RunningThread, ChanAssumption, Zenon DEF ThreadLocs, Chans, WaitInv, Waits, MayWait, SleepLocs
<1>3. \A n \in Mutexes : ownerBar'[n] = ownerBar[n]
  BY <1>1, OwnerBarStep, Zenon DEF WakeEnter
<1>4. \A ch \in Chans : ch # chan[c] => waitingBar'[ch] = waitingBar[ch]
  BY WaitingBarStill, Zenon DEF WaitInv
<1>5. waitingBar'[running[c]] = {running[c]}
  <2>1. PICK u \in Threads : u = running[c]
    BY <1>2, Zenon
  <2>2. u \in Chans
    BY Zenon DEF Chans
  <2>3. ~Scanning(u)'
    <3> SUFFICES ASSUME NEW d \in Cpus, pc'[d] = "wk_scan", chan[d] = u PROVE FALSE
      BY <1>1, Zenon DEF Scanning
    <3>1. d # c /\ pc[d] = "wk_scan"
      BY <1>1, Zenon
    <3>2. qlock["tseq"] = d /\ qlock["tseq"] = c
      BY <1>1, <1>2, <3>1, TimedLock, Zenon
    <3> QED BY <3>1, <3>2, Zenon
  <2>4. BlockedOn(u, u)'
    <3>1. Entering(u, u)'
      BY <1>1, <1>2, <2>1, Zenon DEF Entering
    <3> QED BY <2>2, <3>1, BlockedOnWillBe, Zenon DEF BlockedExact
  <2>5. \A t \in Threads : BlockedOn(t, u)' => t = u
    BY TimedBlockedNext, Zenon DEF WaitInv, OnlyTimed
  <2>6. waitingBar'[u] = {t \in Threads : BlockedOn(t, u)'}
    BY <2>2, <2>3, Zenon DEF waitingBar
  <2>7. waitingBar'[u] = {u}
    BY <2>4, <2>5, <2>6, Zenon
  <2> QED BY <2>1, <2>7, Zenon
<1>6. ownerBar' = ownerBar
  BY <1>3, BarDomains, Zenon
<1>7. waitingBar' = [waitingBar EXCEPT ![running[c]] = {running[c]}]
  BY <1>2, <1>4, <1>5, BarDomains, Zenon
<1>8. M!Awake(running[c])
  BY <1>1, <1>2, RunningAwake, Zenon DEF M!Awake, M!Chans, Chans, waitingBar
<1> QED BY <1>2, <1>6, <1>7, <1>8, Zenon DEF M!TimedSleep

LEMMA MonitorStep ==
  LockInv /\ LockInv' /\ PlaceInv /\ PlaceInv' /\ WaitInv /\ WaitInv' /\ [Next]_vars => [M!Next]_(M!vars)
<1> SUFFICES ASSUME LockInv, LockInv', PlaceInv, PlaceInv', WaitInv, WaitInv', [Next]_vars
             PROVE  M!Next \/ UNCHANGED <<ownerBar, waitingBar>>
  BY Zenon DEF M!vars
<1>1. ASSUME NEW c \in Cpus, CpuStep(c) PROVE M!Next \/ UNCHANGED <<ownerBar, waitingBar>>
  <2>1. CASE WakeEnter(c)
    <3>1. chan[c] \in Mutexes \/ chan[c] \in Threads
      BY <2>1, ChanSet, Zenon DEF WakeEnter, Chans
    <3> QED BY <1>1, <2>1, <3>1, ReleaseStep, ExpireStep, Zenon DEF M!Next
  <2>2. CASE SleepEnter(c)
    <3>1. chan[c] \in Mutexes \/ chan[c] \in Threads
      BY <2>2, ChanSet, Zenon DEF SleepEnter, Chans
    <3> QED BY <1>1, <2>2, <3>1, BlockStep, TimedStep, Zenon DEF M!Next
  <2>3. CASE \E m \in Mutexes : owner'[m] # owner[m] /\ owner'[m] # None
    BY <1>1, <2>3, AcquireStep, Zenon DEF M!Next
  <2>4. CASE /\ ~WakeEnter(c) /\ ~SleepEnter(c)
             /\ \A m \in Mutexes : owner'[m] = owner[m] \/ owner'[m] = None
    <3>1. \A m \in Mutexes : ownerBar'[m] = ownerBar[m]
      BY <1>1, <2>4, OwnerBarStep, Zenon
    <3>2. \A ch \in Chans : waitingBar'[ch] = waitingBar[ch]
      BY <1>1, <2>4, WaitingBarStill, Zenon DEF WaitInv
    <3> QED BY <3>1, <3>2, BarDomains, Zenon
  <2> QED BY <2>1, <2>2, <2>3, <2>4, Zenon
<1>2. CASE UNCHANGED vars
  <2>1. UNCHANGED <<pc, running, chan, owner, sleepq, wchan>>
    BY <1>2, Zenon DEF vars
  <2>2. ownerBar' = ownerBar
    BY <2>1, Zenon DEF ownerBar
  <2>3. waitingBar' = waitingBar
    BY <2>1, Zenon DEF waitingBar, Scanning, BlockedOn, InSeq
  <2> QED BY <2>2, <2>3, Zenon
<1> QED BY <1>1, <1>2, Zenon DEF Next, Stopped

\* With its spinlocks released in the middle of sleep() and wakeup(), the
\* thread layer shows its users nothing but the atomic steps of Monitor: every
\* step of a CPU is one of them, or invisible.
THEOREM MonitorImplemented == Spec => ImplementsMonitor
<1>1. Init => M!Init
  <2> SUFFICES ASSUME Init PROVE M!Init
    BY Zenon
  <2>1. ownerBar = [m \in Mutexes |-> None]
    BY Zenon DEF Init, ownerBar
  <2>2. \A ch \in Chans : ~Scanning(ch) /\ \A t \in Threads : ~BlockedOn(t, ch)
    BY InEmpty, Zenon DEF Init, Scanning, BlockedOn
  <2>3. waitingBar = [ch \in Chans |-> {}]
    <3> HIDE DEF BlockedOn, Scanning
    <3> QED BY <2>2, Zenon DEF waitingBar
  <2> QED BY <2>1, <2>3, Zenon DEF M!Init, M!Chans, Chans
<1>2. Spec => [][M!Next]_(M!vars)
  BY WaitAlways, MonitorStep, PTL DEF Spec
<1> QED
  BY <1>1, <1>2, PTL DEF Spec, ImplementsMonitor, M!Spec

=============================================================================
