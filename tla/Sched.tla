------------------------------- MODULE Sched -------------------------------
(***************************************************************************)
(* The thread layer of the kernel: run, sleep and free queues, context     *)
(* switch, sleep/wakeup, the sleep mutex, timed sleep, thread creation and *)
(* exit, and the idle loop that halts the machine (kern/proc, kern/lock).  *)
(*                                                                         *)
(* The actors are the CPUs: kernel code runs with interrupts disabled, so  *)
(* a CPU leaves its code path only in cpu_idle() and in user mode.  A step *)
(* starts with the acquisition of one spinlock, the only thing a CPU can   *)
(* wait for, and runs up to the next acquisition.                          *)
(***************************************************************************)
EXTENDS Integers, Sequences

CONSTANTS
    Cpus,       \* the harts
    Threads,    \* the thread control blocks, threads[NTHREAD]
    Mutexes,    \* the MTX_SLEEP|MTX_RECURSE mutexes (mtx_file, fds[i].lock)
    None,       \* the null pointer
    BootThread, \* the thread of the process created at boot
    BootFreeq,  \* thread_freeq after boot
    MaxDepth    \* bound on the re-entrance depth of a mutex (mtx_depth is a u8)

ASSUME NoneAssumption == None \notin Cpus \cup Threads \cup Mutexes
ASSUME ChanAssumption == Threads \cap Mutexes = {}
ASSUME BootAssumption ==
    /\ BootThread \in Threads
    /\ BootFreeq \in Seq(Threads \ {BootThread})
    /\ \A i, j \in 1..Len(BootFreeq) : BootFreeq[i] = BootFreeq[j] => i = j
    /\ \A t \in Threads \ {BootThread} : \E i \in 1..Len(BootFreeq) : BootFreeq[i] = t
ASSUME DepthAssumption == MaxDepth \in 1..255

VARIABLES
    \* per CPU: control point, cpu_running, cpu_idle, and the locals of the
    \* function being executed: the channel of sleep/wakeup, the thread
    \* pointer of sched_runnable/td_alloc, the scan position and readyq of wakeup
    pc, running, idle, chan, td, pos, ready,
    \* per thread: td_status, td_wchan and the saved td_context
    status, wchan, ctx,
    \* spinlock owners: the queue locks, td_lock, the spinlock inside a mutex
    qlock, tdLock, mtxLo,
    \* mtx_owner and mtx_depth of the sleep mutexes
    owner, depth,
    \* thread_runq, thread_sleepq, thread_freeq, tsevent_usedq (the threads
    \* whose timeout events are queued, earliest tse_wakeus first)
    runq, sleepq, freeq, tseq,
    machine

cpuVars    == <<pc, running, idle, chan, td, pos, ready>>
threadVars == <<status, wchan, ctx>>
lockVars   == <<qlock, tdLock, mtxLo>>
mutexVars  == <<owner, depth>>
queueVars  == <<runq, sleepq, freeq, tseq>>
vars == <<cpuVars, threadVars, lockVars, mutexVars, queueVars, machine>>

Queues == {"runq", "sleepq", "freeq", "tseq"}
Chans  == Mutexes \cup Threads     \* &mutex, or the timeVal of a nanosleeping thread
ResumePoints == {"first", "yielded", "slept", "dead"}
Locations == ResumePoints \cup
    {"user", "yield", "schedule", "sr_enter", "sr_loop", "idle", "sl_enter", "sl_td",
     "relock", "wk_enter", "wk_scan", "tc_loop", "ta_td", "fk_runq", "ex_free"}
\* USED is overwritten under the same td_lock hold that writes it (td_alloc, td_fork).
Statuses == {"UNUSED", "RUNNABLE", "RUNNING", "SLEEPING"}

Init ==
    /\ pc = [c \in Cpus |-> "sr_enter"]          \* sched_init -> sched_runnable(NULL)
    /\ running = [c \in Cpus |-> None]
    /\ idle = [c \in Cpus |-> FALSE]
    /\ chan = [c \in Cpus |-> None]
    /\ td = [c \in Cpus |-> None]
    /\ pos = [c \in Cpus |-> 1]
    /\ ready = [c \in Cpus |-> <<>>]
    /\ status = [t \in Threads |-> IF t = BootThread THEN "RUNNABLE" ELSE "UNUSED"]
    /\ wchan = [t \in Threads |-> None]
    /\ ctx = [t \in Threads |-> [pc |-> IF t = BootThread THEN "first" ELSE "dead",
                                 chan |-> None]]
    /\ qlock = [q \in Queues |-> None]
    /\ tdLock = [t \in Threads |-> None]
    /\ mtxLo = [m \in Mutexes |-> None]
    /\ owner = [m \in Mutexes |-> None]
    /\ depth = [m \in Mutexes |-> 0]
    /\ runq = <<BootThread>>
    /\ sleepq = <<>>
    /\ freeq = BootFreeq
    /\ tseq = <<>>
    /\ machine = "up"

(***************************************************************************)
(* CPU c moves to location l.                                              *)
(***************************************************************************)
Goto(c, l) == pc' = [pc EXCEPT ![c] = l]

At(c, l) == machine = "up" /\ pc[c] = l

\* Running in user mode or at a point of the kernel where no lock is held.
InUser(c) == At(c, "user") /\ \A m \in Mutexes : owner[m] # running[c]

\* TAILQ_REMOVE of the i-th element, TAILQ_INSERT_BEFORE the i-th element (or at the end).
Unlink(s, i) == SubSeq(s, 1, i - 1) \o SubSeq(s, i + 1, Len(s))
LinkAt(s, i, x) == SubSeq(s, 1, i - 1) \o <<x>> \o SubSeq(s, i, Len(s))

-----------------------------------------------------------------------------
(***************************************************************************)
(* sched.c: yield, schedule, sched_runnable, sched_switch                  *)
(***************************************************************************)

\* yield(), called by sys_sched_yield or at the end of a timer interrupt taken in user mode.
Yield(c) ==
    /\ InUser(c) \/ At(c, "yield")
    /\ tdLock[running[c]] = None
    /\ tdLock' = [tdLock EXCEPT ![running[c]] = c]
    /\ status' = [status EXCEPT ![running[c]] = "RUNNABLE"]
    /\ Goto(c, "schedule")
    /\ UNCHANGED <<running, idle, chan, td, pos, ready, wchan, ctx, qlock, mtxLo,
                   mutexVars, queueVars, machine>>

\* Where the thread continues once switched back in: the caller of schedule()
\* is known from the status it left in td_status.
ResumePoint(s) == CASE s = "RUNNABLE" -> "yielded"
                    [] s = "SLEEPING" -> "slept"
                    [] OTHER          -> "dead"

\* schedule() -> ctx_switch -> sched_switch: the context is saved and the CPU has no thread.
Schedule(c) ==
    /\ At(c, "schedule")
    /\ ctx' = [ctx EXCEPT ![running[c]] = [pc   |-> ResumePoint(status[running[c]]),
                                           chan |-> chan[c]]]
    /\ running' = [running EXCEPT ![c] = None]
    /\ td' = [td EXCEPT ![c] = running[c]]
    /\ chan' = [chan EXCEPT ![c] = None]
    /\ Goto(c, "sr_enter")
    /\ UNCHANGED <<idle, pos, ready, status, wchan, lockVars, mutexVars, queueVars, machine>>

\* Mutant: a thread that yields goes back to the head of the run queue.
SrEnter_AtHead(c) ==
    /\ At(c, "sr_enter")
    /\ qlock["runq"] = None
    /\ qlock' = [qlock EXCEPT !["runq"] = c]
    /\ IF td[c] = None
       THEN UNCHANGED <<runq, tdLock>>
       ELSE /\ runq' = IF status[td[c]] = "RUNNABLE" THEN <<td[c]>> \o runq ELSE runq
            /\ tdLock' = [tdLock EXCEPT ![td[c]] = None]
    /\ td' = [td EXCEPT ![c] = None]
    /\ Goto(c, "sr_loop")
    /\ UNCHANGED <<running, idle, chan, pos, ready, threadVars, mtxLo, mutexVars,
                   sleepq, freeq, tseq, machine>>

\* sched_runnable(old): takes the run queue, puts a runnable old thread back and
\* only then releases its lock.  td[c] is None when called by sched_init.
SrEnter(c) ==
    /\ At(c, "sr_enter")
    /\ qlock["runq"] = None
    /\ qlock' = [qlock EXCEPT !["runq"] = c]
    /\ IF td[c] = None
       THEN UNCHANGED <<runq, tdLock>>
       ELSE /\ runq' = IF status[td[c]] = "RUNNABLE" THEN Append(runq, td[c]) ELSE runq
            /\ tdLock' = [tdLock EXCEPT ![td[c]] = None]
    /\ td' = [td EXCEPT ![c] = None]
    /\ Goto(c, "sr_loop")
    /\ UNCHANGED <<running, idle, chan, pos, ready, threadVars, mtxLo, mutexVars,
                   sleepq, freeq, tseq, machine>>

\* cpu_allidle(), called by c after it set its own flag.
AllIdle(c) == \A d \in Cpus \ {c} : idle[d]

\* Mutant: the sleep queue is looked at without its lock.
MayHalt_NoTryLock(c) == sleepq = <<>> /\ AllIdle(c)

\* The halting test: run queue empty under its lock, sleep queue locked by the
\* try-lock and empty, every CPU idle.
MayHalt(c) == qlock["sleepq"] = None /\ sleepq = <<>> /\ AllIdle(c)

\* Nothing to run: halt the machine ...
SrHalt(c) ==
    /\ At(c, "sr_loop") /\ runq = <<>> /\ MayHalt(c)
    /\ idle' = [idle EXCEPT ![c] = TRUE]
    /\ machine' = "halted"
    /\ UNCHANGED <<pc, running, chan, td, pos, ready, threadVars, lockVars, mutexVars, queueVars>>

\* ... or release the locks and idle with interrupts on.
SrIdle(c) ==
    /\ At(c, "sr_loop") /\ runq = <<>> /\ ~MayHalt(c)
    /\ idle' = [idle EXCEPT ![c] = TRUE]
    /\ qlock' = [qlock EXCEPT !["runq"] = None]
    /\ Goto(c, "idle")
    /\ UNCHANGED <<running, chan, td, pos, ready, threadVars, tdLock, mtxLo, mutexVars,
                   queueVars, machine>>

\* Return of cpu_idle(): interrupts off again, the run queue is locked.
IdleLeave(c) ==
    /\ At(c, "idle")
    /\ qlock["runq"] = None
    /\ qlock' = [qlock EXCEPT !["runq"] = c]
    /\ Goto(c, "sr_loop")
    /\ UNCHANGED <<running, idle, chan, td, pos, ready, threadVars, tdLock, mtxLo,
                   mutexVars, queueVars, machine>>

\* The first thread of the run queue is locked, removed and switched to.
Pick(c) ==
    /\ At(c, "sr_loop") /\ runq # <<>>
    /\ LET t == Head(runq) IN
       /\ tdLock[t] = None
       /\ tdLock' = [tdLock EXCEPT ![t] = c]
       /\ runq' = Tail(runq)
       /\ running' = [running EXCEPT ![c] = t]
       /\ status' = [status EXCEPT ![t] = "RUNNING"]
       /\ chan' = [chan EXCEPT ![c] = ctx[t].chan]
       /\ Goto(c, ctx[t].pc)
    /\ idle' = [idle EXCEPT ![c] = FALSE]
    /\ qlock' = [qlock EXCEPT !["runq"] = None]
    /\ UNCHANGED <<td, pos, ready, wchan, ctx, mtxLo, mutexVars, sleepq, freeq, tseq, machine>>

\* Mutant: td_lock is not released on the way to user mode.
Resume_NoUnlock(c) ==
    /\ At(c, "yielded") \/ At(c, "first")
    /\ Goto(c, "user")
    /\ UNCHANGED <<running, idle, chan, td, pos, ready, threadVars, lockVars, mutexVars,
                   queueVars, machine>>

\* The tail of yield(), and utrap_firstsched() of a new thread: release td_lock.
Resume(c) ==
    /\ At(c, "yielded") \/ At(c, "first")
    /\ tdLock' = [tdLock EXCEPT ![running[c]] = None]
    /\ Goto(c, "user")
    /\ UNCHANGED <<running, idle, chan, td, pos, ready, threadVars, qlock, mtxLo,
                   mutexVars, queueVars, machine>>

-----------------------------------------------------------------------------
(***************************************************************************)
(* sleep.c: sleep(chan, mtx).  The mtx of a channel is the spinlock of the *)
(* mutex itself, or that of tsevent_usedq for a timed sleep.               *)
(***************************************************************************)

\* Mutant: mtx is released first, the sleep queue locked only for the insertion.
SleepEnter_UnlockFirst(c) ==
    /\ At(c, "sl_enter")
    /\ IF chan[c] \in Mutexes
       THEN mtxLo' = [mtxLo EXCEPT ![chan[c]] = None] /\ UNCHANGED qlock
       ELSE qlock' = [qlock EXCEPT !["tseq"] = None] /\ UNCHANGED mtxLo
    /\ Goto(c, "sl_td")
    /\ UNCHANGED <<running, idle, chan, td, pos, ready, threadVars, tdLock, mutexVars,
                   queueVars, machine>>

\* The sleep queue is locked before mtx is released.
SleepEnter(c) ==
    /\ At(c, "sl_enter")
    /\ qlock["sleepq"] = None
    /\ IF chan[c] \in Mutexes
       THEN /\ mtxLo' = [mtxLo EXCEPT ![chan[c]] = None]
            /\ qlock' = [qlock EXCEPT !["sleepq"] = c]
       ELSE /\ qlock' = [qlock EXCEPT !["sleepq"] = c, !["tseq"] = None]
            /\ UNCHANGED mtxLo
    /\ Goto(c, "sl_td")
    /\ UNCHANGED <<running, idle, chan, td, pos, ready, threadVars, tdLock, mutexVars,
                   queueVars, machine>>

\* Mutant: td_lock is released before schedule() has switched away.
SleepTd_UnlockEarly(c) ==
    /\ At(c, "sl_td")
    /\ tdLock[running[c]] = None
    /\ wchan' = [wchan EXCEPT ![running[c]] = chan[c]]
    /\ status' = [status EXCEPT ![running[c]] = "SLEEPING"]
    /\ sleepq' = <<running[c]>> \o sleepq
    /\ qlock' = [qlock EXCEPT !["sleepq"] = None]
    /\ Goto(c, "schedule")
    /\ UNCHANGED <<running, idle, chan, td, pos, ready, ctx, tdLock, mtxLo, mutexVars,
                   runq, freeq, tseq, machine>>

\* Mutant: the sleep queue is still locked when schedule() is called.
SleepTd_KeepQueue(c) ==
    /\ At(c, "sl_td")
    /\ tdLock[running[c]] = None
    /\ tdLock' = [tdLock EXCEPT ![running[c]] = c]
    /\ wchan' = [wchan EXCEPT ![running[c]] = chan[c]]
    /\ status' = [status EXCEPT ![running[c]] = "SLEEPING"]
    /\ sleepq' = <<running[c]>> \o sleepq
    /\ Goto(c, "schedule")
    /\ UNCHANGED <<running, idle, chan, td, pos, ready, ctx, qlock, mtxLo, mutexVars,
                   runq, freeq, tseq, machine>>

\* The thread enters the sleep queue under both locks and goes to schedule()
\* still holding its own.
SleepTd(c) ==
    /\ At(c, "sl_td")
    /\ LET t == running[c] IN
       /\ tdLock[t] = None
       /\ tdLock' = [tdLock EXCEPT ![t] = c]
       /\ wchan' = [wchan EXCEPT ![t] = chan[c]]
       /\ status' = [status EXCEPT ![t] = "SLEEPING"]
       /\ sleepq' = <<t>> \o sleepq
    /\ qlock' = [qlock EXCEPT !["sleepq"] = None]
    /\ Goto(c, "schedule")
    /\ UNCHANGED <<running, idle, chan, td, pos, ready, ctx, mtxLo, mutexVars,
                   runq, freeq, tseq, machine>>

\* Back from schedule(): td_wchan is cleared and td_lock released.
SleepReturn(c) ==
    /\ At(c, "slept")
    /\ wchan' = [wchan EXCEPT ![running[c]] = None]
    /\ tdLock' = [tdLock EXCEPT ![running[c]] = None]
    /\ Goto(c, "relock")
    /\ UNCHANGED <<running, idle, chan, td, pos, ready, status, ctx, qlock, mtxLo,
                   mutexVars, queueVars, machine>>

\* Mutant: mtx_lock_sleep tests the owner once instead of in a loop.
RelockClaim_NoLoop(c) ==
    /\ At(c, "relock") /\ chan[c] \in Mutexes
    /\ mtxLo[chan[c]] = None
    /\ owner' = [owner EXCEPT ![chan[c]] = running[c]]
    /\ depth' = [depth EXCEPT ![chan[c]] = 1]
    /\ chan' = [chan EXCEPT ![c] = None]
    /\ Goto(c, "user")
    /\ UNCHANGED <<running, idle, td, pos, ready, threadVars, lockVars, queueVars, machine>>

\* mtx is taken again.  The caller is the loop of mtx_lock_sleep, which claims
\* a mutex without owner and releases its spinlock ...
RelockClaim(c) ==
    /\ At(c, "relock") /\ chan[c] \in Mutexes
    /\ mtxLo[chan[c]] = None
    /\ owner[chan[c]] = None
    /\ owner' = [owner EXCEPT ![chan[c]] = running[c]]
    /\ depth' = [depth EXCEPT ![chan[c]] = 1]
    /\ chan' = [chan EXCEPT ![c] = None]
    /\ Goto(c, "user")
    /\ UNCHANGED <<running, idle, td, pos, ready, threadVars, lockVars, queueVars, machine>>

\* ... or calls sleep(m, m) again with the spinlock held ...
RelockSleep(c) ==
    /\ At(c, "relock") /\ chan[c] \in Mutexes
    /\ mtxLo[chan[c]] = None
    /\ owner[chan[c]] # None
    /\ mtxLo' = [mtxLo EXCEPT ![chan[c]] = c]
    /\ Goto(c, "sl_enter")
    /\ UNCHANGED <<running, idle, chan, td, pos, ready, threadVars, qlock, tdLock, mutexVars,
                   queueVars, machine>>

\* ... or tsleep, which frees the timeout event and releases the lock.
RelockTimed(c) ==
    /\ At(c, "relock") /\ chan[c] \in Threads
    /\ qlock["tseq"] = None
    /\ chan' = [chan EXCEPT ![c] = None]
    /\ Goto(c, "user")
    /\ UNCHANGED <<running, idle, td, pos, ready, threadVars, lockVars, mutexVars,
                   queueVars, machine>>

(***************************************************************************)
(* sleep.c: wakeup(chan).  The queue is scanned under the sleep queue      *)
(* lock, one thread at a time under its td_lock; pos[c] is the cursor of   *)
(* TAILQ_FOREACH and ready[c] the local readyq.                            *)
(***************************************************************************)
WakeEnter(c) ==
    /\ At(c, "wk_enter")
    /\ qlock["sleepq"] = None
    /\ qlock' = [qlock EXCEPT !["sleepq"] = c]
    /\ pos' = [pos EXCEPT ![c] = 1]
    /\ ready' = [ready EXCEPT ![c] = <<>>]
    /\ Goto(c, "wk_scan")
    /\ UNCHANGED <<running, idle, chan, td, threadVars, tdLock, mtxLo, mutexVars,
                   queueVars, machine>>

\* The thread under the cursor waits for another channel.
WakeSkip(c) ==
    /\ At(c, "wk_scan") /\ pos[c] <= Len(sleepq)
    /\ tdLock[sleepq[pos[c]]] = None
    /\ wchan[sleepq[pos[c]]] # chan[c]
    /\ pos' = [pos EXCEPT ![c] = @ + 1]
    /\ UNCHANGED <<pc, running, idle, chan, td, ready, threadVars, lockVars, mutexVars,
                   queueVars, machine>>

\* Mutant: the woken thread stays linked in the sleep queue.
WakeTake_NoRemove(c) ==
    /\ At(c, "wk_scan") /\ pos[c] <= Len(sleepq)
    /\ tdLock[sleepq[pos[c]]] = None
    /\ wchan[sleepq[pos[c]]] = chan[c]
    /\ status' = [status EXCEPT ![sleepq[pos[c]]] = "RUNNABLE"]
    /\ ready' = [ready EXCEPT ![c] = Append(@, sleepq[pos[c]])]
    /\ pos' = [pos EXCEPT ![c] = @ + 1]
    /\ UNCHANGED <<pc, running, idle, chan, td, wchan, ctx, lockVars, mutexVars,
                   queueVars, machine>>

\* It waits for this one: it moves from the sleep queue to the readyq.
WakeTake(c) ==
    /\ At(c, "wk_scan") /\ pos[c] <= Len(sleepq)
    /\ LET t == sleepq[pos[c]] IN
       /\ tdLock[t] = None
       /\ wchan[t] = chan[c]
       /\ status' = [status EXCEPT ![t] = "RUNNABLE"]
       /\ sleepq' = Unlink(sleepq, pos[c])
       /\ ready' = [ready EXCEPT ![c] = Append(@, t)]
    /\ UNCHANGED <<pc, running, idle, chan, td, pos, wchan, ctx, lockVars, mutexVars,
                   runq, freeq, tseq, machine>>

\* Mutant: the arguments of TAILQ_CONCAT are swapped (the line left commented
\* out in wakeup): the run queue is moved to the local readyq.
WakeDone_Swapped(c) ==
    /\ At(c, "wk_scan") /\ pos[c] > Len(sleepq)
    /\ qlock["runq"] = None
    /\ qlock' = [qlock EXCEPT !["sleepq"] = None]
    /\ runq' = <<>>
    /\ ready' = [ready EXCEPT ![c] = <<>>]
    /\ chan' = [chan EXCEPT ![c] = None]
    /\ UNCHANGED <<running, idle, td, pos, threadVars, tdLock, mutexVars,
                   sleepq, freeq, tseq, machine>>

\* The end of the scan: the run queue is locked before the sleep queue is
\* released, and takes the woken threads at its tail.
WakeDone(c) ==
    /\ At(c, "wk_scan") /\ pos[c] > Len(sleepq)
    /\ qlock["runq"] = None
    /\ qlock' = [qlock EXCEPT !["sleepq"] = None]
    /\ runq' = runq \o ready[c]
    /\ ready' = [ready EXCEPT ![c] = <<>>]
    /\ chan' = [chan EXCEPT ![c] = None]
    /\ UNCHANGED <<running, idle, td, pos, threadVars, tdLock, mutexVars,
                   sleepq, freeq, tseq, machine>>

\* wakeup() returns to the end of mtx_unlock_sleep, which releases the spinlock ...
WakeDoneMutex(c) ==
    /\ WakeDone(c) /\ chan[c] \in Mutexes
    /\ mtxLo' = [mtxLo EXCEPT ![chan[c]] = None]
    /\ Goto(c, "user")

\* ... or to the loop of tsleep_check.
WakeDoneTimed(c) ==
    /\ WakeDone(c) /\ chan[c] \in Threads
    /\ Goto(c, "tc_loop")
    /\ UNCHANGED mtxLo

-----------------------------------------------------------------------------
(***************************************************************************)
(* mutex.c: the sleep mutex                                                *)
(***************************************************************************)
MtxReenter(c, m) ==
    /\ At(c, "user")
    /\ mtxLo[m] = None
    /\ owner[m] = running[c]
    /\ depth[m] < MaxDepth
    /\ depth' = [depth EXCEPT ![m] = @ + 1]
    /\ UNCHANGED <<cpuVars, threadVars, lockVars, owner, queueVars, machine>>

MtxClaim(c, m) ==
    /\ At(c, "user")
    /\ mtxLo[m] = None
    /\ owner[m] = None
    /\ owner' = [owner EXCEPT ![m] = running[c]]
    /\ depth' = [depth EXCEPT ![m] = 1]
    /\ UNCHANGED <<cpuVars, threadVars, lockVars, queueVars, machine>>

\* sleep(m, m), entered with the spinlock held
MtxBlock(c, m) ==
    /\ At(c, "user")
    /\ mtxLo[m] = None
    /\ owner[m] \notin {None, running[c]}
    /\ mtxLo' = [mtxLo EXCEPT ![m] = c]
    /\ chan' = [chan EXCEPT ![c] = m]
    /\ Goto(c, "sl_enter")
    /\ UNCHANGED <<running, idle, td, pos, ready, threadVars, qlock, tdLock, mutexVars,
                   queueVars, machine>>

MtxLockSleep(c, m) == MtxReenter(c, m) \/ MtxClaim(c, m) \/ MtxBlock(c, m)

MtxReleave(c, m) ==
    /\ At(c, "user")
    /\ mtxLo[m] = None
    /\ owner[m] = running[c] /\ depth[m] > 1
    /\ depth' = [depth EXCEPT ![m] = @ - 1]
    /\ UNCHANGED <<cpuVars, threadVars, lockVars, owner, queueVars, machine>>

\* Mutant: neither the owner nor the depth is checked.
MtxRelease_AnyOwner(c, m) ==
    /\ At(c, "user")
    /\ mtxLo[m] = None
    /\ depth' = [depth EXCEPT ![m] = @ - 1]
    /\ owner' = [owner EXCEPT ![m] = None]
    /\ mtxLo' = [mtxLo EXCEPT ![m] = c]
    /\ chan' = [chan EXCEPT ![c] = m]
    /\ Goto(c, "wk_enter")
    /\ UNCHANGED <<running, idle, td, pos, ready, threadVars, qlock, tdLock, queueVars, machine>>

\* wakeup(m), entered with the spinlock held
MtxRelease(c, m) ==
    /\ At(c, "user")
    /\ mtxLo[m] = None
    /\ owner[m] = running[c] /\ depth[m] = 1
    /\ depth' = [depth EXCEPT ![m] = 0]
    /\ owner' = [owner EXCEPT ![m] = None]
    /\ mtxLo' = [mtxLo EXCEPT ![m] = c]
    /\ chan' = [chan EXCEPT ![c] = m]
    /\ Goto(c, "wk_enter")
    /\ UNCHANGED <<running, idle, td, pos, ready, threadVars, qlock, tdLock, queueVars, machine>>

MtxUnlockSleep(c, m) == MtxReleave(c, m) \/ MtxRelease(c, m)

-----------------------------------------------------------------------------
(***************************************************************************)
(* tsleep.c, trap_timer.c: nanosleep and the timer interrupt               *)
(***************************************************************************)

\* tsleep(&timeVal, NULL, ..): the event is queued by its wake-up time (any
\* position, time itself is not modelled) and the thread sleeps with the lock
\* of the event queue as mtx.
NanoSleep(c) ==
    /\ InUser(c)
    /\ qlock["tseq"] = None
    /\ qlock' = [qlock EXCEPT !["tseq"] = c]
    /\ \E i \in 1..Len(tseq) + 1 : tseq' = LinkAt(tseq, i, running[c])
    /\ chan' = [chan EXCEPT ![c] = running[c]]
    /\ Goto(c, "sl_enter")
    /\ UNCHANGED <<running, idle, td, pos, ready, threadVars, tdLock, mtxLo, mutexVars,
                   runq, sleepq, freeq, machine>>

\* A timer interrupt, in user mode (utrap_timer) or in cpu_idle (ktrap_timer), enters tsleep_check.
TimerInt(c) ==
    /\ InUser(c) \/ At(c, "idle")
    /\ qlock["tseq"] = None
    /\ qlock' = [qlock EXCEPT !["tseq"] = c]
    /\ Goto(c, "tc_loop")
    /\ UNCHANGED <<running, idle, chan, td, pos, ready, threadVars, tdLock, mtxLo,
                   mutexVars, queueVars, machine>>

\* Mutant: the expired event stays in the queue while its thread is woken.
TcExpire_KeepEvent(c) ==
    /\ At(c, "tc_loop") /\ tseq # <<>>
    /\ chan' = [chan EXCEPT ![c] = Head(tseq)]
    /\ Goto(c, "wk_enter")
    /\ UNCHANGED <<running, idle, td, pos, ready, threadVars, lockVars, mutexVars,
                   queueVars, machine>>

\* Mutant: the expired event is dropped without a wakeup.
TcExpire_NoWakeup(c) ==
    /\ At(c, "tc_loop") /\ tseq # <<>>
    /\ tseq' = Tail(tseq)
    /\ UNCHANGED <<cpuVars, threadVars, lockVars, mutexVars, runq, sleepq, freeq, machine>>

\* The earliest event has expired: it leaves the queue and its channel is woken.
TcExpire(c) ==
    /\ At(c, "tc_loop") /\ tseq # <<>>
    /\ tseq' = Tail(tseq)
    /\ chan' = [chan EXCEPT ![c] = Head(tseq)]
    /\ Goto(c, "wk_enter")
    /\ UNCHANGED <<running, idle, td, pos, ready, threadVars, lockVars, mutexVars,
                   runq, sleepq, freeq, machine>>

\* No (further) event has expired.
TcDone(c) ==
    /\ At(c, "tc_loop")
    /\ qlock' = [qlock EXCEPT !["tseq"] = None]
    /\ Goto(c, IF running[c] = None THEN "idle" ELSE "yield")
    /\ UNCHANGED <<running, idle, chan, td, pos, ready, threadVars, tdLock, mtxLo,
                   mutexVars, queueVars, machine>>

-----------------------------------------------------------------------------
(***************************************************************************)
(* thread.c, fork.c: creation and exit of a thread                         *)
(***************************************************************************)

\* td_alloc() of td_fork: without a free thread the kernel panics.
TdAllocFail(c) ==
    /\ InUser(c)
    /\ qlock["freeq"] = None /\ freeq = <<>>
    /\ machine' = "panic"
    /\ UNCHANGED <<cpuVars, threadVars, lockVars, mutexVars, queueVars>>

TdAlloc(c) ==
    /\ InUser(c)
    /\ qlock["freeq"] = None /\ freeq # <<>>
    /\ qlock' = [qlock EXCEPT !["freeq"] = c]
    /\ Goto(c, "ta_td")
    /\ UNCHANGED <<running, idle, chan, td, pos, ready, threadVars, tdLock, mtxLo,
                   mutexVars, queueVars, machine>>

\* The first free thread is locked, taken out and initialised; td_fork makes it RUNNABLE.
TdAllocTd(c) ==
    /\ At(c, "ta_td")
    /\ LET t == Head(freeq) IN
       /\ tdLock[t] = None
       /\ tdLock' = [tdLock EXCEPT ![t] = c]
       /\ td' = [td EXCEPT ![c] = t]
       /\ status' = [status EXCEPT ![t] = "RUNNABLE"]
       /\ wchan' = [wchan EXCEPT ![t] = None]
       /\ ctx' = [ctx EXCEPT ![t] = [pc |-> "first", chan |-> None]]
    /\ freeq' = Tail(freeq)
    /\ qlock' = [qlock EXCEPT !["freeq"] = None]
    /\ Goto(c, "fk_runq")
    /\ UNCHANGED <<running, idle, chan, pos, ready, mtxLo, mutexVars, runq, sleepq, tseq, machine>>

\* td_fork: the child enters the run queue, then its lock is released.
ForkRunq(c) ==
    /\ At(c, "fk_runq")
    /\ qlock["runq"] = None
    /\ runq' = Append(runq, td[c])
    /\ tdLock' = [tdLock EXCEPT ![td[c]] = None]
    /\ td' = [td EXCEPT ![c] = None]
    /\ Goto(c, "user")
    /\ UNCHANGED <<running, idle, chan, pos, ready, threadVars, qlock, mtxLo, mutexVars,
                   sleepq, freeq, tseq, machine>>

\* The end of td_destroy(): td_free() under td_lock ...
Exit(c) ==
    /\ InUser(c)
    /\ LET t == running[c] IN
       /\ tdLock[t] = None
       /\ tdLock' = [tdLock EXCEPT ![t] = c]
       /\ status' = [status EXCEPT ![t] = "UNUSED"]
    /\ Goto(c, "ex_free")
    /\ UNCHANGED <<running, idle, chan, td, pos, ready, wchan, ctx, qlock, mtxLo,
                   mutexVars, queueVars, machine>>

\* ... which puts the thread in the free queue before its CPU has left it.
ExitFree(c) ==
    /\ At(c, "ex_free")
    /\ qlock["freeq"] = None
    /\ freeq' = Append(freeq, running[c])
    /\ Goto(c, "schedule")
    /\ UNCHANGED <<running, idle, chan, td, pos, ready, threadVars, lockVars, mutexVars,
                   runq, sleepq, tseq, machine>>

-----------------------------------------------------------------------------
\* cpu_halt() and _error() never return.
Stopped == machine # "up" /\ UNCHANGED vars

CpuStep(c) ==
    \/ Yield(c) \/ Schedule(c) \/ SrEnter(c) \/ SrHalt(c) \/ SrIdle(c) \/ IdleLeave(c)
    \/ Pick(c) \/ Resume(c)
    \/ SleepEnter(c) \/ SleepTd(c) \/ SleepReturn(c)
    \/ RelockClaim(c) \/ RelockSleep(c) \/ RelockTimed(c)
    \/ WakeEnter(c) \/ WakeSkip(c) \/ WakeTake(c) \/ WakeDoneMutex(c) \/ WakeDoneTimed(c)
    \/ \E m \in Mutexes : MtxLockSleep(c, m)
    \/ \E m \in Mutexes : MtxUnlockSleep(c, m)
    \/ NanoSleep(c) \/ TimerInt(c) \/ TcExpire(c) \/ TcDone(c)
    \/ TdAllocFail(c) \/ TdAlloc(c) \/ TdAllocTd(c) \/ ForkRunq(c) \/ Exit(c) \/ ExitFree(c)

Next == (\E c \in Cpus : CpuStep(c)) \/ Stopped

Spec == Init /\ [][Next]_vars

\* The steps of a kernel path once entered, as opposed to what the running
\* program asks for: those of scheduling, sleeping and the sleep mutex ...
ThreadPath(c) ==
    \/ At(c, "yield") /\ Yield(c)
    \/ Schedule(c) \/ SrEnter(c) \/ SrHalt(c) \/ SrIdle(c) \/ IdleLeave(c) \/ Pick(c) \/ Resume(c)
    \/ SleepEnter(c) \/ SleepTd(c) \/ SleepReturn(c)
    \/ RelockClaim(c) \/ RelockSleep(c) \/ RelockTimed(c)
    \/ TdAllocTd(c) \/ ForkRunq(c) \/ ExitFree(c)
    \/ \E m \in Mutexes : MtxUnlockSleep(c, m)

\* ... and those of wakeup and the timer interrupt.
WakePath(c) ==
    WakeEnter(c) \/ WakeSkip(c) \/ WakeTake(c) \/ WakeDoneMutex(c) \/ WakeDoneTimed(c) \/ TcDone(c)

\* A kernel path does not stop (cpu_idle() and the sections inside a mutex are
\* bounded) and a CPU spinning on a lock that is released again and again gets
\* it; the timer keeps interrupting idle CPUs and user code.
Fairness ==
    \A c \in Cpus : SF_vars(ThreadPath(c)) /\ SF_vars(WakePath(c)) /\ SF_vars(TimerInt(c))

\* Time passes: an expired timeout at the head of the queue is found expired.
TimePasses == \A c \in Cpus : SF_vars(TcExpire(c))

FairSpec == Spec /\ Fairness
TimedSpec == FairSpec /\ TimePasses

-----------------------------------------------------------------------------
(***************************************************************************)
(* Properties                                                              *)
(***************************************************************************)
InSeq(t, s) == \E i \in 1..Len(s) : s[i] = t
NoDup(s) == \A i, j \in 1..Len(s) : s[i] = s[j] => i = j

CpuTypes ==
    /\ pc \in [Cpus -> Locations]
    /\ running \in [Cpus -> Threads \cup {None}]
    /\ idle \in [Cpus -> BOOLEAN]
    /\ chan \in [Cpus -> Chans \cup {None}]
    /\ td \in [Cpus -> Threads \cup {None}]
    /\ pos \in [Cpus -> Nat \ {0}]
    /\ ready \in [Cpus -> Seq(Threads)]
    /\ machine \in {"up", "halted", "panic"}
ThreadTypes ==
    /\ status \in [Threads -> Statuses]
    /\ wchan \in [Threads -> Chans \cup {None}]
    /\ ctx \in [Threads -> [pc : ResumePoints, chan : Chans \cup {None}]]
LockTypes ==
    /\ qlock \in [Queues -> Cpus \cup {None}]
    /\ tdLock \in [Threads -> Cpus \cup {None}]
    /\ mtxLo \in [Mutexes -> Cpus \cup {None}]
MutexTypes ==
    /\ owner \in [Mutexes -> Threads \cup {None}]
    /\ depth \in [Mutexes -> 0..MaxDepth]
QueueTypes ==
    /\ runq \in Seq(Threads) /\ sleepq \in Seq(Threads)
    /\ freeq \in Seq(Threads) /\ tseq \in Seq(Threads)

TypeOK == CpuTypes /\ ThreadTypes /\ LockTypes /\ MutexTypes /\ QueueTypes

\* The parts of the code in which CPU c owns each lock.
InCritical(c, q) ==
    \/ q = "runq"   /\ pc[c] = "sr_loop"
    \/ q = "sleepq" /\ pc[c] \in {"sl_td", "wk_scan"}
    \/ q = "freeq"  /\ pc[c] = "ta_td"
    \/ q = "tseq"   /\ pc[c] = "tc_loop"
    \/ q = "tseq"   /\ chan[c] \in Threads /\ pc[c] \in {"sl_enter", "wk_enter", "wk_scan"}
InMutex(c, m) == chan[c] = m /\ pc[c] \in {"sl_enter", "wk_enter", "wk_scan"}
InThread(c, t) ==
    \/ running[c] = t /\ pc[c] \in {"schedule", "ex_free", "first", "yielded", "slept", "dead"}
    \/ td[c] = t /\ pc[c] \in {"sr_enter", "fk_runq"}

QueueLocks == \A c \in Cpus, q \in Queues : qlock[q] = c <=> InCritical(c, q)
MutexLocks == \A c \in Cpus, m \in Mutexes : mtxLo[m] = c <=> InMutex(c, m)
ThreadLocks == \A c \in Cpus, t \in Threads : tdLock[t] = c <=> InThread(c, t)

\* Every spinlock is owned by exactly the CPU whose control point lies in its
\* critical section: no path of sched.c, sleep.c, mutex.c, tsleep.c or
\* thread.c leaks a lock, releases one it lost, or shares one.
LockDiscipline == QueueLocks /\ MutexLocks /\ ThreadLocks

\* The checks at the head of schedule(): the running thread's td_lock is the
\* only lock its CPU holds, and the thread is no longer RUNNING.
ScheduleEntry ==
    \A c \in Cpus : pc[c] = "schedule" =>
        /\ tdLock[running[c]] = c
        /\ status[running[c]] # "RUNNING"
        /\ \A t \in Threads : tdLock[t] = c => t = running[c]
        /\ \A q \in Queues : qlock[q] # c
        /\ \A m \in Mutexes : mtxLo[m] # c

\* Hand-off: a thread found in a queue with its td_lock free has been left by
\* the CPU that ran it, its context is saved, and it can be switched to (or
\* its control block reused) by another CPU.  No thread runs on two CPUs.
HandOff ==
    /\ \A c, d \in Cpus : running[c] = running[d] /\ running[c] # None => c = d
    /\ \A t \in Threads :
          (InSeq(t, runq) \/ InSeq(t, sleepq) \/ InSeq(t, freeq)) /\ tdLock[t] = None
              => \A c \in Cpus : running[c] # t /\ td[c] # t
    /\ \A t \in Threads : InSeq(t, runq) => status[t] = "RUNNABLE" /\ ctx[t].pc # "dead"

\* wakeup() asserts that what it finds in the sleep queue is SLEEPING, and no
\* thread is ever linked twice or in two queues.
QueuesExact ==
    /\ NoDup(runq) /\ NoDup(sleepq) /\ NoDup(freeq) /\ NoDup(tseq)
    /\ \A t \in Threads :
          /\ InSeq(t, sleepq) <=> status[t] = "SLEEPING"
          /\ InSeq(t, freeq) => status[t] = "UNUSED"
          /\ InSeq(t, runq) => \A c \in Cpus : ~InSeq(t, ready[c])

\* CPU c is between the decision to wake channel ch and the end of its scan.
Waking(c, ch) == pc[c] \in {"wk_enter", "wk_scan"} /\ chan[c] = ch

\* No wakeup is lost: a thread asleep on a mutex always has someone who will
\* wake it, an owner other than itself or a wakeup() that has not finished its
\* scan; a thread in a timed sleep has its event queued or being expired.
NoLostWakeup ==
    \A t \in Threads : status[t] = "SLEEPING" =>
        /\ wchan[t] \in Mutexes =>
              \/ owner[wchan[t]] \notin {None, t}
              \/ \E c \in Cpus : Waking(c, wchan[t])
        /\ wchan[t] \in Threads =>
              \/ InSeq(t, tseq)
              \/ \E c \in Cpus : Waking(c, wchan[t])

\* tse_free() asserts that a timeout event is no longer queued when its
\* thread returns from the timed sleep.
EventUnlinked ==
    \A c \in Cpus : pc[c] = "relock" /\ chan[c] \in Threads => ~InSeq(running[c], tseq)

\* "No thread alive, halt": the machine halts only when every thread has been
\* freed, in particular never while a woken thread is on its way from the
\* sleep queue to the run queue.
HaltOnlyWhenDone ==
    machine = "halted" => \A t \in Threads : status[t] = "UNUSED"

\* Every thread that is ready to run gets a CPU (the run queue is a FIFO fed
\* at its tail), unless the machine stops.
ReadyRuns ==
    \A t \in Threads : status[t] = "RUNNABLE" ~> (status[t] = "RUNNING" \/ machine # "up")

\* Every timed sleep ends, if its event is not overtaken by events with
\* earlier deadlines for ever (deadlines are finite and time advances).
Overtaken(t) ==
    \E i \in 1..Len(tseq) : tseq[i] = t /\ Len(tseq') > Len(tseq) /\ tseq'[i] # t
TimedSleepEnds ==
    \A t \in Threads :
        <>[][~Overtaken(t)]_vars =>
            ((status[t] = "SLEEPING" /\ wchan[t] = t) ~> (status[t] # "SLEEPING" \/ machine # "up"))

-----------------------------------------------------------------------------
(***************************************************************************)
(* Refinement.  A mutex is released, for its users, when wakeup() has the  *)
(* sleep queue: until then its spinlock keeps everyone out.  A thread is   *)
(* blocked once sleep() has the sleep queue, and no longer once a wakeup() *)
(* of its channel has it.                                                  *)
(***************************************************************************)
ownerBar ==
    [m \in Mutexes |->
        IF \E c \in Cpus : pc[c] = "wk_enter" /\ chan[c] = m
        THEN running[CHOOSE c \in Cpus : pc[c] = "wk_enter" /\ chan[c] = m]
        ELSE owner[m]]

Scanning(ch) == \E c \in Cpus : pc[c] = "wk_scan" /\ chan[c] = ch

BlockedOn(t, ch) ==
    \/ InSeq(t, sleepq) /\ wchan[t] = ch
    \/ \E c \in Cpus : pc[c] = "sl_td" /\ running[c] = t /\ chan[c] = ch

waitingBar ==
    [ch \in Chans |-> IF Scanning(ch) THEN {} ELSE {t \in Threads : BlockedOn(t, ch)}]

M == INSTANCE Monitor WITH owner <- ownerBar, waiting <- waitingBar

\* The thread layer implements the atomic monitor: with spinlocks released in
\* the middle of sleep() and wakeup(), no interleaving of CPUs shows more
\* than an atomic block, release-and-wake or timeout.
ImplementsMonitor == M!Spec

=============================================================================
