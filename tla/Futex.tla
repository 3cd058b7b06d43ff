------------------------------- MODULE Futex --------------------------------
(***************************************************************************)
(* Futexes (kern/futex) on top of timed sleep (kern/proc/tsleep.c), with   *)
(* nanosleep() as the other user of the timer list.                        *)
(*                                                                         *)
(* Two locks matter: fe_usedq.ftxq_lock covers the futex calls, the lock   *)
(* of tsevent_usedq the timer list.  futex_wait() gives the second one up  *)
(* before it sleeps ("window") and holds the first one until then.         *)
(***************************************************************************)
EXTENDS Naturals, Sequences, FiniteSets, SequencesExt

CONSTANTS
    Threads, Addrs, Vals,
    Counts,     \* the counts programs give to FUTEX_WAKE and FUTEX_REQUEUE
    Blocks,     \* futexevents[FUTEXEVENTS_MAX]
    Timeouts,   \* the timeouts programs give to FUTEX_WAIT; 0 is none
    MaxTime,    \* bound on the clock
    NULL

ASSUME BlocksAssumption == Cardinality(Blocks) >= Cardinality(Threads) /\ NULL \notin Blocks
ASSUME TimeAssumption == MaxTime \in Nat /\ Timeouts \subseteq Nat

VARIABLES
    mem,
    fe_usedq,       \* sequence of blocks; the others are in fe_freeq
    fe,             \* a block's ftx_upaddr and ftx_waiterpid
    tsevent_usedq,  \* the timer list.  A thread has at most one event, which
    tse,            \* is named after it here: tse_wchan and tse_wakeus
    now,            \* time_mono_us()
    pc,
    chan            \* what the thread sleeps on: a block, or itself

vars == <<mem, fe_usedq, fe, tsevent_usedq, tse, now, pc, chan>>
futexVars == <<fe_usedq, fe>>
timerVars == <<tsevent_usedq, tse>>

ZeroBlock == [addr |-> NULL, td |-> NULL]
TIMEDOUT == "timed out"     \* (void *)-1

Init ==
    /\ mem \in [Addrs -> Vals]
    /\ fe_usedq = <<>>
    /\ fe = [b \in Blocks |-> ZeroBlock]
    /\ tsevent_usedq = <<>>
    /\ tse = [t \in Threads |-> [wchan |-> NULL, wakeus |-> 0]]
    /\ now = 0
    /\ pc = [t \in Threads |-> "user"]
    /\ chan = [t \in Threads |-> NULL]

\* fe_usedq.ftxq_lock is kept over the window of futex_wait().
FeLocked == \E t \in Threads : pc[t] = "window"
Enters(t) == pc[t] = "user" /\ ~FeLocked

(***************************************************************************)
(* tsleep.c                                                                *)
(***************************************************************************)
\* tse_alloc(): in front of the first event that is later or never due.
Later(t, wakeus) == tse[t].wakeus > wakeus \/ tse[t].wakeus = 0
Place_Last(wakeus) == Len(tsevent_usedq) + 1
Place(wakeus) ==
    LET n == SelectInSeq(tsevent_usedq, LAMBDA t : Later(t, wakeus))
    IN  IF wakeus = 0 \/ n = 0 THEN Len(tsevent_usedq) + 1 ELSE n

TseAlloc(t, c, wakeus) ==
    /\ tsevent_usedq' = InsertAt(tsevent_usedq, Place(wakeus), t)
    /\ tse' = [tse EXCEPT ![t] = [wchan |-> c, wakeus |-> wakeus]]
    /\ chan' = [chan EXCEPT ![t] = c]

\* tse_set_unused() of some threads' events.
SetUnused(ts, w) ==
    /\ tsevent_usedq' = SelectSeq(tsevent_usedq, LAMBDA t : t \notin ts)
    /\ tse' = [t \in Threads |-> IF t \in ts THEN [tse[t] EXCEPT !.wchan = w] ELSE tse[t]]

\* wakeup() of some channels: only sleeping threads are there to be woken.
Wakeup(cs) == pc' = [t \in Threads |-> IF pc[t] = "asleep" /\ chan[t] \in cs THEN "woken" ELSE pc[t]]

\* tsleep_check(), at a timer interrupt: the expired prefix of the list.
Expired ==
    LET n == SelectInSeq(tsevent_usedq, LAMBDA t : Later(t, now))
    IN  IF n = 0 THEN Range(tsevent_usedq) ELSE Range(SubSeq(tsevent_usedq, 1, n - 1))

TsleepCheck ==
    /\ Expired # {}
    /\ SetUnused(Expired, TIMEDOUT)
    /\ Wakeup({tse[t].wchan : t \in Expired})
    /\ UNCHANGED <<mem, futexVars, now, chan>>

\* sys_nanosleep(): tsleep() without a mutex holds the list's lock until the
\* thread is in the sleep queue.
Nanosleep(t, d) ==
    /\ pc[t] = "user" /\ d > 0 /\ now + d <= MaxTime
    /\ TseAlloc(t, t, now + d)
    /\ pc' = [pc EXCEPT ![t] = "asleep"]
    /\ UNCHANGED <<mem, futexVars, now>>

\* The end of tsleep(): tse_free(), then back to the caller.
SleepReturn(t) ==
    /\ pc[t] = "woken"
    /\ chan[t] \in Blocks => ~FeLocked
    /\ pc' = [pc EXCEPT ![t] = "user"]
    /\ tse' = [tse EXCEPT ![t] = [wchan |-> NULL, wakeus |-> 0]]
    /\ chan' = [chan EXCEPT ![t] = NULL]
    /\ UNCHANGED <<mem, futexVars, tsevent_usedq, now>>

(***************************************************************************)
(* Futex calls                                                             *)
(***************************************************************************)
Store(t, a, v) ==
    /\ pc[t] = "user"
    /\ mem' = [mem EXCEPT ![a] = v]
    /\ UNCHANGED <<futexVars, timerVars, now, pc, chan>>

\* A block is queued before the word is read; on a mismatch (-EAGAIN) it is
\* freed again at once, which leaves no trace.
FutexWait(t, a, v, timeout) ==
    LET b == CHOOSE x \in Blocks : x \notin Range(fe_usedq) IN   \* free blocks are all zero
    /\ Enters(t) /\ Range(fe_usedq) # Blocks       \* else futexevent_alloc() asserts
    /\ timeout > 0 => now + timeout <= MaxTime
    /\ mem[a] = v
    /\ fe_usedq' = Append(fe_usedq, b)
    /\ fe' = [fe EXCEPT ![b] = [addr |-> a, td |-> t]]
    /\ TseAlloc(t, b, IF timeout = 0 THEN 0 ELSE now + timeout)
    /\ pc' = [pc EXCEPT ![t] = "window"]
    /\ UNCHANGED <<mem, now>>

FutexSleep(t) ==
    /\ pc[t] = "window"
    /\ pc' = [pc EXCEPT ![t] = "asleep"]
    /\ UNCHANGED <<mem, futexVars, timerVars, now, chan>>

\* futexevent_free_and_wake() of some blocks: twakeup() clears the timers of
\* their channels and wakes the sleepers.
FreeAndWake_KeepsQueue(bs) ==
    /\ fe_usedq' = fe_usedq
    /\ SetUnused({t \in Range(tsevent_usedq) : tse[t].wchan \in bs}, NULL)
    /\ Wakeup(bs)

FreeAndWake(bs) ==
    /\ fe_usedq' = SelectSeq(fe_usedq, LAMBDA b : b \notin bs)
    /\ SetUnused({t \in Range(tsevent_usedq) : tse[t].wchan \in bs}, NULL)
    /\ Wakeup(bs)

Waiters_Newest(a) == Reverse(SelectSeq(fe_usedq, LAMBDA b : fe[b].addr = a))
Waiters(a) == SelectSeq(fe_usedq, LAMBDA b : fe[b].addr = a)
FirstOf(s, n) == Range(SubSeq(s, 1, IF n < Len(s) THEN n ELSE Len(s)))

\* haswake is compared with wakecnt after it was incremented: 0 wakes all.
ToWake(a, n) == IF n = 0 THEN Range(Waiters(a)) ELSE FirstOf(Waiters(a), n)

FutexWake(t, a, n) ==
    /\ Enters(t)
    /\ FreeAndWake(ToWake(a, n))
    /\ fe' = [b \in Blocks |-> IF b \in ToWake(a, n) THEN ZeroBlock ELSE fe[b]]
    /\ UNCHANGED <<mem, now, chan>>

FutexRequeue(t, src, dst, n) ==
    LET woken == FirstOf(Waiters(src), n) IN
    /\ Enters(t)
    /\ FreeAndWake(woken)
    /\ fe' = [b \in Blocks |-> CASE b \in woken -> ZeroBlock
                                [] b \in Range(Waiters(src)) \ woken -> [fe[b] EXCEPT !.addr = dst]
                                [] OTHER -> fe[b]]
    /\ UNCHANGED <<mem, now, chan>>

Clock == now < MaxTime /\ now' = now + 1 /\ UNCHANGED <<mem, futexVars, timerVars, pc, chan>>

Next ==
    \/ Clock \/ TsleepCheck
    \/ \E t \in Threads :
          \/ FutexSleep(t) \/ SleepReturn(t)
          \/ \E d \in 1..MaxTime : Nanosleep(t, d)
          \/ \E a \in Addrs, v \in Vals : Store(t, a, v)
          \/ \E a \in Addrs, v \in Vals, timeout \in Timeouts : FutexWait(t, a, v, timeout)
          \/ \E a \in Addrs, n \in Counts : FutexWake(t, a, n)
          \/ \E a, b \in Addrs, n \in Counts : FutexRequeue(t, a, b, n)

\* Time passes, the timer interrupt comes, and runnable threads run.
Fairness == /\ WF_vars(Clock) /\ WF_vars(TsleepCheck)
            /\ \A t \in Threads : WF_vars(FutexSleep(t)) /\ WF_vars(SleepReturn(t))
Spec == Init /\ [][Next]_vars /\ Fairness

(***************************************************************************)
(* Properties                                                              *)
(***************************************************************************)
InFutexWait(t) == pc[t] \in {"window", "asleep"} /\ chan[t] \in Blocks

\* The used queue holds one block for each thread in futex_wait() and no other,
\* so a wake is never spent on a thread that is not waiting any more.
WaitersExact ==
    /\ \A i, j \in DOMAIN fe_usedq : i # j => fe[fe_usedq[i]].td # fe[fe_usedq[j]].td
    /\ {fe[b].td : b \in Range(fe_usedq)} = {t \in Threads : InFutexWait(t)}
    /\ \A b \in Range(fe_usedq) : chan[fe[b].td] = b

\* The futex calls implement the queue of Waiters: no wake is lost between the
\* test of the word and the sleep, and the longest waiting thread goes first.
Spec_Waiters == INSTANCE Waiters WITH
    queue <- [i \in DOMAIN fe_usedq |-> [td |-> fe[fe_usedq[i]].td, addr |-> fe[fe_usedq[i]].addr]]
ImplementsWaiters == Spec_Waiters!Spec

\* nanosleep() ends: the timer list stays in an order in which tsleep_check()
\* finds every expired event, although untimed futex waits share the list.
NanosleepEnds == \A t \in Threads : (pc[t] = "asleep" /\ chan[t] = t) ~> (pc[t] = "user")
=============================================================================
