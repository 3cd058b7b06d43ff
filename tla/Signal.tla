------------------------------- MODULE Signal -------------------------------
(***************************************************************************)
(* Signals within one process: sending (sigsend.c), the event pool and the *)
(* actions (sigevent.c, sigqueue.c), the check on the way back to user     *)
(* mode, nested handlers and sigreturn (sigentry.c, siginfo.c), and the    *)
(* system calls of sys_signal.c.                                           *)
(*                                                                         *)
(* A step is one section under td_lock.  The user context (td_trapframe) is *)
(* the stack of the handlers a thread is running, innermost first.         *)
(***************************************************************************)
EXTENDS Naturals, Sequences, SequencesExt

CONSTANTS
    ThreadList,     \* p_threads at the start, in list order
    Senders,        \* threads of other processes that send signals to this one
    Signals, SIGKILL,
    Fatal,          \* the signals whose default action ends the thread
    Events,         \* sigevents[NSIGEVENTS]
    SigActions(_),  \* the actions programs register for a signal: records with
                    \* handler (is there one?), mask, siginfo
    Masks,          \* the masks programs give to sigprocmask() and sigsuspend()
    Calls(_),       \* the system calls a thread's program makes
    NULL

Threads == Range(ThreadList)
Actors == Threads \cup Senders
DFL == [handler |-> FALSE, mask |-> {}, siginfo |-> FALSE]

ASSUME SignalAssumption == SIGKILL \in Fatal /\ Fatal \subseteq Signals /\ NULL \notin Signals \cup Events

VARIABLES
    sigactions,     \* of the process, by signal
    sigevent_freeq, \* the pool, a list that is used as a stack
    se,             \* the event blocks
    td_sigqueue, td_sig, td_sigmask, td_cursigmask, td_killed,
    context,        \* td_trapframe: the handlers that are running
    pc, target,     \* where a thread is; the arguments of its tkill()
    machine         \* "up", or the assertion or bad address that stopped it

vars == <<sigactions, sigevent_freeq, se, td_sigqueue, td_sig, td_sigmask, td_cursigmask,
          td_killed, context, pc, target, machine>>
eventVars == <<sigevent_freeq, se, td_sigqueue>>
maskVars == <<td_sigmask, td_cursigmask>>

\* A zeroed event (sigevent_free() clears the block).
ZeroEvent == [signo |-> NULL, processing |-> FALSE, restoretf |-> <<>>, restoremask |-> {}, uuctx |-> NULL]

Init ==
    /\ sigactions = [s \in Signals |-> DFL]
    /\ sigevent_freeq = SetToSeq(Events)
    /\ se = [e \in Events |-> ZeroEvent]
    /\ td_sigqueue = [t \in Threads |-> <<>>]
    /\ td_sig = [t \in Threads |-> NULL]
    /\ td_sigmask = [t \in Threads |-> {}]
    /\ td_cursigmask = [t \in Threads |-> {}]
    /\ td_killed = [t \in Threads |-> FALSE]
    /\ context = [t \in Threads |-> <<>>]
    /\ pc = [t \in Actors |-> "user"]
    /\ target = [t \in Actors |-> NULL]
    /\ machine = "up"

At(t, l) == machine = "up" /\ pc[t] = l
Goto(t, l) == pc' = [pc EXCEPT ![t] = l]
Panic(why) == machine' = why
\* A sender of another process returns to user mode through signals of its own.
Return(t) == IF t \in Senders THEN "user" ELSE "kernel"
Alive(t) == pc[t] \notin {"dangling", "free"}

(***************************************************************************)
(* Sending                                                                 *)
(***************************************************************************)
sig_td_canhandle(t, s) == s \notin td_sigmask[t] \cup td_cursigmask[t]

\* sigevent_alloc() and sigeventq_insert(): the newest event comes first.
Queue(t, s) ==
    LET e == Head(sigevent_freeq) IN
    /\ sigevent_freeq' = Tail(sigevent_freeq)
    /\ se' = [se EXCEPT ![e].signo = s]
    /\ td_sigqueue' = [td_sigqueue EXCEPT ![t] = <<e>> \o @]

\* wakeup_td(): a thread that is not asleep is left alone.
WakeupTd(u) == IF pc[u] = "asleep" THEN [pc EXCEPT ![u] = "kernel"] ELSE pc

\* sig_send_proc(): the first thread that can handle the signal, else the first.
Receiver(s) ==
    LET threads == SelectSeq(ThreadList, Alive)
        able == SelectSeq(threads, LAMBDA t : sig_td_canhandle(t, s))
    IN  Head(able \o threads)

\* sys_kill(): proc_lock and td_lock are held from the choice to the wakeup.
Kill(t, s) ==
    LET u == Receiver(s) IN
    /\ At(t, "user") /\ \E v \in Threads : Alive(v)
    /\ IF sigevent_freeq = <<>>
       THEN Panic("sigevent_alloc") /\ UNCHANGED <<eventVars, td_killed, pc>>
       ELSE /\ Queue(u, s)
            /\ td_killed' = [td_killed EXCEPT ![u] = @ \/ s = SIGKILL]
            /\ pc' = IF s = SIGKILL THEN WakeupTd(u) ELSE pc
            /\ UNCHANGED machine
    /\ UNCHANGED <<sigactions, td_sig, maskVars, context, target>>

\* sys_tkill() compares td_tid without a lock; sig_send_td() queues the event,
\* then sets td_killed, then wakes the thread: four critical sections.
TkillTest(t, u, s) ==
    /\ At(t, "user") /\ pc[u] # "free"
    /\ Goto(t, "tkill_queue")
    /\ target' = [target EXCEPT ![t] = [td |-> u, signo |-> s]]
    /\ UNCHANGED <<sigactions, eventVars, td_sig, maskVars, td_killed, context, machine>>

TkillQueue(t) ==
    /\ At(t, "tkill_queue")
    /\ IF sigevent_freeq = <<>>
       THEN Panic("sigevent_alloc") /\ UNCHANGED <<eventVars, pc, target>>
       ELSE /\ Queue(target[t].td, target[t].signo)
            /\ IF target[t].signo = SIGKILL THEN Goto(t, "tkill_mark") /\ UNCHANGED target
                                           ELSE Goto(t, Return(t)) /\ target' = [target EXCEPT ![t] = NULL]
            /\ UNCHANGED machine
    /\ UNCHANGED <<sigactions, td_sig, maskVars, td_killed, context>>

TkillMark(t) ==
    /\ At(t, "tkill_mark")
    /\ td_killed' = [td_killed EXCEPT ![target[t].td] = TRUE]
    /\ Goto(t, "tkill_wake")
    /\ UNCHANGED <<sigactions, eventVars, td_sig, maskVars, context, target, machine>>

TkillWake(t) ==
    /\ At(t, "tkill_wake")
    /\ pc' = [WakeupTd(target[t].td) EXCEPT ![t] = Return(t)]
    /\ target' = [target EXCEPT ![t] = NULL]
    /\ UNCHANGED <<sigactions, eventVars, td_sig, maskVars, td_killed, context, machine>>

(***************************************************************************)
(* utrap_return() -> sig_check()                                           *)
(***************************************************************************)
Processing(e) == se[e].processing

\* The events sig_getse() can reach before the handler that is running.
Reachable(t) ==
    LET q == td_sigqueue[t]
        n == SelectInSeq(q, Processing)
        fresh == IF n = 0 THEN q ELSE SubSeq(q, 1, n - 1)
    IN  SelectSeq(fresh, LAMBDA e : sig_td_canhandle(t, se[e].signo))

\* What sig_check() drops: no handler and no fatal default.
Ignored(e) == ~sigactions[se[e].signo].handler /\ se[e].signo \notin Fatal

Free(t, es) ==
    /\ td_sigqueue' = [td_sigqueue EXCEPT ![t] = SelectSeq(@, LAMBDA e : ~Contains(es, e))]
    /\ sigevent_freeq' = Reverse(es) \o sigevent_freeq

\* siginfo_set() also saves td_sigmask, in the user's ucontext.
sig_beforestart_MaskReplaced(t, e) ==
    LET sa == sigactions[se[e].signo] IN
    /\ td_sig' = [td_sig EXCEPT ![t] = e]
    /\ td_cursigmask' = [td_cursigmask EXCEPT ![t] = sa.mask]
    /\ context' = [context EXCEPT ![t] = <<[signo |-> se[e].signo, mask |-> sa.mask]>> \o @]

sig_beforestart(t, e) ==
    LET sa == sigactions[se[e].signo] IN
    /\ td_sig' = [td_sig EXCEPT ![t] = e]
    /\ td_cursigmask' = [td_cursigmask EXCEPT ![t] = @ \cup sa.mask]
    /\ context' = [context EXCEPT ![t] = <<[signo |-> se[e].signo, mask |-> sa.mask]>> \o @]

Started(t, e) ==
    [se[e] EXCEPT !.processing = TRUE, !.restoretf = context[t], !.restoremask = td_cursigmask[t],
                  !.uuctx = IF sigactions[se[e].signo].siginfo THEN td_sigmask[t] ELSE NULL]

\* The loop runs under td_lock: it drops ignored events until one has a
\* handler, one is fatal, or none is left.
SigCheck(t) ==
    LET q == Reachable(t)
        n == SelectInSeq(q, LAMBDA e : ~Ignored(e))
        dropped == IF n = 0 THEN q ELSE SubSeq(q, 1, n - 1)
        cleared == [e \in Events |-> IF Contains(dropped, e) THEN ZeroEvent ELSE se[e]]
    IN
    /\ At(t, "kernel") /\ ~td_killed[t]
    /\ Free(t, dropped)
    /\ IF n = 0
       THEN /\ se' = cleared
            /\ Goto(t, "user")
            /\ UNCHANGED <<td_sig, td_cursigmask, context, td_killed>>
       ELSE IF ~sigactions[se[q[n]].signo].handler
       THEN /\ se' = cleared
            /\ td_killed' = [td_killed EXCEPT ![t] = TRUE]
            /\ UNCHANGED <<td_sig, td_cursigmask, context, pc>>
       ELSE /\ se' = [cleared EXCEPT ![q[n]] = Started(t, q[n])]
            /\ sig_beforestart(t, q[n])
            /\ Goto(t, "user")
            /\ UNCHANGED td_killed
    /\ UNCHANGED <<sigactions, td_sigmask, target, machine>>

SigExit_NotInHandler(t) ==
    /\ At(t, "kernel") /\ td_killed[t] /\ context[t] = <<>>
    /\ Goto(t, "dangling")
    /\ UNCHANGED <<sigactions, eventVars, td_sig, maskVars, td_killed, context, target, machine>>

\* sig_cancheck(): td_destroy() takes the thread off p_threads.
SigExit(t) ==
    /\ At(t, "kernel") /\ td_killed[t]
    /\ Goto(t, "dangling")
    /\ UNCHANGED <<sigactions, eventVars, td_sig, maskVars, td_killed, context, target, machine>>

\* td_free(): its events go back to the pool.
TdFree(t) ==
    /\ At(t, "dangling")
    /\ Free(t, td_sigqueue[t])
    /\ se' = [e \in Events |-> IF Contains(td_sigqueue[t], e) THEN ZeroEvent ELSE se[e]]
    /\ Goto(t, "free")
    /\ UNCHANGED <<sigactions, td_sig, maskVars, td_killed, context, target, machine>>

(***************************************************************************)
(* System calls                                                            *)
(***************************************************************************)
\* A timer interrupt, or a system call that is not modelled here.
Trap(t) ==
    /\ At(t, "user")
    /\ Goto(t, "kernel")
    /\ UNCHANGED <<sigactions, eventVars, td_sig, maskVars, td_killed, context, target, machine>>

SysSigaction(t, s, act) ==
    /\ At(t, "user")
    /\ sigactions' = [sigactions EXCEPT ![s] = act]
    /\ Goto(t, "kernel")
    /\ UNCHANGED <<eventVars, td_sig, maskVars, td_killed, context, target, machine>>

SysSigprocmask(t, how, set) ==
    /\ At(t, "user")
    /\ td_sigmask' = [td_sigmask EXCEPT ![t] = CASE how = "SIG_BLOCK" -> @ \cup set
                                                [] how = "SIG_UNBLOCK" -> @ \ set
                                                [] how = "SIG_SETMASK" -> set]
    /\ Goto(t, "kernel")
    /\ UNCHANGED <<sigactions, eventVars, td_sig, td_cursigmask, td_killed, context, target, machine>>

\* sys_sigreturn(), called by the trampoline when a handler ends: first
\* siginfo_return(), for the event td_sig points to, whatever it is by now.
SysSigreturn(t) ==
    LET e == td_sig[t] IN
    /\ At(t, "user") /\ context[t] # <<>>
    /\ CASE se[e].signo = NULL ->
              Panic("sigaction_get") /\ UNCHANGED <<td_sigmask, pc>>
         [] se[e].signo # NULL /\ ~sigactions[se[e].signo].siginfo ->
              Goto(t, "sigreturn") /\ UNCHANGED <<td_sigmask, machine>>
         [] se[e].signo # NULL /\ sigactions[se[e].signo].siginfo /\ se[e].uuctx = NULL ->
              Panic("copy_in") /\ UNCHANGED <<td_sigmask, pc>>
         [] se[e].signo # NULL /\ sigactions[se[e].signo].siginfo /\ se[e].uuctx # NULL ->
              /\ td_sigmask' = [td_sigmask EXCEPT ![t] = se[e].uuctx]
              /\ Goto(t, "sigreturn")
              /\ UNCHANGED machine
    /\ UNCHANGED <<sigactions, eventVars, td_sig, td_cursigmask, td_killed, context, target>>

\* sig_return(): the first event of the queue that is being processed.
Innermost_Oldest(t) == td_sigqueue[t][SelectLastInSeq(td_sigqueue[t], Processing)]
Innermost(t) == td_sigqueue[t][SelectInSeq(td_sigqueue[t], Processing)]

SigReturn_KeepsEvent(t) ==
    LET e == Innermost(t) IN
    /\ At(t, "sigreturn")
    /\ context' = [context EXCEPT ![t] = se[e].restoretf]
    /\ td_cursigmask' = [td_cursigmask EXCEPT ![t] = se[e].restoremask]
    /\ sigevent_freeq' = <<e>> \o sigevent_freeq
    /\ se' = [se EXCEPT ![e] = ZeroEvent]
    /\ Goto(t, "kernel")
    /\ UNCHANGED <<sigactions, td_sigqueue, td_sig, td_sigmask, td_killed, target, machine>>

SigReturn(t) ==
    LET e == Innermost(t) IN
    /\ At(t, "sigreturn")
    /\ context' = [context EXCEPT ![t] = se[e].restoretf]
    /\ td_cursigmask' = [td_cursigmask EXCEPT ![t] = se[e].restoremask]
    /\ Free(t, <<e>>)
    /\ se' = [se EXCEPT ![e] = ZeroEvent]
    /\ Goto(t, "kernel")
    /\ UNCHANGED <<sigactions, td_sig, td_sigmask, td_killed, target, machine>>

\* sys_sigsuspend(): replaces td_sigmask for good and polls with yield().
SysSigsuspend(t, set) ==
    /\ At(t, "user")
    /\ td_sigmask' = [td_sigmask EXCEPT ![t] = set]
    /\ Goto(t, "suspend")
    /\ UNCHANGED <<sigactions, eventVars, td_sig, td_cursigmask, td_killed, context, target, machine>>

\* sig_getse() also answers with the event of the handler that called.
SuspendPoll(t) ==
    /\ At(t, "suspend")
    /\ \/ Reachable(t) # <<>> /\ Goto(t, "kernel") /\ UNCHANGED machine
       \/ /\ Reachable(t) = <<>> /\ SelectInSeq(td_sigqueue[t], Processing) # 0
          /\ IF sig_td_canhandle(t, se[Innermost(t)].signo)
             THEN Goto(t, "kernel") /\ UNCHANGED machine
             ELSE Panic("sys_sigsuspend") /\ UNCHANGED pc
    /\ UNCHANGED <<sigactions, eventVars, td_sig, maskVars, td_killed, context, target>>

\* A read of an empty pipe: test td_killed, then sleep; what ends the sleep is
\* data, a timeout (sig_timedwait() sleeps the same way) or SIGKILL.
BlockTest(t) ==
    /\ At(t, "user")
    /\ Goto(t, IF td_killed[t] THEN "kernel" ELSE "blocking")
    /\ UNCHANGED <<sigactions, eventVars, td_sig, maskVars, td_killed, context, target, machine>>

BlockSleep(t) ==
    /\ At(t, "blocking")
    /\ Goto(t, "asleep")
    /\ UNCHANGED <<sigactions, eventVars, td_sig, maskVars, td_killed, context, target, machine>>

BlockEnd(t) ==
    /\ At(t, "asleep")
    /\ Goto(t, "kernel")
    /\ UNCHANGED <<sigactions, eventVars, td_sig, maskVars, td_killed, context, target, machine>>

Sending(t) == TkillQueue(t) \/ TkillMark(t) \/ TkillWake(t)
KernelPath(t) == \/ SigCheck(t) \/ SigExit(t) \/ TdFree(t) \/ SigReturn(t)
                 \/ SuspendPoll(t) \/ BlockSleep(t)

Next ==
    \/ \E t \in Actors :
          \/ Sending(t)
          \/ "kill" \in Calls(t) /\ \E s \in Signals : Kill(t, s)
          \/ "tkill" \in Calls(t) /\ \E u \in Threads, s \in Signals : TkillTest(t, u, s)
    \/ \E t \in Threads :
          \/ KernelPath(t) \/ Trap(t) \/ SysSigreturn(t) \/ BlockEnd(t)
          \/ "read" \in Calls(t) /\ BlockTest(t)
          \/ "sigaction" \in Calls(t) /\ \E s \in Signals : \E act \in SigActions(s) : SysSigaction(t, s, act)
          \/ "sigsuspend" \in Calls(t) /\ \E set \in Masks : SysSigsuspend(t, set)
          \/ "sigprocmask" \in Calls(t) /\ \E set \in Masks, how \in {"SIG_BLOCK", "SIG_UNBLOCK", "SIG_SETMASK"} :
                SysSigprocmask(t, how, set)

\* Kernel paths are never preempted; the timer interrupts user mode.
Fairness == /\ \A t \in Actors : WF_vars(Sending(t))
            /\ \A t \in Threads : WF_vars(KernelPath(t)) /\ WF_vars(Trap(t))
Spec == Init /\ [][Next]_vars /\ Fairness

(***************************************************************************)
(* Properties                                                              *)
(***************************************************************************)
\* Every handler returns to exactly what it interrupted: however handlers nest,
\* a step leaves the user context alone, pushes one handler or pops one.
ReturnsToInterrupted ==
    [][\A t \in Threads : \/ context'[t] = context[t]
                          \/ context'[t] # <<>> /\ Tail(context'[t]) = context[t]
                          \/ context[t] # <<>> /\ context'[t] = Tail(context[t])]_vars

\* No handler is interrupted by a signal of its sa_mask, and the mask of the
\* handlers is gone when the last one has returned.
HandlerMaskHonoured ==
    \A t \in Threads :
        /\ \A j \in DOMAIN context[t] : \A i \in 1..(j - 1) : context[t][i].signo \notin context[t][j].mask
        /\ context[t] = <<>> => td_cursigmask[t] = {}

\* Every event is in the pool or in one queue, in one place only, and the
\* running handlers are the events being processed, in queue order.
EventsConserved ==
    /\ \A e \in Events :
          Len(SelectSeq(sigevent_freeq \o FoldLeft(LAMBDA q, t : q \o td_sigqueue[t], <<>>, ThreadList),
                        LAMBDA x : x = e)) = 1
    /\ \A t \in Threads : pc[t] # "free" =>
          [i \in DOMAIN context[t] |-> context[t][i].signo] =
          LET running == SelectSeq(td_sigqueue[t], Processing)
          IN  [i \in DOMAIN running |-> se[running[i]].signo]

\* A killed thread exits, unless it blocks in a system call first: no other
\* signal and no handler keeps it alive.
KilledDies ==
    \A t \in Threads : td_killed[t] ~> (pc[t] \in {"free", "asleep"} \/ machine # "up")
=============================================================================
