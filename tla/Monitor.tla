------------------------------ MODULE Monitor ------------------------------
(***************************************************************************)
(* What sleep/wakeup, the sleep mutex and the timed sleep promise to the   *)
(* rest of the kernel: blocking and releasing are atomic.  A thread blocks *)
(* only on a mutex somebody else owns, and the release of a mutex leaves   *)
(* nobody blocked on it.                                                   *)
(***************************************************************************)
CONSTANTS Threads, Mutexes, None

VARIABLES
    owner,      \* the owner of each mutex
    waiting     \* the threads blocked on each channel

vars == <<owner, waiting>>

Chans == Mutexes \cup Threads

Awake(t) == \A ch \in Chans : t \notin waiting[ch]

Init ==
    /\ owner = [m \in Mutexes |-> None]
    /\ waiting = [ch \in Chans |-> {}]

\* mtx_lock_sleep of a free mutex
Acquire(t, m) ==
    /\ Awake(t) /\ owner[m] = None
    /\ owner' = [owner EXCEPT ![m] = t]
    /\ UNCHANGED waiting

\* mtx_lock_sleep of a mutex held by another thread
Block(t, m) ==
    /\ Awake(t) /\ owner[m] \notin {None, t}
    /\ waiting' = [waiting EXCEPT ![m] = @ \cup {t}]
    /\ UNCHANGED owner

\* the last mtx_unlock_sleep: the mutex is free and everyone is awake at once
Release(t, m) ==
    /\ Awake(t) /\ owner[m] = t
    /\ owner' = [owner EXCEPT ![m] = None]
    /\ waiting' = [waiting EXCEPT ![m] = {}]

\* nanosleep, on the thread's own channel, and the expiry of its timeout
TimedSleep(t) ==
    /\ Awake(t)
    /\ waiting' = [waiting EXCEPT ![t] = {t}]
    /\ UNCHANGED owner

Expire(t) ==
    /\ waiting[t] = {t}
    /\ waiting' = [waiting EXCEPT ![t] = {}]
    /\ UNCHANGED owner

Next ==
    \/ \E t \in Threads, m \in Mutexes : Acquire(t, m) \/ Block(t, m) \/ Release(t, m)
    \/ \E t \in Threads : TimedSleep(t) \/ Expire(t)

Spec == Init /\ [][Next]_vars

=============================================================================
