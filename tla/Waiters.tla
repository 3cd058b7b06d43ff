------------------------------ MODULE Waiters -------------------------------
(***************************************************************************)
(* What the futex calls promise (kern/futex/futex_interface.c): one queue  *)
(* of blocked threads, in order of arrival.  A thread enters it only while *)
(* the word has the expected value; a wake takes the longest waiting       *)
(* threads of a word and makes exactly those runnable.                     *)
(***************************************************************************)
EXTENDS Naturals, Sequences, FiniteSets

CONSTANTS Threads, Addrs, Vals, Counts

VARIABLES
    mem,    \* the futex words
    queue   \* the waiting threads: records with td and addr

vars == <<mem, queue>>

Init == mem \in [Addrs -> Vals] /\ queue = <<>>

Store(a, v) == mem' = [mem EXCEPT ![a] = v] /\ UNCHANGED queue

Wait(t, a, v) ==
    /\ \A i \in DOMAIN queue : queue[i].td # t
    /\ mem[a] = v
    /\ queue' = Append(queue, [td |-> t, addr |-> a])
    /\ UNCHANGED mem

\* The n longest waiting threads of word a.
Longest(a, n) ==
    {queue[i].td : i \in {j \in DOMAIN queue :
        queue[j].addr = a /\ Cardinality({k \in 1..j : queue[k].addr = a}) <= n}}
Everyone == Cardinality(Threads)
Without(tds) == SelectSeq(queue, LAMBDA w : w.td \notin tds)

\* A count of 0 wakes everyone.
Wake(a, n) ==
    /\ queue' = Without(Longest(a, IF n = 0 THEN Everyone ELSE n))
    /\ UNCHANGED mem

\* Here a count of 0 wakes no one; those who stay wait for dst from now on.
Requeue(src, dst, n) ==
    LET rest == Without(Longest(src, n)) IN
    /\ queue' = [i \in DOMAIN rest |-> IF rest[i].addr = src THEN [rest[i] EXCEPT !.addr = dst] ELSE rest[i]]
    /\ UNCHANGED mem

Next == \E a \in Addrs :
    \/ \E v \in Vals : Store(a, v) \/ \E t \in Threads : Wait(t, a, v)
    \/ \E n \in Counts : Wake(a, n) \/ \E b \in Addrs : Requeue(a, b, n)

Spec == Init /\ [][Next]_vars
=============================================================================
