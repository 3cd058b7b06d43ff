------------------------------- MODULE Spaces -------------------------------
(***************************************************************************)
(* What the memory system promises a program: an address space of its own, *)
(* zero where nothing was stored, copied by fork(), in which only shared   *)
(* memory segments are common with other processes.  While the kernel      *)
(* works for a process, its memory does not change.                        *)
(***************************************************************************)
CONSTANTS Procs, VAs, Vals, Segs, Zero, NULL

VARIABLES
    alive,
    user,   \* the processes that run their program
    view,   \* what a process reads at an address; NULL if nothing is mapped
    seg,    \* the segment it belongs to; NULL if it is private
    segval  \* what a segment holds; NULL if there is no such segment

vars == <<alive, user, view, seg, segval>>

Init ==
    /\ \E p \in Procs : alive = {p} /\ user = {p}
    /\ view = [p \in Procs |-> [va \in VAs |-> NULL]]
    /\ seg = [p \in Procs |-> [va \in VAs |-> NULL]]
    /\ segval = [s \in Segs |-> NULL]

Map(p, va) ==
    /\ p \in user /\ view[p][va] = NULL
    /\ view' = [view EXCEPT ![p][va] = Zero]
    /\ seg' = [seg EXCEPT ![p][va] = NULL]
    /\ UNCHANGED <<alive, user, segval>>

Unmap(p, va) ==
    /\ p \in user
    /\ view' = [view EXCEPT ![p][va] = NULL]
    /\ seg' = [seg EXCEPT ![p][va] = NULL]
    /\ UNCHANGED <<alive, user, segval>>

\* A private store is seen by nobody else, a shared one by all who share it.
Write(p, va, v) ==
    /\ p \in user /\ view[p][va] # NULL
    /\ IF seg[p][va] = NULL
       THEN view' = [view EXCEPT ![p][va] = v] /\ UNCHANGED segval
       ELSE /\ view' = [q \in Procs |-> [w \in VAs |-> IF seg[q][w] = seg[p][va] THEN v ELSE view[q][w]]]
            /\ segval' = [s \in Segs |-> IF s = seg[p][va] /\ segval[s] # NULL THEN v ELSE segval[s]]
    /\ UNCHANGED <<alive, user, seg>>

Enter(p) == p \in user /\ user' = user \ {p} /\ UNCHANGED <<alive, view, seg, segval>>
Return(p) == p \in alive /\ user' = user \cup {p} /\ UNCHANGED <<alive, view, seg, segval>>

Fork(p, q) ==
    /\ p \in alive \ user /\ q \notin alive
    /\ alive' = alive \cup {q} /\ user' = user \cup {p, q}
    /\ view' = [view EXCEPT ![q] = view[p]]
    /\ seg' = [seg EXCEPT ![q] = seg[p]]
    /\ UNCHANGED segval

Exit(p) ==
    /\ p \in user /\ alive' = alive \ {p} /\ user' = user \ {p}
    /\ view' = [view EXCEPT ![p] = [va \in VAs |-> NULL]]
    /\ seg' = [seg EXCEPT ![p] = [va \in VAs |-> NULL]]
    /\ UNCHANGED segval

Create(s) == segval[s] = NULL /\ segval' = [segval EXCEPT ![s] = Zero] /\ UNCHANGED <<alive, user, view, seg>>
Remove(s) == segval' = [segval EXCEPT ![s] = NULL] /\ UNCHANGED <<alive, user, view, seg>>

Attach(p, va, s) ==
    /\ p \in user /\ segval[s] # NULL
    /\ view' = [view EXCEPT ![p][va] = segval[s]]
    /\ seg' = [seg EXCEPT ![p][va] = s]
    /\ UNCHANGED <<alive, user, segval>>

Next ==
    \/ \E s \in Segs : Create(s) \/ Remove(s)
    \/ \E p \in Procs :
          \/ Enter(p) \/ Return(p) \/ Exit(p) \/ \E q \in Procs : Fork(p, q)
          \/ \E va \in VAs : \/ Map(p, va) \/ Unmap(p, va)
                             \/ \E v \in Vals : Write(p, va, v)
                             \/ \E s \in Segs : Attach(p, va, s)

Spec == Init /\ [][Next]_vars
=============================================================================
