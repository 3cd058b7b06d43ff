-------------------------------- MODULE Proc --------------------------------
(***************************************************************************)
(* Processes: fork and clone, the exit of threads, zombies, orphans and    *)
(* wait (kern/proc/proc.c, wait.c, thread.c, fork.c).                      *)
(*                                                                         *)
(* The actors are the threads.  A step is one critical section: wait() and *)
(* proc_destroy() run from mtx_lock(&wait_lock) to its release (sleep()    *)
(* gives it up atomically with blocking, which is what Monitor promises),  *)
(* the rest of td_destroy() and the clones under the process lock.         *)
(***************************************************************************)
EXTENDS Naturals, FiniteSets

CONSTANTS
    Procs,          \* the process control blocks, procs[NPROC]
    Threads,        \* the thread control blocks
    NULL,           \* the null pointer; as an argument of wait(): pid = -1
    InitProc,       \* the process with PID_INIT
    InitThread,     \* its first thread
    MaxThreads,     \* how many threads a program runs in one process at a time
    ConcurrentWait  \* do two threads of a process ever wait() at the same time?

ASSUME NullAssumption == NULL \notin Procs
ASSUME InitAssumption == InitProc \in Procs /\ InitThread \in Threads
ASSUME ProgramAssumption == MaxThreads \in Nat /\ ConcurrentWait \in BOOLEAN

VARIABLES
    \* per process; a block is in proc_freelist iff it is UNUSED
    p_status, p_parent, p_children, p_threads,
    \* per thread: its process, where it is, and the childp of wait()
    td_proc, pc, childp,
    machine

vars == <<p_status, p_parent, p_children, p_threads, td_proc, pc, childp, machine>>

Statuses == {"UNUSED", "USED", "ZOMBIE"}
\* "asleep": in sleep(td_proc, &wait_lock); "again": awake, wants wait_lock
\* back; "reaped": wait() returns childp; "leave" and "last": the two outcomes
\* of the last-thread test; "dangling": unlinked, about to enter td_free()
Waiting == {"asleep", "again"}
Locations == {"free", "user", "reaped", "leave", "last", "dangling"} \cup Waiting

Init ==
    /\ p_status = [p \in Procs |-> IF p = InitProc THEN "USED" ELSE "UNUSED"]
    /\ p_parent = [p \in Procs |-> NULL]
    /\ p_children = [p \in Procs |-> {}]
    /\ p_threads = [p \in Procs |-> IF p = InitProc THEN {InitThread} ELSE {}]
    /\ td_proc = [t \in Threads |-> IF t = InitThread THEN InitProc ELSE NULL]
    /\ pc = [t \in Threads |-> IF t = InitThread THEN "user" ELSE "free"]
    /\ childp = [t \in Threads |-> NULL]
    /\ machine = "up"

procVars == <<p_status, p_parent, p_children, p_threads>>
Goto(t, l) == pc' = [pc EXCEPT ![t] = l]
InUser(t) == machine = "up" /\ pc[t] = "user"

(***************************************************************************)
(* Creation.  An empty pool stops the machine (error()), so the model      *)
(* clones only while blocks are left.                                      *)
(***************************************************************************)
ProcAddTd(p, t) ==
    /\ p_threads' = [p_threads EXCEPT ![p] = @ \cup {t}]
    /\ td_proc' = [td_proc EXCEPT ![t] = p]
    /\ Goto(t, "user")

\* sys_clone() without CLONE_VM
ProcFork(t, c, u) ==
    /\ InUser(t) /\ p_status[c] = "UNUSED" /\ pc[u] = "free"
    /\ p_status' = [p_status EXCEPT ![c] = "USED"]
    /\ p_parent' = [p_parent EXCEPT ![c] = td_proc[t]]
    /\ p_children' = [p_children EXCEPT ![td_proc[t]] = @ \cup {c}]
    /\ ProcAddTd(c, u)
    /\ UNCHANGED <<childp, machine>>

\* sys_clone() with CLONE_VM
TdFork(t, u) ==
    /\ InUser(t) /\ pc[u] = "free"
    /\ Cardinality(p_threads[td_proc[t]]) < MaxThreads
    /\ ProcAddTd(td_proc[t], u)
    /\ UNCHANGED <<p_status, p_parent, p_children, childp, machine>>

(***************************************************************************)
(* Exit.  The test for the last thread and the removal from p_threads are  *)
(* two critical sections.                                                  *)
(***************************************************************************)
ExitTest(t) ==
    /\ InUser(t)
    /\ Goto(t, IF p_threads[td_proc[t]] = {t} THEN "last" ELSE "leave")
    /\ UNCHANGED <<procVars, td_proc, childp, machine>>

ExitLeave(t) ==
    /\ machine = "up" /\ pc[t] = "leave"
    /\ p_threads' = [p_threads EXCEPT ![td_proc[t]] = @ \ {t}]
    /\ Goto(t, "dangling")
    /\ UNCHANGED <<p_status, p_parent, p_children, td_proc, childp, machine>>

ZombieChildren(p) == {c \in p_children[p] : p_status[c] = "ZOMBIE"}

\* The threads wakeup(p) finds in wait(); t itself goes on to td_free().
Woken_Nobody(p, t) == [pc EXCEPT ![t] = "dangling"]
Woken(p, t) ==
    [u \in Threads |-> CASE u = t -> "dangling"
                         [] u # t /\ pc[u] = "asleep" /\ td_proc[u] = p -> "again"
                         [] OTHER -> pc[u]]

Notified_OrphansOnly(p) == p_parent[p] = InitProc
Notified(p) == p # InitProc /\ p_parent[p] # NULL

\* sig_send_proc(): SIGCHLD for a living process without threads is a panic.
NoThreadToSignal(p) == p_status[p] # "ZOMBIE" /\ p_threads[p] = {}

ProcDestroy_ForgetsChildren(p, t) ==
    /\ p_status' = [p_status EXCEPT ![p] = "ZOMBIE"]
    /\ pc' = IF Notified(p) THEN Woken(p_parent[p], t) ELSE [pc EXCEPT ![t] = "dangling"]
    /\ machine' = IF Notified(p) /\ NoThreadToSignal(p_parent[p]) THEN "panic" ELSE machine
    /\ UNCHANGED <<p_parent, p_children>>

\* Zombie children are freed; the others get init as their parent but are
\* not linked into its list.
ProcDestroy(p, t) ==
    LET dead == ZombieChildren(p) IN
    /\ p_status' = [q \in Procs |-> IF q = p THEN "ZOMBIE"
                                    ELSE IF q \in dead THEN "UNUSED" ELSE p_status[q]]
    /\ p_parent' = [q \in Procs |-> IF q \in dead THEN NULL
                                    ELSE IF q \in p_children[p] THEN InitProc ELSE p_parent[q]]
    /\ p_children' = [p_children EXCEPT ![p] = {}]
    /\ pc' = IF Notified(p) THEN Woken(p_parent[p], t) ELSE [pc EXCEPT ![t] = "dangling"]
    /\ machine' = IF Notified(p) /\ NoThreadToSignal(p_parent[p]) THEN "panic" ELSE machine

ExitLast(t) ==
    /\ machine = "up" /\ pc[t] = "last"
    /\ p_threads' = [p_threads EXCEPT ![td_proc[t]] = @ \ {t}]
    /\ ProcDestroy(td_proc[t], t)
    /\ UNCHANGED <<td_proc, childp>>

TdFree(t) ==
    /\ machine = "up" /\ pc[t] = "dangling"
    /\ td_proc' = [td_proc EXCEPT ![t] = NULL]
    /\ Goto(t, "free")
    /\ UNCHANGED <<procVars, childp, machine>>

(***************************************************************************)
(* wait(curtd, pid, pstatus, options), called with pid = -1 (c = NULL), the *)
(* pid of a child c, or the pid of a process that is no child.             *)
(***************************************************************************)
WaitExit(t, c) ==
    /\ p_children' = [p \in Procs |-> p_children[p] \ {c}]
    /\ p_status' = [p_status EXCEPT ![c] = "UNUSED"]
    /\ p_parent' = [p_parent EXCEPT ![c] = NULL]
    /\ childp' = [childp EXCEPT ![t] = c]
    /\ Goto(t, "reaped")
    /\ UNCHANGED p_threads

Return(t) == Goto(t, "user") /\ UNCHANGED <<procVars, childp>>
Sleep(t, c) == Goto(t, "asleep") /\ childp' = [childp EXCEPT ![t] = c] /\ UNCHANGED procVars

\* A zombie is looked for among all children, or it is the one that was named.
Reapable(t, c) == IF c = NULL THEN ZombieChildren(td_proc[t])
                              ELSE {c} \cap ZombieChildren(td_proc[t])

Wait(t, c, nohang) ==
    LET p == td_proc[t] IN
    /\ InUser(t)
    /\ ConcurrentWait \/ \A u \in p_threads[p] : pc[u] \notin Waiting
    /\ IF p_children[p] = {} \/ c \notin p_children[p] \cup {NULL} THEN Return(t)  \* -ECHILD
       ELSE IF Reapable(t, c) # {} /\ ~(nohang /\ c # NULL)
       THEN \E z \in Reapable(t, c) : WaitExit(t, z)
       ELSE IF nohang THEN Return(t)               \* a named child: WNOHANG never reaps
       ELSE Sleep(t, c)
    /\ UNCHANGED <<td_proc, machine>>

\* The while loop of wait_til_exit() re-tests the status of childp, whatever
\* that block is by now.
StillThere_Untested(t) == TRUE
StillThere(t) == p_status[childp[t]] = "ZOMBIE"

\* sleep() has returned: the loop in wait() scans again (without the -ECHILD
\* test at its head), the loop in wait_til_exit() re-tests childp.
WaitAgain(t) ==
    /\ machine = "up" /\ pc[t] = "again"
    /\ IF childp[t] = NULL
       THEN IF Reapable(t, NULL) # {} THEN \E z \in Reapable(t, NULL) : WaitExit(t, z)
            ELSE Sleep(t, NULL)
       ELSE IF StillThere(t) THEN WaitExit(t, childp[t])
            ELSE Sleep(t, childp[t])
    /\ UNCHANGED <<td_proc, machine>>

WaitReturn(t) ==
    /\ machine = "up" /\ pc[t] = "reaped"
    /\ Goto(t, "user")
    /\ childp' = [childp EXCEPT ![t] = NULL]
    /\ UNCHANGED <<procVars, td_proc, machine>>

\* SIGKILL (sig_send_td -> wakeup_td) ends the sleep of any thread.
KillWakes(t) ==
    /\ machine = "up" /\ pc[t] = "asleep"
    /\ Goto(t, "again")
    /\ UNCHANGED <<procVars, td_proc, childp, machine>>

KernelPath(t) == ExitLeave(t) \/ ExitLast(t) \/ TdFree(t) \/ WaitAgain(t) \/ WaitReturn(t)

Next == \E t \in Threads :
    \/ \E c \in Procs, u \in Threads : ProcFork(t, c, u)
    \/ \E u \in Threads : TdFork(t, u)
    \/ ExitTest(t)
    \/ \E c \in Procs \cup {NULL}, nohang \in BOOLEAN : Wait(t, c, nohang)
    \/ KernelPath(t)
    \/ KillWakes(t)

\* A thread that has entered the kernel goes on; the locks on these paths are
\* held for bounded sections.
Fairness == \A t \in Threads : WF_vars(KernelPath(t))
Spec == Init /\ [][Next]_vars /\ Fairness
(***************************************************************************)
(* Properties                                                              *)
(***************************************************************************)
TypeOK ==
    /\ p_status \in [Procs -> Statuses]
    /\ p_parent \in [Procs -> Procs \cup {NULL}]
    /\ p_children \in [Procs -> SUBSET Procs]
    /\ p_threads \in [Procs -> SUBSET Threads]
    /\ td_proc \in [Threads -> Procs \cup {NULL}]
    /\ pc \in [Threads -> Locations]
    /\ childp \in [Threads -> Procs \cup {NULL}]
    /\ machine \in {"up", "panic"}

\* The process tree and the thread lists agree, whatever exits and waits
\* interleave: a block is free, a zombie without threads, or in use; p_threads
\* is exactly the set of threads that run in the process; a linked child has
\* the list's owner as its p_parent and is not free; a process lacks its place
\* in its parent's list only when proc_destroy() made it an orphan of init.
TreeExact ==
    /\ \A p \in Procs : p_status[p] # "USED" => p_threads[p] = {} /\ p_children[p] = {}
    /\ \A p \in Procs : p_threads[p] = {t \in Threads : td_proc[t] = p /\ pc[t] # "dangling"}
    /\ \A t \in Threads : (td_proc[t] = NULL) <=> (pc[t] = "free")
    /\ \A p \in Procs : \A c \in p_children[p] : p_parent[c] = p /\ p_status[c] # "UNUSED"
    /\ \A c \in Procs : p_parent[c] # NULL =>
          /\ p_status[c] # "UNUSED"
          /\ p_parent[c] # InitProc => c \in p_children[p_parent[c]]

\* An exit is never slept through: no thread sleeps in wait() while one of the
\* children it waits for is already a zombie (wait_lock covers both the test
\* and proc_destroy(), which wakes the parent after making the zombie).
NoLostExit == \A t \in Threads : pc[t] = "asleep" => Reapable(t, childp[t]) = {}

\* wait() frees a process only for its parent, and only once it is a zombie,
\* although wait_til_exit() holds childp across sleep().
ReapedByParent ==
    [][\A t \in Threads : pc[t] # "reaped" /\ pc'[t] = "reaped" =>
          childp'[t] \in ZombieChildren(td_proc[t])]_vars

\* When the last thread of a child has entered td_destroy(), the parent's
\* thread that waits for this child returns from wait() with it.
ExitNotified ==
    \A t, u \in Threads :
        (pc[t] \in Waiting /\ pc[u] = "last" /\ td_proc[u] = childp[t])
            ~> (pc[t] = "reaped" \/ machine = "panic")
=============================================================================
