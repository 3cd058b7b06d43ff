----------------------------- MODULE ProcProofs -----------------------------
(***************************************************************************)
(* What Proc promises for any number of processes and threads, when no two *)
(* threads of one process are in wait() at the same time.                  *)
(***************************************************************************)
EXTENDS Proc, TLAPS

\* A thread in wait() waits for any child, or for a child that is still linked
\* to its process; it is the only waiter of its process; and a thread that
\* found itself the last one of its process still is.
WaitersExact ==
    /\ \A t \in Threads : pc[t] \in Waiting =>
          childp[t] = NULL \/ childp[t] \in p_children[td_proc[t]]
    /\ \A t, u \in Threads : pc[t] \in Waiting /\ pc[u] \in Waiting
          /\ td_proc[t] = td_proc[u] => t = u
    /\ \A t \in Threads : pc[t] = "last" => p_threads[td_proc[t]] = {t}

\* Init is nobody's child, so its exit is the only one that notifies nobody.
InitIsRoot == p_status[InitProc] # "UNUSED" /\ p_parent[InitProc] = NULL

IInv == TypeOK /\ TreeExact /\ WaitersExact /\ InitIsRoot /\ NoLostExit

\* A thread that is in the kernel or in user mode belongs to a process in use.
LEMMA OwnerInUse ==
    ASSUME NEW t \in Threads, IInv, pc[t] \notin {"free", "dangling"}
    PROVE  td_proc[t] \in Procs /\ t \in p_threads[td_proc[t]] /\ p_status[td_proc[t]] = "USED"
BY NullAssumption DEF IInv, TypeOK, TreeExact

\* A forked process enters the tree as a child of the caller, with one thread.
LEMMA ForkStep ==
    ASSUME NEW t \in Threads, NEW c \in Procs, NEW u \in Threads, IInv, ProcFork(t, c, u)
    PROVE  IInv'
<1>1. TypeOK'
  BY NullAssumption, InitAssumption
  DEF IInv, TypeOK, Statuses, Locations, Waiting, ProcFork, ProcAddTd, Goto, InUser
<1>2. TreeExact'
  BY NullAssumption, InitAssumption
  DEF IInv, TypeOK, TreeExact, WaitersExact, ProcFork, ProcAddTd, Goto, InUser
<1>3. WaitersExact'
  BY NullAssumption, InitAssumption
  DEF IInv, TypeOK, TreeExact, WaitersExact, Waiting, ProcFork, ProcAddTd, Goto,
      InUser
<1>4. InitIsRoot'
  BY NullAssumption, InitAssumption
  DEF IInv, TypeOK, TreeExact, InitIsRoot, ProcFork, ProcAddTd, Goto, InUser
<1>5. NoLostExit'
  BY NullAssumption, InitAssumption
  DEF IInv, TypeOK, TreeExact, WaitersExact, InitIsRoot, NoLostExit, Reapable,
      ZombieChildren, Waiting, ProcFork, ProcAddTd, Goto, InUser
<1>. QED BY <1>1, <1>2, <1>3, <1>4, <1>5 DEF IInv

\* A thread made by CLONE_VM joins the process of its maker.
LEMMA CloneStep ==
    ASSUME NEW t \in Threads, NEW u \in Threads, IInv, TdFork(t, u)
    PROVE  IInv'
<1>1. TypeOK'
  BY NullAssumption, InitAssumption
  DEF IInv, TypeOK, Statuses, Locations, Waiting, TdFork, ProcAddTd, Goto, InUser
<1>2. TreeExact'
  BY NullAssumption, InitAssumption
  DEF IInv, TypeOK, TreeExact, WaitersExact, TdFork, ProcAddTd, Goto, InUser
<1>3. WaitersExact'
  BY NullAssumption, InitAssumption
  DEF IInv, TypeOK, TreeExact, WaitersExact, Waiting, TdFork, ProcAddTd, Goto,
      InUser
<1>4. InitIsRoot'
  BY NullAssumption, InitAssumption
  DEF IInv, TypeOK, TreeExact, InitIsRoot, TdFork, ProcAddTd, Goto, InUser
<1>5. NoLostExit'
  BY NullAssumption, InitAssumption
  DEF IInv, TypeOK, TreeExact, WaitersExact, InitIsRoot, NoLostExit, Reapable,
      ZombieChildren, Waiting, TdFork, ProcAddTd, Goto, InUser
<1>. QED BY <1>1, <1>2, <1>3, <1>4, <1>5 DEF IInv

\* The last-thread test of td_destroy() leaves the tree as it is.
LEMMA TestStep ==
    ASSUME NEW t \in Threads, IInv, ExitTest(t)
    PROVE  IInv'
<1>1. TypeOK'
  BY NullAssumption, InitAssumption
  DEF IInv, TypeOK, Statuses, Locations, Waiting, ExitTest, Goto, InUser, procVars
<1>2. TreeExact'
  BY NullAssumption, InitAssumption
  DEF IInv, TypeOK, TreeExact, WaitersExact, ExitTest, Goto, InUser, procVars
<1>3. WaitersExact'
  BY NullAssumption, InitAssumption
  DEF IInv, TypeOK, TreeExact, WaitersExact, Waiting, ExitTest, Goto, InUser,
      procVars
<1>4. InitIsRoot'
  BY NullAssumption, InitAssumption
  DEF IInv, TypeOK, TreeExact, InitIsRoot, ExitTest, Goto, InUser, procVars
<1>5. NoLostExit'
  BY NullAssumption, InitAssumption
  DEF IInv, TypeOK, TreeExact, WaitersExact, InitIsRoot, NoLostExit, Reapable,
      ZombieChildren, Waiting, ExitTest, Goto, InUser, procVars
<1>. QED BY <1>1, <1>2, <1>3, <1>4, <1>5 DEF IInv

\* A thread that is not the last leaves p_threads.
LEMMA LeaveStep ==
    ASSUME NEW t \in Threads, IInv, ExitLeave(t)
    PROVE  IInv'
<1>1. TypeOK'
  BY NullAssumption, InitAssumption
  DEF IInv, TypeOK, Statuses, Locations, Waiting, ExitLeave, Goto
<1>2. TreeExact'
  BY NullAssumption, InitAssumption
  DEF IInv, TypeOK, TreeExact, WaitersExact, ExitLeave, Goto
<1>3. WaitersExact'
  BY NullAssumption, InitAssumption
  DEF IInv, TypeOK, TreeExact, WaitersExact, Waiting, ExitLeave, Goto
<1>4. InitIsRoot'
  BY NullAssumption, InitAssumption
  DEF IInv, TypeOK, TreeExact, InitIsRoot, ExitLeave, Goto
<1>5. NoLostExit'
  BY NullAssumption, InitAssumption
  DEF IInv, TypeOK, TreeExact, WaitersExact, InitIsRoot, NoLostExit, Reapable,
      ZombieChildren, Waiting, ExitLeave, Goto
<1>. QED BY <1>1, <1>2, <1>3, <1>4, <1>5 DEF IInv

\* The exit of the last thread: zombie, orphans, freed children, notification.
LEMMA LastStep ==
    ASSUME NEW t \in Threads, IInv, ExitLast(t)
    PROVE  IInv'
<1> DEFINE p == td_proc[t]
<1>0. p \in Procs /\ p_threads[p] = {t} /\ p_threads'[p] = {} /\ p_status[p] = "USED"
  BY OwnerInUse DEF IInv, TypeOK, WaitersExact, ExitLast
<1>1. TypeOK'
  BY NullAssumption, InitAssumption
  DEF IInv, TypeOK, Statuses, Locations, Waiting, ExitLast, ProcDestroy, Woken,
      Notified, NoThreadToSignal
<1>2. \A u \in Threads : (pc'[u] = "dangling") <=> (pc[u] = "dangling" \/ u = t)
  BY DEF IInv, TypeOK, ExitLast, ProcDestroy, Woken
<1>3. \A u \in Threads : (pc'[u] = "free") <=> (pc[u] = "free")
  BY DEF IInv, TypeOK, ExitLast, ProcDestroy, Woken
<1>4. TreeExact'
  <2> USE NullAssumption, InitAssumption DEF ExitLast, ProcDestroy, ZombieChildren
  <2>1. \A q \in Procs : p_status'[q] # "USED" => p_threads'[q] = {} /\ p_children'[q] = {}
    BY <1>0 DEF IInv, TypeOK, TreeExact
  <2>2. \A q \in Procs : p_threads'[q] = {u \in Threads : td_proc'[u] = q /\ pc'[u] # "dangling"}
    BY <1>0, <1>2 DEF IInv, TypeOK, TreeExact
  <2>3. \A u \in Threads : (td_proc'[u] = NULL) <=> (pc'[u] = "free")
    BY <1>3 DEF IInv, TreeExact
  <2>4. \A q \in Procs : \A c \in p_children'[q] : p_parent'[c] = q /\ p_status'[c] # "UNUSED"
    BY <1>0 DEF IInv, TypeOK, TreeExact
  <2>5. \A c \in Procs : p_parent'[c] # NULL =>
           /\ p_status'[c] # "UNUSED"
           /\ p_parent'[c] # InitProc => c \in p_children'[p_parent'[c]]
    BY <1>0 DEF IInv, TypeOK, TreeExact
  <2>. QED BY <2>1, <2>2, <2>3, <2>4, <2>5 DEF TreeExact
<1>5. WaitersExact'
  BY NullAssumption, InitAssumption
  DEF IInv, TypeOK, TreeExact, WaitersExact, Waiting, ExitLast, ProcDestroy,
      Woken, Notified, NoThreadToSignal
<1>6. InitIsRoot'
  BY NullAssumption, InitAssumption
  DEF IInv, TypeOK, TreeExact, InitIsRoot, ExitLast, ProcDestroy, ZombieChildren
<1>7. NoLostExit'
  BY NullAssumption, InitAssumption
  DEF IInv, TypeOK, TreeExact, WaitersExact, InitIsRoot, NoLostExit, Reapable,
      ZombieChildren, Waiting, ExitLast, ProcDestroy, Woken, Notified,
      NoThreadToSignal
<1>. QED BY <1>1, <1>4, <1>5, <1>6, <1>7 DEF IInv

\* td_free() gives the thread block back.
LEMMA FreeStep ==
    ASSUME NEW t \in Threads, IInv, TdFree(t)
    PROVE  IInv'
<1>1. TypeOK'
  BY NullAssumption, InitAssumption
  DEF IInv, TypeOK, Statuses, Locations, Waiting, TdFree, Goto, procVars
<1>2. TreeExact'
  BY NullAssumption, InitAssumption
  DEF IInv, TypeOK, TreeExact, WaitersExact, TdFree, Goto, procVars
<1>3. WaitersExact'
  BY NullAssumption, InitAssumption
  DEF IInv, TypeOK, TreeExact, WaitersExact, Waiting, TdFree, Goto, procVars
<1>4. InitIsRoot'
  BY NullAssumption, InitAssumption
  DEF IInv, TypeOK, TreeExact, InitIsRoot, TdFree, Goto, procVars
<1>5. NoLostExit'
  BY NullAssumption, InitAssumption
  DEF IInv, TypeOK, TreeExact, WaitersExact, InitIsRoot, NoLostExit, Reapable,
      ZombieChildren, Waiting, TdFree, Goto, procVars
<1>. QED BY <1>1, <1>2, <1>3, <1>4, <1>5 DEF IInv

\* wait_exit() of a zombie child.
LEMMA ReapStep ==
    ASSUME NEW t \in Threads, IInv, pc[t] \in {"user", "again"}, NEW z \in ZombieChildren(td_proc[t]),
           WaitExit(t, z), UNCHANGED <<td_proc, machine>>,
           \A u \in p_threads[td_proc[t]] \ {t} : pc[u] \notin Waiting
    PROVE  IInv'
<1>0. td_proc[t] \in Procs /\ z \in p_children[td_proc[t]] /\ z \in Procs /\ p_status[z] = "ZOMBIE"
  BY OwnerInUse DEF IInv, TypeOK, ZombieChildren
<1>1. TypeOK'
  BY <1>0, NullAssumption, InitAssumption
  DEF IInv, TypeOK, Statuses, Locations, Waiting, WaitExit, Goto
<1>2. TreeExact'
  BY <1>0, NullAssumption, InitAssumption
  DEF IInv, TypeOK, TreeExact, WaitersExact, WaitExit, Goto
<1>3. WaitersExact'
  BY <1>0, NullAssumption, InitAssumption
  DEF IInv, TypeOK, TreeExact, WaitersExact, Waiting, WaitExit, Goto
<1>4. InitIsRoot'
  BY <1>0, NullAssumption, InitAssumption
  DEF IInv, TypeOK, TreeExact, InitIsRoot, WaitExit, Goto
<1>5. NoLostExit'
  BY <1>0, NullAssumption, InitAssumption
  DEF IInv, TypeOK, TreeExact, WaitersExact, InitIsRoot, NoLostExit, Reapable,
      ZombieChildren, Waiting, WaitExit, Goto
<1>. QED BY <1>1, <1>2, <1>3, <1>4, <1>5 DEF IInv

\* A thread with nothing to reap goes to sleep.
LEMMA SleepStep ==
    ASSUME NEW t \in Threads, IInv, pc[t] \in {"user", "again"}, NEW c \in p_children[td_proc[t]] \cup {NULL},
           Reapable(t, c) = {}, Sleep(t, c), UNCHANGED <<td_proc, machine>>,
           \A u \in p_threads[td_proc[t]] \ {t} : pc[u] \notin Waiting
    PROVE  IInv'
<1>0. td_proc[t] \in Procs /\ c \in Procs \cup {NULL}
  BY OwnerInUse DEF IInv, TypeOK
<1>1. TypeOK'
  BY <1>0, NullAssumption, InitAssumption
  DEF IInv, TypeOK, Statuses, Locations, Waiting, Sleep, Goto, procVars
<1>2. TreeExact'
  BY <1>0, NullAssumption, InitAssumption
  DEF IInv, TypeOK, TreeExact, WaitersExact, Sleep, Goto, procVars
<1>3. WaitersExact'
  BY <1>0, NullAssumption, InitAssumption
  DEF IInv, TypeOK, TreeExact, WaitersExact, Waiting, Sleep, Goto, procVars
<1>4. InitIsRoot'
  BY <1>0, NullAssumption, InitAssumption
  DEF IInv, TypeOK, TreeExact, InitIsRoot, Sleep, Goto, procVars
<1>5. NoLostExit'
  BY <1>0, NullAssumption, InitAssumption
  DEF IInv, TypeOK, TreeExact, WaitersExact, InitIsRoot, NoLostExit, Reapable,
      ZombieChildren, Waiting, Sleep, Goto, procVars
<1>. QED BY <1>1, <1>2, <1>3, <1>4, <1>5 DEF IInv

\* Returning from wait() and being woken by SIGKILL change one location.
LEMMA MoveStep ==
    ASSUME NEW t \in Threads, IInv, NEW l \in Locations, Goto(t, l), UNCHANGED <<procVars, td_proc, machine>>,
           childp' = childp \/ (l = "user" /\ childp' = [childp EXCEPT ![t] = NULL]),
           <<pc[t], l>> \in {<<"user", "user">>, <<"reaped", "user">>, <<"asleep", "again">>}
    PROVE  IInv'
<1>1. TypeOK'
  BY NullAssumption, InitAssumption
  DEF IInv, TypeOK, Statuses, Locations, Waiting, Goto, procVars
<1>2. TreeExact'
  BY NullAssumption, InitAssumption
  DEF IInv, TypeOK, TreeExact, WaitersExact, Goto, procVars
<1>3. WaitersExact'
  BY NullAssumption, InitAssumption
  DEF IInv, TypeOK, TreeExact, WaitersExact, Waiting, Goto, procVars
<1>4. InitIsRoot'
  BY NullAssumption, InitAssumption
  DEF IInv, TypeOK, TreeExact, InitIsRoot, Goto, procVars
<1>5. NoLostExit'
  BY NullAssumption, InitAssumption
  DEF IInv, TypeOK, TreeExact, WaitersExact, InitIsRoot, NoLostExit, Reapable,
      ZombieChildren, Waiting, Goto, procVars
<1>. QED BY <1>1, <1>2, <1>3, <1>4, <1>5 DEF IInv

\* One step of Next preserves IInv: the actions are the cases of the lemmas.
LEMMA NextStep ==
    ASSUME ~ConcurrentWait, IInv, [Next]_vars
    PROVE  IInv'
<1>1. CASE UNCHANGED vars
  BY <1>1
  DEF vars, IInv, TypeOK, TreeExact, WaitersExact, InitIsRoot, NoLostExit,
      Reapable, ZombieChildren
<1>2. ASSUME NEW t \in Threads, NEW c \in Procs \cup {NULL}, NEW nohang \in BOOLEAN, Wait(t, c, nohang)
      PROVE  IInv'
  <2>1. pc[t] = "user" /\ \A u \in p_threads[td_proc[t]] \ {t} : pc[u] \notin Waiting
    BY <1>2 DEF Wait, InUser
  <2>2. CASE Return(t)
    BY <2>1, <2>2, <1>2, MoveStep DEF Wait, Return, Locations
  <2>3. ASSUME NEW z \in Reapable(t, c), WaitExit(t, z) PROVE IInv'
    <3>1. z \in ZombieChildren(td_proc[t])
      BY DEF Reapable
    <3>. QED BY <3>1, <2>1, <2>3, <1>2, ReapStep DEF Wait
  <2>4. ASSUME Sleep(t, c), Reapable(t, c) = {}, c \in p_children[td_proc[t]] \cup {NULL} PROVE IInv'
    BY <2>1, <2>4, <1>2, SleepStep DEF Wait
  <2>5. CASE Reapable(t, c) = {}
    BY <1>2, <2>2, <2>4, <2>5 DEF Wait
  <2>6. CASE Reapable(t, c) # {}
    \* only WNOHANG with a named child returns although there is a zombie
    BY <1>2, <2>2, <2>3, <2>6 DEF Wait
  <2>. QED BY <2>5, <2>6
<1>3. ASSUME NEW t \in Threads, WaitAgain(t) PROVE IInv'
  <2>1. /\ pc[t] = "again" /\ \A u \in p_threads[td_proc[t]] \ {t} : pc[u] \notin Waiting
        /\ childp[t] \in p_children[td_proc[t]] \cup {NULL}
    BY <1>3 DEF WaitAgain, IInv, TypeOK, TreeExact, WaitersExact, Waiting
  <2>2. ASSUME NEW z \in ZombieChildren(td_proc[t]), WaitExit(t, z) PROVE IInv'
    BY <2>1, <2>2, <1>3, ReapStep DEF WaitAgain
  <2>3. ASSUME Sleep(t, childp[t]), Reapable(t, childp[t]) = {} PROVE IInv'
    BY <2>1, <2>3, <1>3, SleepStep DEF WaitAgain
  <2>. QED
    BY <1>3, <2>1, <2>2, <2>3 DEF WaitAgain, Reapable, ZombieChildren, StillThere
<1>4. ASSUME NEW t \in Threads, WaitReturn(t) \/ KillWakes(t) PROVE IInv'
  BY <1>4, MoveStep DEF WaitReturn, KillWakes, Locations, Waiting
<1>. QED
  BY <1>1, <1>2, <1>3, <1>4, ForkStep, CloneStep, TestStep, LeaveStep, LastStep,
      FreeStep
  DEF Next, KernelPath

LEMMA InitInv == Init => IInv
BY NullAssumption, InitAssumption
DEF Init, IInv, TypeOK, TreeExact, WaitersExact, InitIsRoot, NoLostExit,
    Statuses, Locations, Waiting

\* The process tree, the thread lists and the waiters agree in every reachable
\* state, for any number of processes and threads.
THEOREM ProcInvariant == ~ConcurrentWait => (Spec => []IInv)
<1>. SUFFICES ASSUME ~ConcurrentWait PROVE Spec => []IInv
  OBVIOUS
<1>1. IInv /\ [Next]_vars => IInv'
  BY NextStep
<1>. QED BY InitInv, <1>1, PTL DEF Spec

\* proc_alloc(), fork, td_destroy(), proc_destroy() and wait() keep the tree exact.
THEOREM TreeStaysExact == ~ConcurrentWait => (Spec => []TreeExact)
BY ProcInvariant, PTL DEF IInv

\* No thread sleeps in wait() through an exit it waits for.
THEOREM ExitsAreNotLost == ~ConcurrentWait => (Spec => []NoLostExit)
BY ProcInvariant, PTL DEF IInv

\* wait() frees only zombie children of the caller, although wait_til_exit()
\* holds childp across sleep().
THEOREM OnlyParentReaps == ~ConcurrentWait => (Spec => ReapedByParent)
<1>. SUFFICES ASSUME ~ConcurrentWait PROVE Spec => ReapedByParent
  OBVIOUS
<1> DEFINE Reaps(t) == pc[t] # "reaped" /\ pc'[t] = "reaped"
           Own(t) == childp'[t] \in ZombieChildren(td_proc[t])
<1>1. ASSUME IInv, NEW t \in Threads, NEW v \in Threads, Reaps(v),
             \E c \in Procs \cup {NULL}, nohang \in BOOLEAN : Wait(t, c, nohang)
      PROVE  Own(v)
  BY <1>1 DEF Wait, Return, Sleep, WaitExit, Goto, Reapable, IInv, TypeOK
<1>2. ASSUME IInv, NEW t \in Threads, NEW v \in Threads, Reaps(v), WaitAgain(t)
      PROVE  Own(v)
  <2>1. childp[t] = NULL \/ childp[t] \in p_children[td_proc[t]]
    BY <1>2 DEF WaitAgain, IInv, WaitersExact, Waiting
  <2>. QED
    BY <1>2, <2>1
    DEF WaitAgain, Sleep, WaitExit, Goto, Reapable, StillThere, ZombieChildren,
        IInv, TypeOK
<1>3. ASSUME IInv, NEW t \in Threads, NEW v \in Threads, Reaps(v), ExitLast(t)
      PROVE  Own(v)
  BY <1>3 DEF ExitLast, ProcDestroy, Woken, IInv, TypeOK
<1>4. ASSUME IInv, NEW t \in Threads, NEW v \in Threads, Reaps(v),
             \/ \E c \in Procs, u \in Threads : ProcFork(t, c, u)
             \/ \E u \in Threads : TdFork(t, u)
             \/ ExitTest(t) \/ ExitLeave(t) \/ TdFree(t) \/ WaitReturn(t) \/ KillWakes(t)
      PROVE  Own(v)
  BY <1>4
  DEF ProcFork, TdFork, ProcAddTd, ExitTest, ExitLeave, TdFree, WaitReturn,
      KillWakes, Goto, IInv, TypeOK
<1>5. IInv /\ [Next]_vars =>
        [\A t \in Threads : pc[t] # "reaped" /\ pc'[t] = "reaped" =>
            childp'[t] \in ZombieChildren(td_proc[t])]_vars
  <2>. SUFFICES ASSUME IInv, Next, NEW v \in Threads, Reaps(v) PROVE Own(v)
    OBVIOUS
  <2>. QED BY <1>1, <1>2, <1>3, <1>4 DEF Next, KernelPath
<1>. QED BY ProcInvariant, <1>5, PTL DEF Spec, ReapedByParent
=============================================================================
