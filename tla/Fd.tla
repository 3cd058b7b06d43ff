--------------------------------- MODULE Fd ---------------------------------
(***************************************************************************)
(* File descriptors (kern/fs/fd/fd.c, kern/fs/thread_fs.c, openat() of     *)
(* fd/file.c and pipe() of fd/pipe.c): the tables of the processes, the    *)
(* table of kernel descriptors they share, and the files and pipes behind  *)
(* it.  A process has one thread; the steps of different processes         *)
(* interleave wherever a call gives up the lock of shared state.           *)
(***************************************************************************)
EXTENDS Integers, FiniteSets

CONSTANTS
    Procs, First,
    MAX_FD_COUNT, FDNUM,
    Files, Pipes,
    BadOld,     \* programs give dup3() an old descriptor that is not open
    NULL

ASSUME FdAssumption ==
    /\ First \in Procs /\ IsFiniteSet(Procs)
    /\ MAX_FD_COUNT \in Nat \ {0} /\ FDNUM \in Nat \ {0}
    /\ BadOld \in BOOLEAN /\ NULL \notin Files \cup Pipes

VARIABLES
    fdList,     \* a process's table: -1, a kernel descriptor, or Reserved
    alive,
    fdBitMap,   \* the kernel descriptors in use
    fds,        \* their refcnt, and the file or pipe behind them
    ref,        \* the count of a file (Dirent) or of a pipe
    job         \* what a process is doing: see Call

vars == <<fdList, alive, fdBitMap, fds, ref, job>>

Ufds == 0..MAX_FD_COUNT - 1
Kfds == 0..FDNUM - 1
Reserved == FDNUM + 1
ZeroFd == [refcnt |-> 0, obj |-> NULL]

\* at: where the call is; kfd, ufds: the kernel descriptor and the entries it
\* works on; next: where freeFd() returns to; arg: the old descriptor of
\* dup3(), or the entry recycle_thread_fs() has come to.
Call(at, is, arg) == [at |-> at, kfd |-> -1, ufds |-> is, next |-> "user", arg |-> arg]
Idle == Call("user", {}, 0)

\* The console is a descriptor with no file or pipe.
Init ==
    /\ fdList = [p \in Procs |-> [i \in Ufds |-> IF p = First /\ i = 0 THEN 0 ELSE -1]]
    /\ alive = {First}
    /\ fdBitMap = {0}
    /\ fds = [k \in Kfds |-> IF k = 0 THEN [refcnt |-> 1, obj |-> NULL] ELSE ZeroFd]
    /\ ref = [o \in Files \cup Pipes |-> 0]
    /\ job = [p \in Procs |-> Idle]

Calls(p) == p \in alive /\ job[p].at = "user"
IsOpen(p, i) == fdList[p][i] \in Kfds
SetTable(p, is, k) == fdList' = [fdList EXCEPT ![p] = [i \in Ufds |-> IF i \in is THEN k ELSE @[i]]]
Goto(p, at) == job' = [job EXCEPT ![p].at = at]

Lowest(S) == CHOOSE i \in S : \A j \in S : i <= j
FreeUfds(p) == {i \in Ufds : fdList[p][i] = -1}

(***************************************************************************)
(* fdAlloc(): under mtx_fd.  cloneAddCite() is one atomic addition.        *)
(***************************************************************************)
FreeKfds == Kfds \ fdBitMap

FdAlloc(k) ==
    /\ k = Lowest(FreeKfds)
    /\ fdBitMap' = fdBitMap \cup {k}
    /\ fds' = [fds EXCEPT ![k] = [refcnt |-> 1, obj |-> NULL]]

(***************************************************************************)
(* freeFd().  The descriptor's lock covers the count and dev_close(); then *)
(* it is cleared, and its bit is given back under mtx_fd.                  *)
(***************************************************************************)
Free(p, k, is, next, arg) ==
    job' = [job EXCEPT ![p] = [at |-> "dec", kfd |-> k, ufds |-> is, next |-> next, arg |-> arg]]

\* fd_file_close() and fd_pipe_close(); a descriptor that never got its file
\* has no device.
DevClose(o) == ref' = IF o = NULL THEN ref ELSE [ref EXCEPT ![o] = @ - 1]

FreeDec_ClosesAlways(p) ==
    LET k == job[p].kfd IN
    /\ job[p].at = "dec"
    /\ DevClose(fds[k].obj)
    /\ IF fds[k].refcnt = 1
       THEN fds' = [fds EXCEPT ![k] = ZeroFd] /\ Goto(p, "zero")
       ELSE fds' = [fds EXCEPT ![k].refcnt = @ - 1] /\ Goto(p, job[p].next)
    /\ UNCHANGED <<fdList, alive, fdBitMap>>
FreeDec(p) ==
    LET k == job[p].kfd IN
    /\ job[p].at = "dec"
    /\ IF fds[k].refcnt = 1
       THEN /\ DevClose(fds[k].obj)
            /\ fds' = [fds EXCEPT ![k] = ZeroFd]
            /\ Goto(p, "zero")
       ELSE /\ fds' = [fds EXCEPT ![k].refcnt = @ - 1]
            /\ Goto(p, job[p].next)
            /\ UNCHANGED ref
    /\ UNCHANGED <<fdList, alive, fdBitMap>>

FreeZero_BitFirst(p) ==
    /\ job[p].at = "zero"
    /\ fdBitMap' = fdBitMap \ {job[p].kfd}
    /\ Goto(p, "bit")
    /\ UNCHANGED <<fdList, alive, fds, ref>>
FreeZero(p) ==
    /\ job[p].at = "zero"
    /\ fds' = [fds EXCEPT ![job[p].kfd] = ZeroFd]
    /\ Goto(p, "bit")
    /\ UNCHANGED <<fdList, alive, fdBitMap, ref>>

FreeBit(p) ==
    /\ job[p].at = "bit"
    /\ fdBitMap' = fdBitMap \ {job[p].kfd}
    /\ Goto(p, job[p].next)
    /\ UNCHANGED <<fdList, alive, fds, ref>>

(***************************************************************************)
(* openat().  alloc_ufd() reserves the entry; -EMFILE and -EBADF leave no  *)
(* trace.                                                                  *)
(***************************************************************************)
OpenStart(p) ==
    /\ Calls(p) /\ FreeUfds(p) # {}
    /\ LET is == {Lowest(FreeUfds(p))} IN
       /\ SetTable(p, is, Reserved)
       /\ job' = [job EXCEPT ![p] = Call("open", is, 0)]
    /\ UNCHANGED <<alive, fdBitMap, fds, ref>>

\* -ENFILE, in openat() and for the first descriptor of pipe().
AllocFails(p) ==
    /\ job[p].at \in {"open", "pipe"} /\ FreeKfds = {}
    /\ SetTable(p, job[p].ufds, -1)
    /\ job' = [job EXCEPT ![p] = Idle]
    /\ UNCHANGED <<alive, fdBitMap, fds, ref>>

Alloc(p) ==
    /\ job[p].at \in {"open", "pipe"}
    /\ \E k \in FreeKfds :
          /\ FdAlloc(k)
          /\ job' = [job EXCEPT ![p].at = IF @ = "open" THEN "getFile" ELSE "pipe2", ![p].kfd = k]
    /\ UNCHANGED <<fdList, alive, ref>>

\* getFile() or createFile() counts the Dirent.
OpenFile(p, f) ==
    /\ job[p].at = "getFile"
    /\ ref' = [ref EXCEPT ![f] = @ + 1]
    /\ fds' = [fds EXCEPT ![job[p].kfd].obj = f]
    /\ SetTable(p, job[p].ufds, job[p].kfd)
    /\ job' = [job EXCEPT ![p] = Idle]
    /\ UNCHANGED <<alive, fdBitMap>>

\* No such file.
OpenFails(p) ==
    /\ job[p].at = "getFile"
    /\ SetTable(p, job[p].ufds, -1)
    /\ Free(p, job[p].kfd, {}, "user", 0)
    /\ UNCHANGED <<alive, fdBitMap, fds, ref>>

(***************************************************************************)
(* pipe()                                                                  *)
(***************************************************************************)
PipeStart(p) ==
    /\ Calls(p) /\ Cardinality(FreeUfds(p)) >= 2
    /\ LET a == Lowest(FreeUfds(p))
           b == Lowest(FreeUfds(p) \ {a})
       IN  /\ SetTable(p, {a, b}, Reserved)
           /\ job' = [job EXCEPT ![p] = Call("pipe", {a, b}, 0)]
    /\ UNCHANGED <<alive, fdBitMap, fds, ref>>

Pipe2Fails(p) ==
    /\ job[p].at = "pipe2" /\ FreeKfds = {}
    /\ SetTable(p, job[p].ufds, -1)
    /\ Free(p, job[p].kfd, {}, "user", 0)
    /\ UNCHANGED <<alive, fdBitMap, fds, ref>>

\* A new pipe, with a count of 2, for the two descriptors.
PipeDone(p, x) ==
    /\ job[p].at = "pipe2" /\ ref[x] = 0
    /\ \E k \in FreeKfds :
          /\ k = Lowest(FreeKfds)
          /\ fdBitMap' = fdBitMap \cup {k}
          /\ fds' = [fds EXCEPT ![k] = [refcnt |-> 1, obj |-> x], ![job[p].kfd].obj = x]
          /\ fdList' = [fdList EXCEPT ![p] = [i \in Ufds |->
                CASE i = Lowest(job[p].ufds) -> job[p].kfd [] i \in job[p].ufds \ {Lowest(job[p].ufds)} -> k
                  [] OTHER -> @[i]]]
    /\ ref' = [ref EXCEPT ![x] = 2]
    /\ job' = [job EXCEPT ![p] = Idle]
    /\ UNCHANGED alive

(***************************************************************************)
(* closeFd(), dup(), dup3()                                                *)
(***************************************************************************)
Close(p, i) ==
    /\ Calls(p) /\ IsOpen(p, i)
    /\ Free(p, fdList[p][i], {i}, "closed", 0)
    /\ UNCHANGED <<fdList, alive, fdBitMap, fds, ref>>

Closed(p) ==
    /\ job[p].at = "closed"
    /\ SetTable(p, job[p].ufds, -1)
    /\ job' = [job EXCEPT ![p] = Idle]
    /\ UNCHANGED <<alive, fdBitMap, fds, ref>>

AddCite(k) == fds' = [fds EXCEPT ![k].refcnt = @ + 1]

Dup(p, i) ==
    /\ Calls(p) /\ IsOpen(p, i) /\ FreeUfds(p) # {}
    /\ SetTable(p, {Lowest(FreeUfds(p))}, fdList[p][i])
    /\ AddCite(fdList[p][i])
    /\ UNCHANGED <<alive, fdBitMap, ref, job>>

\* The new descriptor is freed before the old one is looked at.
Dup3(p, old, new) ==
    /\ Calls(p) /\ old # new
    /\ IsOpen(p, old) \/ BadOld
    /\ IF IsOpen(p, new)
       THEN Free(p, fdList[p][new], {new}, "dup3", old)
       ELSE job' = [job EXCEPT ![p] = Call("dup3", {new}, old)]
    /\ UNCHANGED <<fdList, alive, fdBitMap, fds, ref>>

Dup3Done(p) ==
    LET copied == fdList[p][job[p].arg] IN
    /\ job[p].at = "dup3"
    /\ IF copied \in Kfds
       THEN SetTable(p, job[p].ufds, copied) /\ AddCite(copied)
       ELSE UNCHANGED <<fdList, fds>>          \* -EBADF
    /\ job' = [job EXCEPT ![p] = Idle]
    /\ UNCHANGED <<alive, fdBitMap, ref>>

(***************************************************************************)
(* fork_thread_fs() and recycle_thread_fs()                                *)
(***************************************************************************)
Copies(p, k) == Cardinality({i \in Ufds : fdList[p][i] = k})

Cited_Once(p, k) == IF Copies(p, k) = 0 THEN 0 ELSE 1
Cited(p, k) == Copies(p, k)

Fork(p, q) ==
    /\ Calls(p) /\ q \notin alive
    /\ fdList' = [fdList EXCEPT ![q] = fdList[p]]
    /\ fds' = [k \in Kfds |-> [fds[k] EXCEPT !.refcnt = @ + Cited(p, k)]]
    /\ alive' = alive \cup {q}
    /\ UNCHANGED <<fdBitMap, ref, job>>

Exit(p) ==
    /\ Calls(p)
    /\ job' = [job EXCEPT ![p] = Call("exit", {}, 0)]
    /\ UNCHANGED <<fdList, alive, fdBitMap, fds, ref>>

Recycle(p) ==
    LET rest == {i \in job[p].arg..MAX_FD_COUNT - 1 : fdList[p][i] # -1} IN
    /\ job[p].at = "exit" /\ rest # {}
    /\ Free(p, fdList[p][Lowest(rest)], {}, "exit", Lowest(rest) + 1)
    /\ UNCHANGED <<fdList, alive, fdBitMap, fds, ref>>

Exited(p) ==
    /\ job[p].at = "exit" /\ \A i \in job[p].arg..MAX_FD_COUNT - 1 : fdList[p][i] = -1
    /\ alive' = alive \ {p}
    /\ SetTable(p, Ufds, -1)       \* nobody looks at the table again
    /\ job' = [job EXCEPT ![p] = Idle]
    /\ UNCHANGED <<fdBitMap, fds, ref>>

Next == \E p \in Procs :
    \/ FreeDec(p) \/ FreeZero(p) \/ FreeBit(p)
    \/ OpenStart(p) \/ AllocFails(p) \/ Alloc(p) \/ OpenFails(p) \/ \E f \in Files : OpenFile(p, f)
    \/ PipeStart(p) \/ Pipe2Fails(p) \/ \E x \in Pipes : PipeDone(p, x)
    \/ \E i \in Ufds : Close(p, i) \/ Dup(p, i)
    \/ Closed(p) \/ Dup3Done(p) \/ \E i, j \in Ufds : Dup3(p, i, j)
    \/ \E q \in Procs : Fork(p, q)
    \/ Exit(p) \/ Recycle(p) \/ Exited(p)

Spec == Init /\ [][Next]_vars

(***************************************************************************)
(* Properties                                                              *)
(***************************************************************************)
\* The entries that count: not those an exiting process has passed, nor the
\* one whose reference freeFd() has just given back.
Given(p) == job[p].at \in {"zero", "bit", "closed", "dup3"}
Refers(p, i, k) ==
    /\ p \in alive /\ fdList[p][i] = k
    /\ job[p].at = "exit" \/ job[p].next = "exit" =>
          i >= job[p].arg \/ (job[p].at = "dec" /\ i = job[p].arg - 1)
    /\ ~(Given(p) /\ i \in job[p].ufds)

\* A descriptor that no table has yet, or none any more.
InFlight(p, k) == job[p].kfd = k /\ (job[p].at \in {"getFile", "pipe2"} \/ (job[p].at = "dec" /\ job[p].next = "user"))

\* fdAlloc(), cloneAddCite() and freeFd(): the count of a kernel descriptor is
\* the number of table entries and calls that have it, over every error path.
RefcountExact ==
    \A k \in Kfds :
        fds[k].refcnt = Cardinality({pi \in Procs \X Ufds : Refers(pi[1], pi[2], k)})
                        + Cardinality({p \in Procs : InFlight(p, k)})

\* dev_close() once for each descriptor: the count of a file or a pipe is the
\* number of kernel descriptors for it, so it is freed with the last one.
ObjectsExact == \A o \in Files \cup Pipes : ref[o] = Cardinality({k \in Kfds : fds[k].obj = o})

\* freeFd(): when the bit of a descriptor is given back no process can find it
\* in its table, so the next user of the slot shares it with nobody.
FreedIsUnreachable ==
    \A p \in alive, i \in Ufds : IsOpen(p, i) /\ Refers(p, i, fdList[p][i]) => fdList[p][i] \in fdBitMap
=============================================================================
