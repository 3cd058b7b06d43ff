-------------------------------- MODULE Mem ---------------------------------
(***************************************************************************)
(* Physical pages and user page tables (kern/mm/pmm.c, vmm.c), demand      *)
(* paging and copy-on-write (kern/trap/trap_pgfault.c, kern/proc/fork.c),  *)
(* anonymous mappings (kern/syscall/sys_mm.c, sys_mmap.c) and shared       *)
(* memory segments (kern/ipc/shm.c), each of one page.                     *)
(*                                                                         *)
(* A process has one thread.  kvmlock makes one change of a page table     *)
(* atomic; page faults, fork() and exit make several, and the other        *)
(* processes run in between.                                               *)
(***************************************************************************)
EXTENDS Naturals, FiniteSets

CONSTANTS
    Procs, First, Pages, Vals, Segs, Zero, NULL,
    NVA,                \* the number of user addresses (pages)
    PASSIVE_THRESHOLD,  \* below it sys_map() maps a page at once
    Objects,            \* names for what programs mmap() with MAP_SHARED
    Prots               \* what programs give to mprotect()

VAs == 1..NVA

ASSUME MemAssumption ==
    /\ First \in Procs /\ Zero \in Vals /\ NVA \in Nat \ {0}
    /\ PASSIVE_THRESHOLD \in Nat
    /\ Prots \subseteq SUBSET {"W"}
    /\ NULL \notin Pages \cup Vals \cup Segs \cup Objects \cup Procs
    /\ IsFiniteSet(Procs) /\ IsFiniteSet(Segs)

VARIABLES
    pt,         \* p_pt: the page of an entry (NULL without PTE_V) and its
                \* permissions; seg names the shared object it stands for
    ref, free,  \* pages[].ref and pageFreeList
    mem,        \* the contents of the pages
    job,        \* what a process does in the kernel: nothing ("run"), a page
                \* fault with its new page, fork() or exit with the next address
    kaddr,      \* the page a segment has in the kernel's page table
    shmids      \* segments created so far: a shmid is not given twice

vars == <<pt, ref, free, mem, job, kaddr, shmids>>

NoPte == [page |-> NULL, perm |-> {}, seg |-> NULL]
Job(op, va, page, child) == [op |-> op, va |-> va, page |-> page, child |-> child]
Unused == Job("unused", 0, NULL, NULL)
Run == Job("run", 0, NULL, NULL)

Init ==
    /\ pt = [p \in Procs |-> [va \in VAs |-> NoPte]]
    /\ ref = [g \in Pages |-> 0] /\ free = Pages
    /\ mem = [g \in Pages |-> Zero]
    /\ job = [p \in Procs |-> IF p = First THEN Run ELSE Unused]
    /\ kaddr = [s \in Segs |-> NULL] /\ shmids = {}

Passive(e) == e.page = NULL /\ "U" \in e.perm

\* ptModify() and ptClear(): an entry changes from page old to page new (NULL
\* for none); the counts follow, and a page nobody refers to is free again.
Counted_KeepsReplaced(old, new, left) ==
    /\ ref' = [g \in Pages |-> IF g = new /\ old # new THEN ref[g] + 1
                               ELSE IF g = old /\ new = NULL THEN ref[g] - 1 ELSE ref[g]]
    /\ free' = left \cup {g \in {old} \ {NULL} : new = NULL /\ ref[g] = 1}
Counted(old, new, left) ==
    /\ ref' = [g \in Pages |-> IF old = new THEN ref[g]
                               ELSE IF g = old THEN ref[g] - 1
                               ELSE IF g = new THEN ref[g] + 1 ELSE ref[g]]
    /\ free' = left \cup {g \in {old} \ {new, NULL} : ref[g] = 1}

\* ptMap() by p for va, with left on the free list.
PtMap(p, va, e, left) ==
    /\ pt' = [pt EXCEPT ![p][va] = e]
    /\ Counted(pt[p][va].page, e.page, left)

\* pmAlloc() of page g, which it clears; it panics if there is none.
PmAlloc(g, content) == g \in free /\ mem' = [mem EXCEPT ![g] = content]

\* sys_map(): mmap() with MAP_ANONYMOUS, and brk() growing.  With MAP_SHARED it
\* makes an object o, without it o is NULL.
SysMap(p, va, o) ==
    /\ job[p] = Run /\ pt[p][va].page = NULL
    /\ o # NULL => \A q \in Procs : \A w \in VAs : pt[q][w].seg # o
    /\ LET e == [page |-> NULL, seg |-> o,
                 perm |-> IF o = NULL THEN {"U", "W"} ELSE {"U", "W", "SHARED"}]
       IN IF va < PASSIVE_THRESHOLD
          THEN \E g \in Pages : PmAlloc(g, Zero) /\ PtMap(p, va, [e EXCEPT !.page = g], free \ {g})
          ELSE PtMap(p, va, e, free) /\ UNCHANGED mem
    /\ UNCHANGED <<job, kaddr, shmids>>

\* ptUnmap(), of an address that is mapped.
Unmap(p, va) ==
    /\ job[p] = Run /\ pt[p][va] # NoPte
    /\ PtMap(p, va, NoPte, free)
    /\ UNCHANGED <<mem, job, kaddr, shmids>>

\* sys_mprotect(): the entry gets the permissions of prot and no others.
SysMprotect(p, va, prot) ==
    /\ job[p] = Run /\ pt[p][va] # NoPte
    /\ PtMap(p, va, [pt[p][va] EXCEPT !.perm = {"U"} \cup prot], free)
    /\ UNCHANGED <<mem, job, kaddr, shmids>>

\* page_fault_handler() on a store to va, up to the copy of the page.
IsCow(e) == e.page # NULL /\ "W" \notin e.perm /\ "COW" \in e.perm
Filled_Zero(e) == Zero
Filled(e) == IF IsCow(e) THEN mem[e.page] ELSE Zero
Fault(p, va, g) ==
    /\ job[p] = Run
    /\ IsCow(pt[p][va]) \/ Passive(pt[p][va])
    /\ PmAlloc(g, Filled(pt[p][va]))
    /\ free' = free \ {g}
    /\ job' = [job EXCEPT ![p] = Job("fault", va, g, NULL)]
    /\ UNCHANGED <<pt, ref, kaddr, shmids>>

\* The ptMap() of cow_handler() and passive_handler().
FaultMap(p) ==
    /\ job[p].op = "fault"
    /\ LET e == pt[p][job[p].va]
       IN PtMap(p, job[p].va,
                [page |-> job[p].page, seg |-> e.seg,
                 perm |-> IF IsCow(e) THEN (e.perm \ {"COW"}) \cup {"W"} ELSE e.perm], free)
    /\ job' = [job EXCEPT ![p] = Run]
    /\ UNCHANGED <<mem, kaddr, shmids>>

\* A store of the program, to an address it may write.
Store(p, va, v) ==
    /\ job[p] = Run /\ pt[p][va].page # NULL /\ "W" \in pt[p][va].perm
    /\ mem' = [mem EXCEPT ![pt[p][va].page] = v]
    /\ UNCHANGED <<pt, ref, free, job, kaddr, shmids>>

\* fork(): the child is q, and its pages are still to be copied.
Fork(p, q) ==
    /\ job[p] = Run /\ job[q] = Unused
    /\ job' = [job EXCEPT ![p] = Job("fork", 1, NULL, q), ![q] = Job("new", 0, NULL, NULL)]
    /\ UNCHANGED <<pt, ref, free, mem, kaddr, shmids>>

\* duppage() of the next address.
Dup(e) == IF e.page # NULL /\ "W" \in e.perm /\ "SHARED" \notin e.perm
          THEN [e EXCEPT !.perm = (@ \ {"W"}) \cup {"COW"}] ELSE e
Duppage_ChildOnly(p) ==
    LET q == job[p].child va == job[p].va IN
    /\ job[p].op = "fork" /\ va <= NVA
    /\ PtMap(q, va, Dup(pt[p][va]), free)
    /\ job' = [job EXCEPT ![p].va = @ + 1]
    /\ UNCHANGED <<mem, kaddr, shmids>>
Duppage(p) ==
    LET q == job[p].child va == job[p].va e == Dup(pt[p][va]) IN
    /\ job[p].op = "fork" /\ va <= NVA
    /\ pt' = [pt EXCEPT ![p][va] = e, ![q][va] = e]
    /\ Counted(NULL, e.page, free)
    /\ job' = [job EXCEPT ![p].va = @ + 1]
    /\ UNCHANGED <<mem, kaddr, shmids>>

ForkDone(p) ==
    /\ job[p].op = "fork" /\ job[p].va > NVA
    /\ job' = [job EXCEPT ![p] = Run, ![job[p].child] = Run]
    /\ UNCHANGED <<pt, ref, free, mem, kaddr, shmids>>

\* proc_recycleupt() of a process that exits: an address at a time, and after
\* the last one the process is free.
VmUnmapper(p) ==
    LET va == IF job[p] = Run THEN 1 ELSE job[p].va IN
    /\ job[p] = Run \/ job[p].op = "exit"
    /\ PtMap(p, va, NoPte, free)
    /\ job' = [job EXCEPT ![p] = IF va = NVA THEN Unused ELSE Job("exit", va + 1, NULL, NULL)]
    /\ UNCHANGED <<mem, kaddr, shmids>>

\* shmget(IPC_CREAT), with alloc_kmem().
Shmget(p, s, g) ==
    /\ job[p] = Run /\ s \notin shmids
    /\ shmids' = shmids \cup {s}
    /\ kaddr' = [kaddr EXCEPT ![s] = g]
    /\ PmAlloc(g, Zero) /\ Counted(NULL, g, free \ {g})
    /\ UNCHANGED <<pt, job>>

\* shmat(), over whatever is at va.
Shmat(p, va, s) ==
    /\ job[p] = Run /\ kaddr[s] # NULL
    /\ PtMap(p, va, [page |-> kaddr[s], perm |-> {"U", "W", "SHARED"}, seg |-> s], free)
    /\ UNCHANGED <<mem, job, kaddr, shmids>>

\* shmctl(IPC_RMID): the kernel's mapping goes, the users' stay.
ShmRmid(p, s) ==
    /\ job[p] = Run /\ kaddr[s] # NULL
    /\ Counted(kaddr[s], NULL, free)
    /\ kaddr' = [kaddr EXCEPT ![s] = NULL]
    /\ UNCHANGED <<pt, mem, job, shmids>>

Next ==
    \E p \in Procs :
        \/ \E va \in VAs :
              \/ \E o \in {NULL} \cup Objects : SysMap(p, va, o)
              \/ \E prot \in Prots : SysMprotect(p, va, prot)
              \/ \E v \in Vals : Store(p, va, v)
              \/ \E s \in Segs : Shmat(p, va, s)
              \/ \E g \in Pages : Fault(p, va, g)
              \/ Unmap(p, va)
        \/ \E q \in Procs : Fork(p, q)
        \/ \E s \in Segs : (\E g \in Pages : Shmget(p, s, g)) \/ ShmRmid(p, s)
        \/ FaultMap(p) \/ Duppage(p) \/ ForkDone(p) \/ VmUnmapper(p)

Spec == Init /\ [][Next]_vars
-----------------------------------------------------------------------------
\* Who refers to a page: entries of page tables, and segments.
MapsOf(t, g) == {x \in Procs \X VAs : t[x[1]][x[2]].page = g}
UserMaps(g) == MapsOf(pt, g)
KernMaps(g) == {s \in Segs : kaddr[s] = g}
InFlight == {job[p].page : p \in Procs} \ {NULL}

\* ptModify(), ptClear() and pmPageDecRef() keep pages[].ref exact whoever maps
\* and unmaps in between: a page is on pageFreeList exactly when no table refers
\* to it and no fault handler is about to map it, so none is freed under a user
\* and none is lost.
RefExact ==
    \A g \in Pages : /\ ref[g] = Cardinality(UserMaps(g)) + Cardinality(KernMaps(g))
                     /\ g \in free <=> ref[g] = 0 /\ g \notin InFlight

\* A store is seen by nobody it should not be: duppage() and cow_handler() leave
\* no page writable in one table that another table or segment refers to, unless
\* it is for a shared object.
WritableIsPrivate ==
    \A p, q \in Procs : \A v, w \in VAs :
        ("W" \in pt[p][v].perm /\ "SHARED" \notin pt[p][v].perm /\ pt[p][v].page # NULL)
        => /\ <<q, w>> # <<p, v>> => pt[q][w].page # pt[p][v].page
           /\ \A s \in Segs : kaddr[s] # pt[p][v].page

\* Pages mmap()ed with MAP_SHARED are shared by parent and child, as the comment
\* in sys_mmap() says: two entries for one shared object are for one page.
SharedStaysShared ==
    \A p, q \in Procs : \A v, w \in VAs :
        (/\ pt[p][v].seg # NULL /\ pt[p][v].seg = pt[q][w].seg
         /\ pt[p][v].page # NULL /\ pt[q][w].page # NULL)
        => pt[p][v].page = pt[q][w].page

\* Copy-on-write, demand paging and reference counts are invisible: every process
\* has the address space of module Spaces, its own except for shared segments.
Seen(p) == job[p].op \in {"run", "fault", "fork"}
View(m, e) == IF e.page # NULL THEN m[e.page] ELSE IF Passive(e) THEN Zero ELSE NULL
aliveBar == {p \in Procs : Seen(p)}
userBar == {p \in Procs : job[p] = Run}
viewBar == [p \in Procs |-> [va \in VAs |-> IF Seen(p) THEN View(mem, pt[p][va]) ELSE NULL]]
segBar == [p \in Procs |-> [va \in VAs |-> IF Seen(p) THEN pt[p][va].seg ELSE NULL]]
segvalBar == [s \in Segs |-> IF kaddr[s] = NULL THEN NULL ELSE mem[kaddr[s]]]
Abstract == INSTANCE Spaces WITH
    alive <- aliveBar, user <- userBar, view <- viewBar, seg <- segBar, segval <- segvalBar
ImplementsSpaces == Abstract!Spec
=============================================================================
