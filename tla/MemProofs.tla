----------------------------- MODULE MemProofs ------------------------------
(***************************************************************************)
(* Reference counts of pages are exact, and what is writable in one page   *)
(* table and not shared is in no other, for any number of processes,       *)
(* pages, addresses and segments; and the invariant MemSpaces needs.       *)
(***************************************************************************)
EXTENDS Mem, FiniteSetTheorems, TLAPS

PTE == [page : Pages \cup {NULL}, perm : SUBSET {"U", "W", "COW", "SHARED"},
        seg : Segs \cup Objects \cup {NULL}]
JOB == [op : {"unused", "run", "fault", "fork", "new", "exit"}, va : 0..NVA + 1,
        page : Pages \cup {NULL}, child : Procs \cup {NULL}]

Types ==
    /\ pt \in [Procs -> [VAs -> PTE]]
    /\ ref \in [Pages -> Nat] /\ free \in SUBSET Pages
    /\ job \in [Procs -> JOB]
    /\ kaddr \in [Segs -> Pages \cup {NULL}]

\* A page on its way into a table is nobody else's.
Flight ==
    \A p \in Procs :
        /\ job[p].op = "fault" => /\ job[p].va \in VAs /\ job[p].page \in Pages
                                 /\ ref[job[p].page] = 0
        /\ job[p].op # "fault" => job[p].page = NULL
        /\ \A q \in Procs : p # q /\ job[p].page = job[q].page => job[p].page = NULL

\* A child has one parent, and nothing mapped that is not copied yet.
Children ==
    \A p \in Procs :
        /\ job[p].op = "fork" =>
              /\ job[p].va >= 1 /\ job[p].child \in Procs
              /\ job[job[p].child].op = "new"
              /\ \A va \in VAs : va >= job[p].va => pt[job[p].child][va] = NoPte
              /\ \A q \in Procs : p # q /\ job[q].op = "fork" => job[q].child # job[p].child
        /\ job[p].op = "unused" => \A va \in VAs : pt[p][va] = NoPte
        /\ job[p].op = "exit" => job[p].va \in VAs /\ \A va \in VAs : va < job[p].va => pt[p][va] = NoPte

NotYet == \A s \in Segs : s \notin shmids => kaddr[s] = NULL

\* RefExact in two halves, with the counts as RefAt() of the next section has them.
Users(S, f, g) == {x \in S : f[x] = g}
Entries == Procs \X VAs
PageOf(t) == [x \in Entries |-> t[x[1]][x[2]].page]
RefAt(r, t, k, g) ==
    r[g] = Cardinality(Users(Entries, PageOf(t), g)) + Cardinality(Users(Segs, k, g))
Counts == \A g \in Pages : RefAt(ref, pt, kaddr, g)
Lists == \A g \in Pages : g \in free <=> ref[g] = 0 /\ \A p \in Procs : job[p].page # g

IInv == Types /\ Counts /\ Lists /\ Flight /\ Children /\ NotYet
Careful == Prots \subseteq {{}}

-----------------------------------------------------------------------------
\* Two functions on S that differ at i at most, and two numbers, of elements with
\* one value, of which the second has what i contributes changed.
AgreeBut(S, f, h, i) == \A x \in S : x # i => h[x] = f[x]
Change(a, b, before, after) ==
    /\ a \in Nat /\ b \in Nat
    /\ before /\ ~after => a = b + 1
    /\ ~before /\ after => b = a + 1
    /\ before /\ after => b = a
    /\ ~before /\ ~after => b = a
    /\ (before => a # 0) /\ (after => b # 0)

\* What one changed value does to that number.
LEMMA CountChange ==
    ASSUME NEW S, IsFiniteSet(S), NEW f, NEW h, NEW i \in S, NEW g, AgreeBut(S, f, h, i)
    PROVE  Change(Cardinality(Users(S, f, g)), Cardinality(Users(S, h, g)), f[i] = g, h[i] = g)
<1> DEFINE A == Users(S, f, g)
           B == Users(S, h, g)
<1>1. /\ i \in A <=> f[i] = g
      /\ i \in B <=> h[i] = g
      /\ A \ {i} = B \ {i}
  BY Zenon DEF Users, AgreeBut
<1>2. A \subseteq S /\ B \subseteq S
  BY Zenon DEF Users
<1>3. IsFiniteSet(A) /\ IsFiniteSet(B)
  BY <1>2, FS_Subset
<1> HIDE DEF A, B
<1>4. Cardinality(A) \in Nat /\ Cardinality(B) \in Nat
  BY <1>3, FS_CardinalityType, Zenon
<1>5. /\ IsFiniteSet(A \ {i})
      /\ Cardinality(A \ {i}) = IF i \in A THEN Cardinality(A) - 1 ELSE Cardinality(A)
  BY <1>3, FS_RemoveElement, Zenon
<1>6. Cardinality(B \ {i}) = IF i \in B THEN Cardinality(B) - 1 ELSE Cardinality(B)
  BY <1>3, FS_RemoveElement
<1>7. Cardinality(A \ {i}) \in Nat
  BY <1>5, FS_CardinalityType
<1> DEFINE a == Cardinality(A)
           b == Cardinality(B)
           c == Cardinality(A \ {i})
<1>8. a \in Nat /\ b \in Nat /\ c \in Nat
      /\ c = (IF i \in A THEN a - 1 ELSE a) /\ c = (IF i \in B THEN b - 1 ELSE b)
  BY <1>1, <1>4, <1>5, <1>6, <1>7, Zenon
<1> HIDE DEF a, b, c
<1>9. /\ i \in A /\ i \notin B => a = b + 1
      /\ i \notin A /\ i \in B => b = a + 1
      /\ (i \in A /\ i \in B) \/ (i \notin A /\ i \notin B) => b = a
      /\ (i \in A => a # 0) /\ (i \in B => b # 0)
  BY <1>8
<1>10. /\ f[i] = g /\ h[i] # g => a = b + 1
       /\ f[i] # g /\ h[i] = g => b = a + 1
       /\ f[i] = g /\ h[i] = g => b = a
       /\ f[i] # g /\ h[i] # g => b = a
       /\ (f[i] = g => a # 0) /\ (h[i] = g => b # 0)
  BY <1>1, <1>9, Zenon
<1> QED
  BY <1>4, <1>10, Zenon DEF A, B, a, b, Change

\* What a change of one reference from old to new does, with left free before.
Kept(old, new, left) ==
    /\ ref' \in [Pages -> Nat] /\ free' \in SUBSET Pages
    /\ \A g \in Pages :
          /\ RefAt(ref', pt', kaddr', g)
          /\ g \in free' <=> g \in left \/ (ref[g] # 0 /\ ref'[g] = 0)
          /\ g # old /\ g # new => ref'[g] = ref[g]
          /\ g = old => ref[g] # 0
          /\ g = new => ref'[g] # 0

\* The counts of RefExact are those of RefAt.
LEMMA RefAtIsRef ==
    ASSUME NEW r, NEW t, NEW k, NEW g
    PROVE  RefAt(r, t, k, g) <=>
           r[g] = Cardinality(MapsOf(t, g)) + Cardinality({s \in Segs : k[s] = g})
<1>1. Users(Entries, PageOf(t), g) = MapsOf(t, g)
  BY Zenon DEF Users, PageOf, MapsOf, Entries
<1>2. Users(Segs, k, g) = {s \in Segs : k[s] = g}
  BY Zenon DEF Users
<1> QED
  BY <1>1, <1>2, Zenon DEF RefAt

\* Entries and segments are finite.
LEMMA EntriesFinite == IsFiniteSet(Entries) /\ IsFiniteSet(Segs)
<1>1. IsFiniteSet(VAs)
  BY MemAssumption, FS_Interval DEF VAs
<1> QED
  BY <1>1, MemAssumption, FS_Product DEF Entries

Moved(p, va, old, new) ==
    /\ pt[p][va].page = old /\ pt'[p][va].page = new
    /\ \A q \in Procs : \A w \in VAs : <<q, w>> # <<p, va>> => pt'[q][w].page = pt[q][w].page
\* Counted() does to the counts what one changed entry of a page table asks for,
LEMMA PtCounts ==
    ASSUME Types, Counts, NEW p \in Procs, NEW va \in VAs, NEW old, NEW new,
           NEW left \in SUBSET Pages, NULL \notin Pages,
           Moved(p, va, old, new), old \in Pages \cup {NULL},
           Counted(old, new, left), UNCHANGED kaddr
    PROVE  Kept(old, new, left)
<1> DEFINE t == pt
           u == pt'
           x == <<p, va>>
<1>1. /\ x \in Entries /\ PageOf(t)[x] = old /\ PageOf(u)[x] = new
      /\ AgreeBut(Entries, PageOf(t), PageOf(u), x)
  BY DEF PageOf, AgreeBut, Entries, Moved
<1>2. /\ ref \in [Pages -> Nat]
      /\ ref' = [g \in Pages |-> IF old = new THEN ref[g] ELSE IF g = old THEN ref[g] - 1
                                 ELSE IF g = new THEN ref[g] + 1 ELSE ref[g]]
      /\ free' = left \cup {g \in {old} \ {new, NULL} : ref[g] = 1}
  BY Zenon DEF Counted, Types
<1>3. \A g \in Pages : RefAt(ref, t, kaddr, g)
  BY Zenon DEF Counts
<1> HIDE DEF t, u, x
<1>4. ASSUME NEW g \in Pages
      PROVE  /\ RefAt(ref', u, kaddr', g) /\ ref'[g] \in Nat
             /\ g \in free' <=> g \in left \/ (ref[g] # 0 /\ ref'[g] = 0)
             /\ g # old /\ g # new => ref'[g] = ref[g]
             /\ g = old => ref[g] # 0
             /\ g = new => ref'[g] # 0
  <2> DEFINE a == Cardinality(Users(Entries, PageOf(t), g))
             b == Cardinality(Users(Entries, PageOf(u), g))
             k == Cardinality(Users(Segs, kaddr, g))
  <2>1. Change(a, b, PageOf(t)[x] = g, PageOf(u)[x] = g)
    BY <1>1, EntriesFinite, CountChange, Zenon
  <2>2. Change(a, b, old = g, new = g)
    BY <1>1, <2>1, Zenon
  <2>3. Users(Segs, kaddr, g) \subseteq Segs
    BY Zenon DEF Users
  <2>4. k \in Nat
    BY <2>3, EntriesFinite, FS_Subset, FS_CardinalityType, Zenon
  <2>5. ref[g] = a + k /\ (RefAt(ref', u, kaddr', g) <=> ref'[g] = b + k)
    BY <1>3, Zenon DEF RefAt
  <2> HIDE DEF a, b, k
  <2>6. ref'[g] = IF old = new THEN ref[g] ELSE IF g = old THEN ref[g] - 1
                  ELSE IF g = new THEN ref[g] + 1 ELSE ref[g]
    BY <1>2
  <2>7. /\ ref'[g] \in Nat /\ ref'[g] = b + k
        /\ g # old /\ g # new => ref'[g] = ref[g]
        /\ g = old => ref[g] # 0
        /\ g = new => ref'[g] # 0
        /\ ref[g] # 0 /\ ref'[g] = 0 => g = old /\ g # new /\ ref[g] = 1
        /\ g = old /\ g # new /\ ref[g] = 1 => ref'[g] = 0
    BY <1>2, <2>2, <2>4, <2>5, <2>6 DEF Change
  <2>8. g \in free' <=> g \in left \/ (g = old /\ g # new /\ ref[g] = 1)
    BY <1>2, Zenon
  <2> QED
    BY <2>5, <2>7, <2>8, Zenon
<1>5. ref' \in [Pages -> Nat] /\ free' \in SUBSET Pages
  BY <1>2, <1>4, Zenon
<1> QED
  BY <1>4, <1>5, Zenon DEF Kept, u

\* and what the kernel's mapping of one segment asks for.
LEMMA KernCounts ==
    ASSUME Types, Counts, NEW s \in Segs, NEW old, NEW new,
           NEW left \in SUBSET Pages, NULL \notin Pages,
           kaddr[s] = old, kaddr'[s] = new, old \in Pages \cup {NULL},
           \A z \in Segs : z # s => kaddr'[z] = kaddr[z],
           Counted(old, new, left), UNCHANGED pt
    PROVE  Kept(old, new, left)
<1> DEFINE t == kaddr
           u == kaddr'
<1>1. t[s] = old /\ u[s] = new /\ AgreeBut(Segs, t, u, s)
  BY Zenon DEF AgreeBut
<1>2. /\ ref \in [Pages -> Nat]
      /\ ref' = [g \in Pages |-> IF old = new THEN ref[g] ELSE IF g = old THEN ref[g] - 1
                                 ELSE IF g = new THEN ref[g] + 1 ELSE ref[g]]
      /\ free' = left \cup {g \in {old} \ {new, NULL} : ref[g] = 1}
  BY Zenon DEF Counted, Types
<1>3. \A g \in Pages : RefAt(ref, pt, t, g)
  BY Zenon DEF Counts
<1> HIDE DEF t, u
<1>4. ASSUME NEW g \in Pages
      PROVE  /\ RefAt(ref', pt', u, g) /\ ref'[g] \in Nat
             /\ g \in free' <=> g \in left \/ (ref[g] # 0 /\ ref'[g] = 0)
             /\ g # old /\ g # new => ref'[g] = ref[g]
             /\ g = old => ref[g] # 0
             /\ g = new => ref'[g] # 0
  <2> DEFINE a == Cardinality(Users(Segs, t, g))
             b == Cardinality(Users(Segs, u, g))
             k == Cardinality(Users(Entries, PageOf(pt), g))
  <2>1. Change(a, b, t[s] = g, u[s] = g)
    BY <1>1, EntriesFinite, CountChange
  <2>2. Change(a, b, old = g, new = g)
    BY <1>1, <2>1, Zenon
  <2>3. Users(Entries, PageOf(pt), g) \subseteq Entries
    BY Zenon DEF Users
  <2>4. k \in Nat
    BY <2>3, EntriesFinite, FS_Subset, FS_CardinalityType
  <2>5. ref[g] = a + k /\ (RefAt(ref', pt', u, g) <=> ref'[g] = b + k)
    <3>1. a \in Nat /\ b \in Nat
      BY <2>2, Zenon DEF Change
    <3>2. ref[g] = k + a /\ (RefAt(ref', pt', u, g) <=> ref'[g] = k + b)
      BY <1>3, Zenon DEF RefAt
    <3> QED
      BY <2>4, <3>1, <3>2
  <2> HIDE DEF a, b, k
  <2>6. ref'[g] = IF old = new THEN ref[g] ELSE IF g = old THEN ref[g] - 1
                  ELSE IF g = new THEN ref[g] + 1 ELSE ref[g]
    BY <1>2, Zenon
  <2>7. /\ ref'[g] \in Nat /\ ref'[g] = b + k
        /\ g # old /\ g # new => ref'[g] = ref[g]
        /\ g = old => ref[g] # 0
        /\ g = new => ref'[g] # 0
        /\ ref[g] # 0 /\ ref'[g] = 0 => g = old /\ g # new /\ ref[g] = 1
        /\ g = old /\ g # new /\ ref[g] = 1 => ref'[g] = 0
    BY <1>2, <2>2, <2>4, <2>5, <2>6 DEF Change
  <2>8. g \in free' <=> g \in left \/ (g = old /\ g # new /\ ref[g] = 1)
    BY <1>2, Zenon
  <2> QED
    BY <2>5, <2>7, <2>8, Zenon
<1>5. ref' \in [Pages -> Nat] /\ free' \in SUBSET Pages
  BY <1>2, <1>4, Zenon
<1> QED
  BY <1>4, <1>5, Zenon DEF Kept, u

\* A page that a table or a segment refers to has a count.
LEMMA Mapped ==
    ASSUME Types, Counts, NEW g \in Pages, ref[g] = 0
    PROVE  /\ \A p \in Procs : \A va \in VAs : pt[p][va].page # g
           /\ \A s \in Segs : kaddr[s] # g
<1> DEFINE a == Cardinality(Users(Entries, PageOf(pt), g))
           k == Cardinality(Users(Segs, kaddr, g))
<1>1. Users(Entries, PageOf(pt), g) \subseteq Entries /\ Users(Segs, kaddr, g) \subseteq Segs
  BY Zenon DEF Users
<1>2. IsFiniteSet(Users(Entries, PageOf(pt), g)) /\ IsFiniteSet(Users(Segs, kaddr, g))
  BY <1>1, EntriesFinite, FS_Subset, Zenon
<1>3. a \in Nat /\ k \in Nat
  BY <1>2, FS_CardinalityType, Zenon
<1>4. a + k = 0
  BY DEF Counts, RefAt
<1>5. a = 0 /\ k = 0
  BY <1>3, <1>4
<1>6. Users(Entries, PageOf(pt), g) = {} /\ Users(Segs, kaddr, g) = {}
  BY <1>2, <1>5, FS_EmptySet, Zenon
<1>7. \A p \in Procs : \A va \in VAs : <<p, va>> \in Entries /\ PageOf(pt)[<<p, va>>] = pt[p][va].page
  BY Zenon DEF PageOf, Entries
<1>8. \A p \in Procs : \A va \in VAs : pt[p][va].page # g
  <2> SUFFICES ASSUME NEW p \in Procs, NEW va \in VAs, pt[p][va].page = g PROVE FALSE
    OBVIOUS
  <2>1. <<p, va>> \in Users(Entries, PageOf(pt), g)
    BY <1>7, Zenon DEF Users
  <2> QED
    BY <1>6, <2>1, Zenon
<1>9. \A s \in Segs : kaddr[s] # g
  BY <1>6, Zenon DEF Users
<1> QED
  BY <1>8, <1>9, Zenon

\* Free list and faults follow the counts.
LEMMA Settle ==
    ASSUME IInv, NEW old, NEW new, NEW left, Kept(old, new, left), NULL \notin Pages,
           \A g \in Pages : g # new => (g \in left <=> g \in free), new \notin left,
           \A p \in Procs : \/ job'[p].page = job[p].page /\ (new # NULL => job[p].page # new)
                            \/ job[p].page = new /\ job'[p].page = NULL
    PROVE  /\ Counts' /\ Lists'
           /\ \A p \in Procs : job'[p].page \in Pages => ref'[job'[p].page] = 0
<1>1. ASSUME NEW g \in Pages, NEW p \in Procs, job'[p].page = g
      PROVE  job[p].page = g /\ g # new /\ ref[g] = 0 /\ ref'[g] = 0
  BY <1>1 DEF Kept, IInv, Flight, Types, JOB
<1>2. ASSUME NEW g \in Pages
      PROVE  g \in free' <=> ref'[g] = 0 /\ \A p \in Procs : job'[p].page # g
  <2>1. /\ g \in free' <=> g \in left \/ (ref[g] # 0 /\ ref'[g] = 0)
        /\ g # old /\ g # new => ref'[g] = ref[g]
        /\ (g = old => ref[g] # 0) /\ (g = new => ref'[g] # 0)
    BY Zenon DEF Kept
  <2>2. g \in free <=> ref[g] = 0 /\ \A p \in Procs : job[p].page # g
    BY Zenon DEF IInv, Lists
  <2>3. CASE g = new
    BY <2>1, <2>3
  <2>4. CASE g # new /\ ref[g] = 0
    BY <2>1, <2>2, <2>4, Zenon
  <2>5. CASE g # new /\ ref[g] # 0
    BY <1>1, <2>1, <2>2, <2>5, Zenon
  <2> QED
    BY <2>3, <2>4, <2>5, Zenon
<1> QED
  BY <1>1, <1>2 DEF Counts, Lists, Kept

\* ptMap() by a process that runs, of a page that is in use, or fresh, or none.
LEMMA UserMap ==
    ASSUME IInv, NEW p \in Procs, NEW va \in VAs, NEW e \in PTE, NEW left,
           job[p] = Run, PtMap(p, va, e, left), UNCHANGED <<job, kaddr, shmids>>,
           \/ left = free /\ (e.page = NULL \/ ref[e.page] # 0)
           \/ e.page \in free /\ left = free \ {e.page}
    PROVE  IInv'
<1>1. PICK old \in Pages \cup {NULL} : old = pt[p][va].page
  BY DEF IInv, Types, PTE
<1>2. /\ pt' \in [Procs -> [VAs -> PTE]] /\ pt'[p][va] = e
      /\ \A q \in Procs : \A w \in VAs : <<q, w>> # <<p, va>> => pt'[q][w] = pt[q][w]
  BY Zenon DEF PtMap, IInv, Types
<1>3. NULL \notin Pages /\ e.page \in Pages \cup {NULL} /\ left \in SUBSET Pages
  BY MemAssumption DEF IInv, Types, PTE
<1>4. Kept(old, e.page, left)
  <2>1. Counted(old, e.page, left) /\ UNCHANGED kaddr /\ Types /\ Counts
    BY <1>1, Zenon DEF PtMap, IInv
  <2>2. Moved(p, va, old, e.page)
    BY <1>1, <1>2, Zenon DEF Moved
  <2> QED
    BY <1>3, <2>1, <2>2, PtCounts, Zenon
<1>5. /\ Counts' /\ Lists'
      /\ \A q \in Procs : job'[q].page \in Pages => ref'[job'[q].page] = 0
  <2>1. /\ \A g \in Pages : g # e.page => (g \in left <=> g \in free)
        /\ e.page \notin left
        /\ \A q \in Procs : e.page # NULL => job[q].page # e.page
    BY <1>3 DEF IInv, Types, Lists, Flight
  <2> QED
    BY <1>3, <1>4, <2>1, Settle
<1>6. Types'
  BY <1>2, <1>4, Zenon DEF IInv, Types, Kept
<1>7. Flight'
  BY <1>5, Zenon DEF IInv, Flight
<1>8. Children'
  <2>1. job[p].op = "run" /\ job' = job
    BY SMTT(60) DEF Run, Job
  <2>2. \A q \in Procs : q # p => \A w \in VAs : pt'[q][w] = pt[q][w]
    BY <1>2, Zenon
  <2> QED
    BY <2>1, <2>2, SMTT(60) DEF IInv, Children
<1>9. NotYet'
  BY Zenon DEF IInv, NotYet
<1> QED
  BY <1>5, <1>6, <1>7, <1>8, <1>9 DEF IInv
-----------------------------------------------------------------------------
\* What refers to a page gives it a count.
LEMMA InUse ==
    ASSUME IInv
    PROVE  /\ \A p \in Procs : \A va \in VAs : pt[p][va].page = NULL \/ ref[pt[p][va].page] # 0
           /\ \A s \in Segs : kaddr[s] = NULL \/ ref[kaddr[s]] # 0
<1>1. Types /\ Counts
  BY Zenon DEF IInv
<1>2. \A g \in Pages : ref[g] = 0 => /\ \A p \in Procs : \A va \in VAs : pt[p][va].page # g
                                     /\ \A s \in Segs : kaddr[s] # g
  BY <1>1, Mapped, Zenon
<1> QED
  BY <1>1, <1>2 DEF Types, PTE

\* sys_map(), ptUnmap(), sys_mprotect() and shmat() keep the invariant:
LEMMA SysMapKeeps ==
    ASSUME IInv, NEW p \in Procs, NEW va \in VAs, NEW o \in {NULL} \cup Objects, SysMap(p, va, o)
    PROVE  IInv'
<1> DEFINE perm == IF o = NULL THEN {"U", "W"} ELSE {"U", "W", "SHARED"}
<1>1. perm \in SUBSET {"U", "W", "COW", "SHARED"}
  BY Zenon
<1> HIDE DEF perm
<1>2. job[p] = Run /\ UNCHANGED <<job, kaddr, shmids>>
  BY Zenon DEF SysMap
<1>3. CASE va < PASSIVE_THRESHOLD
  <2> DEFINE r == [page |-> NULL, seg |-> o, perm |-> perm]
  <2>1. PICK g \in Pages : g \in free /\ PtMap(p, va, [r EXCEPT !.page = g], free \ {g})
    BY <1>3, Zenon DEF SysMap, PmAlloc, perm
  <2>2. [r EXCEPT !.page = g] = [page |-> g, seg |-> o, perm |-> perm]
    OBVIOUS
  <2>3. PICK e \in PTE : e = [page |-> g, seg |-> o, perm |-> perm]
    BY <1>1, Zenon DEF PTE
  <2>4. e = [r EXCEPT !.page = g] /\ e.page = g
    BY <2>2, <2>3, Zenon
  <2> QED
    BY <1>2, <2>1, <2>4, UserMap
<1>4. CASE ~(va < PASSIVE_THRESHOLD)
  <2>1. PICK e \in PTE : e = [page |-> NULL, seg |-> o, perm |-> perm]
    BY <1>1, Zenon DEF PTE
  <2>2. PtMap(p, va, e, free)
    BY <1>4, <2>1 DEF SysMap, perm
  <2> QED
    BY <1>2, <2>1, <2>2, UserMap
<1> QED
  BY <1>3, <1>4, Zenon

LEMMA UnmapKeeps ==
    ASSUME IInv, NEW p \in Procs, NEW va \in VAs, Unmap(p, va)
    PROVE  IInv'
<1>1. PICK e \in PTE : e = NoPte
  BY Zenon DEF PTE, NoPte
<1>2. e.page = NULL
  BY <1>1 DEF NoPte
<1> QED
  BY <1>1, <1>2, UserMap, Zenon DEF Unmap

LEMMA SysMprotectKeeps ==
    ASSUME IInv, NEW p \in Procs, NEW va \in VAs, NEW prot \in Prots, SysMprotect(p, va, prot)
    PROVE  IInv'
<1>1. prot \subseteq {"W"}
  BY MemAssumption, Zenon
<1>2. pt[p][va] \in PTE
  BY DEF IInv, Types
<1>3. PICK e \in PTE : e = [pt[p][va] EXCEPT !.perm = {"U"} \cup prot]
  BY <1>1, <1>2, Zenon DEF PTE
<1>4. e.page = pt[p][va].page
  BY <1>2, <1>3, Zenon DEF PTE
<1> QED
  BY <1>3, <1>4, InUse, UserMap DEF SysMprotect

LEMMA ShmatKeeps ==
    ASSUME IInv, NEW p \in Procs, NEW va \in VAs, NEW s \in Segs, Shmat(p, va, s)
    PROVE  IInv'
<1>1. kaddr[s] \in Pages
  BY Zenon DEF Shmat, IInv, Types
<1>2. PICK e \in PTE : e = [page |-> kaddr[s], perm |-> {"U", "W", "SHARED"}, seg |-> s]
  BY <1>1, Zenon DEF PTE
<1> QED
  BY <1>1, <1>2, InUse, UserMap DEF Shmat

\* page_fault_handler(): the new page is nobody's until it is mapped.
LEMMA FaultKeeps ==
    ASSUME IInv, NEW p \in Procs, NEW va \in VAs, NEW g \in Pages, Fault(p, va, g)
    PROVE  IInv'
<1> USE DEF IInv
<1>1. /\ job[p] = Run /\ g \in free /\ free' = free \ {g}
      /\ job' = [job EXCEPT ![p] = Job("fault", va, g, NULL)]
      /\ UNCHANGED <<pt, ref, kaddr, shmids>>
  BY Zenon DEF Fault, PmAlloc
<1>2. /\ job \in [Procs -> JOB] /\ job[p].op = "run" /\ NULL \notin Pages
      /\ ref[g] = 0 /\ \A q \in Procs : job[q].page # g
  BY <1>1, MemAssumption DEF Types, Lists, Run, Job
<1>3. /\ job'[p] = [op |-> "fault", va |-> va, page |-> g, child |-> NULL]
      /\ \A q \in Procs : q # p => job'[q] = job[q]
  BY <1>1, <1>2 DEF Job
<1>4. job' \in [Procs -> JOB]
  <2>1. [op |-> "fault", va |-> va, page |-> g, child |-> NULL] \in JOB
    BY MemAssumption DEF JOB, VAs
  <2> QED
    BY <1>1, <1>2, <2>1, Zenon DEF Job
<1>5. Types'
  BY <1>1, <1>4, Zenon DEF Types
<1>6. Counts'
  BY <1>1, Zenon DEF Counts
<1>7. Lists'
  BY <1>1, <1>2, <1>3 DEF Lists, Run, Job
<1>8. Flight'
  BY <1>1, <1>2, <1>3 DEF Flight
<1>9. Children'
  BY <1>1, <1>2, <1>3, SMTT(60) DEF Children
<1>10. NotYet'
  BY <1>1, Zenon DEF NotYet
<1> QED
  BY <1>1, <1>5, <1>6, <1>7, <1>8, <1>9, <1>10

LEMMA FaultMapKeeps ==
    ASSUME IInv, NEW p \in Procs, FaultMap(p)
    PROVE  IInv'
<1>1. PICK va \in VAs, n \in Pages : va = job[p].va /\ n = job[p].page
  BY Zenon DEF IInv, Flight, FaultMap
<1>2. PICK old \in Pages \cup {NULL} : old = pt[p][va].page
  BY DEF IInv, Types, PTE
<1> DEFINE perm == IF IsCow(pt[p][va]) THEN (pt[p][va].perm \ {"COW"}) \cup {"W"} ELSE pt[p][va].perm
<1>3. pt[p][va] \in PTE /\ perm \in SUBSET {"U", "W", "COW", "SHARED"}
  BY DEF IInv, Types, PTE
<1> HIDE DEF perm
<1>4. PICK e \in PTE : e = [page |-> n, seg |-> pt[p][va].seg, perm |-> perm]
  BY <1>3, Zenon DEF PTE
<1>5. /\ PtMap(p, va, e, free) /\ UNCHANGED <<kaddr, shmids>>
      /\ job' = [job EXCEPT ![p] = Run] /\ job[p].op = "fault"
  BY <1>1, <1>4, Zenon DEF FaultMap, perm
<1>6. /\ pt' \in [Procs -> [VAs -> PTE]] /\ pt'[p][va] = e
      /\ \A q \in Procs : \A w \in VAs : <<q, w>> # <<p, va>> => pt'[q][w] = pt[q][w]
  BY <1>5, Zenon DEF PtMap, IInv, Types
<1>7. /\ NULL \notin Pages /\ job \in [Procs -> JOB] /\ free \in SUBSET Pages
      /\ n \notin free /\ \A q \in Procs : q # p => job[q].page # n
  BY <1>1, MemAssumption DEF IInv, Types, Lists, Flight
<1>8. /\ job'[p].op = "run" /\ job'[p].page = NULL /\ job' \in [Procs -> JOB]
      /\ \A q \in Procs : q # p => job'[q] = job[q]
  BY <1>5, <1>7, MemAssumption DEF Run, Job, JOB
<1>9. Kept(old, n, free)
  <2>1. Counted(old, n, free) /\ UNCHANGED kaddr /\ Types /\ Counts
    BY <1>2, <1>4, <1>5, Zenon DEF PtMap, IInv
  <2>2. Moved(p, va, old, n)
    BY <1>2, <1>4, <1>6, SMTT(60) DEF Moved
  <2> QED
    BY <1>7, <2>1, <2>2, PtCounts, Zenon
<1>10. /\ Counts' /\ Lists'
       /\ \A q \in Procs : job'[q].page \in Pages => ref'[job'[q].page] = 0
  <2>1. \A q \in Procs : \/ job'[q].page = job[q].page /\ (n # NULL => job[q].page # n)
                         \/ job[q].page = n /\ job'[q].page = NULL
    BY <1>1, <1>7, <1>8, Zenon
  <2> QED
    BY <1>7, <1>9, <2>1, Settle
<1>11. Types'
  BY <1>5, <1>6, <1>8, <1>9, Zenon DEF IInv, Types, Kept
<1>12. Flight'
  BY <1>8, <1>10, SMTT(60) DEF IInv, Flight
<1>13. Children'
  <2>1. \A q \in Procs : q # p => \A w \in VAs : pt'[q][w] = pt[q][w]
    BY <1>6, Zenon
  <2> QED
    BY <1>5, <1>8, <2>1, SMTT(60) DEF IInv, Children
<1>14. NotYet'
  BY <1>5, Zenon DEF IInv, NotYet
<1> QED
  BY <1>5, <1>10, <1>11, <1>12, <1>13, <1>14, Zenon DEF IInv

\* Contents of pages do not matter here.
LEMMA SameKeeps ==
    ASSUME IInv, UNCHANGED <<pt, ref, free, job, kaddr, shmids>>
    PROVE  IInv'
<1>1. Types'
  BY Zenon DEF IInv, Types
<1>2. Counts' /\ Lists'
  BY Zenon DEF IInv, Counts, Lists
<1>3. Flight'
  BY Zenon DEF IInv, Flight
<1>4. Children'
  BY DEF IInv, Children
<1>5. NotYet'
  BY Zenon DEF IInv, NotYet
<1> QED
  BY <1>1, <1>2, <1>3, <1>4, <1>5, Zenon DEF IInv

LEMMA StoreKeeps ==
    ASSUME IInv, NEW p \in Procs, NEW va \in VAs, NEW v \in Vals, Store(p, va, v)
    PROVE  IInv'
  BY SameKeeps DEF Store

\* fork(): the child's table is empty and fills from the bottom.
LEMMA ForkKeeps ==
    ASSUME IInv, NEW p \in Procs, NEW q \in Procs, Fork(p, q)
    PROVE  IInv'
<1> USE DEF IInv
<1>1. /\ job[p] = Run /\ job[q] = Unused /\ UNCHANGED <<pt, ref, free, kaddr, shmids>>
      /\ job' = [job EXCEPT ![p] = Job("fork", 1, NULL, q), ![q] = Job("new", 0, NULL, NULL)]
  BY DEF Fork
<1>2. /\ job \in [Procs -> JOB] /\ NVA \in Nat \ {0}
      /\ job[p].op = "run" /\ job[p].page = NULL /\ job[q].op = "unused" /\ job[q].page = NULL
  BY <1>1, MemAssumption, SMTT(60) DEF Types, Run, Unused, Job
<1>3. p # q
  BY <1>2, Zenon
<1>4. Job("fork", 1, NULL, q) \in JOB /\ Job("new", 0, NULL, NULL) \in JOB
  BY <1>2, SMTT(60) DEF Job, JOB
<1>5. /\ job'[p] = [op |-> "fork", va |-> 1, page |-> NULL, child |-> q]
      /\ job'[q] = [op |-> "new", va |-> 0, page |-> NULL, child |-> NULL]
      /\ \A z \in Procs : z # p /\ z # q => job'[z] = job[z]
  BY <1>1, <1>2, <1>3, Zenon DEF Job
<1>6. job' \in [Procs -> JOB]
  BY <1>1, <1>2, <1>4, Zenon
<1>7. Types'
  BY <1>1, <1>6, Zenon DEF Types
<1>8. Counts'
  BY <1>1, Zenon DEF Counts
<1>9. Lists'
  <2>1. \A z \in Procs : job'[z].page = job[z].page
    BY <1>2, <1>5, SMTT(60)
  <2>2. Lists
    BY Zenon
  <2> HIDE DEF IInv
  <2> QED
    BY <1>1, <2>1, <2>2 DEF Lists
<1>10. Flight'
  BY <1>1, <1>2, <1>3, <1>5, SMTT(60) DEF Flight
<1>11. Children'
  <2>1. \A z \in Procs : job[z].op = "fork" => job[z].child # q
    BY <1>2, Zenon DEF Children
  <2> QED
    BY <1>1, <1>2, <1>3, <1>5, <2>1, SMTT(60) DEF Children
<1>12. NotYet'
  BY <1>1, Zenon DEF NotYet
<1> QED
  BY <1>1, <1>7, <1>8, <1>9, <1>10, <1>11, <1>12

LEMMA DuppageKeeps ==
    ASSUME IInv, NEW p \in Procs, Duppage(p)
    PROVE  IInv'
<1>1. PICK q \in Procs, va \in VAs : q = job[p].child /\ va = job[p].va
  BY MemAssumption, SMTT(60) DEF IInv, Children, Duppage, Types, JOB, VAs
<1>2. /\ job[p].op = "fork" /\ job[q].op = "new" /\ p # q /\ pt[q][va] = NoPte
      /\ \A z \in Procs : p # z /\ job[z].op = "fork" => job[z].child # q
  BY <1>1, MemAssumption, SMTT(60) DEF IInv, Children, Duppage, VAs
<1>3. pt[p][va] \in PTE /\ pt[q][va].page = NULL /\ NULL \notin Pages
  BY <1>2, MemAssumption, SMTT(60) DEF IInv, Types, NoPte
<1>4. PICK e \in PTE : e = Dup(pt[p][va]) /\ e.page = pt[p][va].page
  <2>1. PICK r \in PTE : r = pt[p][va]
    BY <1>3, Zenon
  <2>2. PICK perm \in SUBSET {"U", "W", "COW", "SHARED"} : perm = (r.perm \ {"W"}) \cup {"COW"}
    BY Zenon DEF PTE
  <2>3. [r EXCEPT !.perm = perm] \in PTE /\ [r EXCEPT !.perm = perm].page = r.page
    BY Zenon DEF PTE
  <2>4. Dup(r) = r \/ Dup(r) = [r EXCEPT !.perm = perm]
    BY <2>2, Zenon DEF Dup
  <2> QED
    BY <2>1, <2>3, <2>4, Zenon
<1>5. /\ pt' = [pt EXCEPT ![p][va] = e, ![q][va] = e] /\ Counted(NULL, e.page, free)
      /\ job' = [job EXCEPT ![p].va = @ + 1] /\ UNCHANGED <<kaddr, shmids>>
  BY <1>1, <1>4, Zenon DEF Duppage
<1>6. /\ pt' \in [Procs -> [VAs -> PTE]] /\ pt'[p][va] = e /\ pt'[q][va] = e
      /\ \A z \in Procs : \A w \in VAs : <<z, w>> # <<p, va>> /\ <<z, w>> # <<q, va>> => pt'[z][w] = pt[z][w]
  BY <1>2, <1>5 DEF IInv, Types
<1>7. /\ job'[p] = [op |-> "fork", va |-> va + 1, page |-> job[p].page, child |-> q]
      /\ job' \in [Procs -> JOB] /\ \A z \in Procs : z # p => job'[z] = job[z]
  <2>1. job \in [Procs -> JOB] /\ va + 1 \in 0..NVA + 1
    BY MemAssumption DEF IInv, Types, VAs
  <2>2. job[p] = [op |-> "fork", va |-> va, page |-> job[p].page, child |-> q]
    BY <1>1, <1>2, <2>1, Zenon DEF JOB
  <2> QED
    BY <1>1, <1>5, <2>1, <2>2 DEF JOB
<1>8. Kept(NULL, e.page, free)
  <2>1. Types /\ Counts /\ UNCHANGED kaddr /\ free \in SUBSET Pages
    BY <1>5, Zenon DEF IInv, Types
  <2>2. Moved(q, va, NULL, e.page)
    BY <1>3, <1>4, <1>6 DEF Moved
  <2> QED
    BY <1>3, <1>5, <2>1, <2>2, PtCounts
<1>9. e.page # NULL => ref[e.page] # 0
  BY <1>4, InUse
<1>10. /\ Counts' /\ Lists'
       /\ \A z \in Procs : job'[z].page \in Pages => ref'[job'[z].page] = 0
  <2>1. PICK new \in Pages \cup {NULL} : new = e.page
    BY Zenon DEF PTE
  <2>2. new \notin free /\ \A z \in Procs : new # NULL => job[z].page # new
    BY <1>3, <1>9, <2>1 DEF IInv, Types, Lists, Flight
  <2>3. \A z \in Procs : job'[z].page = job[z].page
    BY <1>7, SMTT(60)
  <2> QED
    BY <1>3, <1>8, <2>1, <2>2, <2>3, Settle, SMTT(60)
<1>11. Types'
  BY <1>5, <1>6, <1>7, <1>8, Zenon DEF IInv, Types, Kept
<1>12. Flight'
  BY <1>2, <1>7, <1>10, SMTT(60) DEF IInv, Flight
<1>13. Children'
  <2>1. \A z \in Procs : z # p /\ z # q => \A w \in VAs : pt'[z][w] = pt[z][w]
    BY <1>6, Zenon
  <2>2. \A w \in VAs : w >= va + 1 => w # va /\ w >= va /\ pt'[q][w] = pt[q][w]
    BY <1>6, MemAssumption, SMTT(60) DEF VAs
  <2>3. va + 1 >= 1
    BY MemAssumption DEF VAs
  <2> QED
    BY <1>1, <1>2, <1>7, <2>1, <2>2, <2>3, SMTT(60) DEF IInv, Children
<1>14. NotYet'
  BY <1>5, Zenon DEF IInv, NotYet
<1> QED
  BY <1>5, <1>10, <1>11, <1>12, <1>13, <1>14, Zenon DEF IInv

LEMMA ForkDoneKeeps ==
    ASSUME IInv, NEW p \in Procs, ForkDone(p)
    PROVE  IInv'
<1> USE DEF IInv
<1>1. PICK q \in Procs : q = job[p].child
  BY Zenon DEF Children, ForkDone
<1>2. /\ job' = [job EXCEPT ![p] = Run, ![q] = Run] /\ UNCHANGED <<pt, ref, free, kaddr, shmids>>
      /\ job[p].op = "fork" /\ job[q].op = "new" /\ job \in [Procs -> JOB] /\ Run \in JOB
  BY <1>1, MemAssumption, SMTT(60) DEF ForkDone, Children, Types, Run, Job, JOB
<1>3. /\ job' \in [Procs -> JOB] /\ job'[p] = Run /\ job'[q] = Run
      /\ \A z \in Procs : z # p /\ z # q => job'[z] = job[z]
  BY <1>2, Zenon
<1>4. Run.op = "run" /\ Run.page = NULL /\ job[p].page = NULL /\ job[q].page = NULL
  BY <1>2, Zenon DEF Run, Job, Flight
<1>5. Types' /\ Counts'
  BY <1>2, <1>3 DEF Types, Counts
<1>6. Lists'
  <2>1. \A z \in Procs : job'[z].page = job[z].page
    BY <1>3, <1>4, Zenon
  <2> QED
    BY <1>2, <2>1, SMTT(60) DEF Lists
<1>7. Flight'
  BY <1>2, <1>3, <1>4 DEF Flight
<1>8. Children'
  BY <1>1, <1>2, <1>3, <1>4, SMTT(60) DEF Children
<1>9. NotYet'
  BY <1>2, Zenon DEF NotYet
<1> QED
  BY <1>2, <1>5, <1>6, <1>7, <1>8, <1>9

\* proc_recycleupt(): the table of a process that is freed is empty.
LEMMA VmUnmapperKeeps ==
    ASSUME IInv, NEW p \in Procs, VmUnmapper(p)
    PROVE  IInv'
<1>1. PICK va \in VAs : va = IF job[p] = Run THEN 1 ELSE job[p].va
  BY MemAssumption, SMTT(60) DEF IInv, Children, VmUnmapper, VAs
<1>2. /\ PtMap(p, va, NoPte, free) /\ UNCHANGED <<kaddr, shmids>>
      /\ job' = [job EXCEPT ![p] = IF va = NVA THEN Unused ELSE Job("exit", va + 1, NULL, NULL)]
      /\ job[p] = Run \/ job[p].op = "exit"
  BY <1>1, Zenon DEF VmUnmapper
<1>3. /\ NULL \notin Pages /\ job \in [Procs -> JOB] /\ NoPte \in PTE /\ NoPte.page = NULL
      /\ free \in SUBSET Pages
  BY MemAssumption, Zenon DEF IInv, Types, NoPte, PTE
<1>4. /\ job[p].op \in {"run", "exit"} /\ job[p].page = NULL
      /\ \A w \in VAs : w < va => pt[p][w] = NoPte
  <2>1. CASE job[p] = Run
    BY <1>1, <2>1, SMTT(60) DEF Run, Job, VAs
  <2>2. CASE job[p].op = "exit" /\ job[p] # Run
    BY <1>1, <2>2, Zenon DEF IInv, Flight, Children
  <2> QED
    BY <1>2, <2>1, <2>2, Zenon
<1>5. PICK j \in JOB : /\ j = IF va = NVA THEN Unused ELSE Job("exit", va + 1, NULL, NULL)
                      /\ j.page = NULL
                      /\ \/ j.op = "unused" /\ va = NVA
                         \/ j.op = "exit" /\ j.va = va + 1 /\ va + 1 \in VAs
  <2>1. Unused \in JOB /\ Unused.page = NULL /\ Unused.op = "unused"
    BY MemAssumption DEF Unused, Job, JOB
  <2>2. ASSUME va # NVA
        PROVE  /\ va + 1 \in VAs /\ Job("exit", va + 1, NULL, NULL) \in JOB
               /\ Job("exit", va + 1, NULL, NULL).page = NULL
               /\ Job("exit", va + 1, NULL, NULL).op = "exit"
               /\ Job("exit", va + 1, NULL, NULL).va = va + 1
    BY <2>2, MemAssumption, SMTT(60) DEF Job, JOB, VAs
  <2> QED
    BY <2>1, <2>2, Zenon
<1>6. job' \in [Procs -> JOB] /\ job'[p] = j /\ \A z \in Procs : z # p => job'[z] = job[z]
  BY <1>2, <1>3, <1>5, Zenon
<1>7. /\ pt' \in [Procs -> [VAs -> PTE]] /\ pt'[p][va] = NoPte
      /\ \A q \in Procs : \A w \in VAs : <<q, w>> # <<p, va>> => pt'[q][w] = pt[q][w]
  BY <1>2, <1>3, Zenon DEF PtMap, IInv, Types
<1>8. PICK old \in Pages \cup {NULL} : old = pt[p][va].page
  BY DEF IInv, Types, PTE
<1>9. Kept(old, NULL, free)
  <2>1. Counted(old, NULL, free) /\ UNCHANGED kaddr /\ Types /\ Counts
    BY <1>2, <1>3, <1>8, Zenon DEF PtMap, IInv
  <2>2. Moved(p, va, old, NULL)
    BY <1>3, <1>7, <1>8 DEF Moved
  <2> QED
    BY <1>3, <2>1, <2>2, PtCounts, Zenon
<1>10. /\ Counts' /\ Lists'
       /\ \A z \in Procs : job'[z].page \in Pages => ref'[job'[z].page] = 0
  <2>1. \A z \in Procs : job'[z].page = job[z].page
    BY <1>4, <1>5, <1>6, Zenon
  <2>2. NULL \notin free
    BY <1>3
  <2> QED
    BY <1>3, <1>9, <2>1, <2>2, Settle
<1>11. Types'
  BY <1>2, <1>6, <1>7, <1>9 DEF IInv, Types, Kept
<1>12. Flight'
  BY <1>4, <1>5, <1>6, <1>10, SMTT(60) DEF IInv, Flight
<1>13. Children'
  <2>1. \A q \in Procs : q # p => \A w \in VAs : pt'[q][w] = pt[q][w]
    BY <1>7, Zenon
  <2>2. \A w \in VAs : w < va + 1 => pt'[p][w] = NoPte
    BY <1>4, <1>7, MemAssumption, SMTT(60) DEF VAs
  <2>3. va = NVA => \A w \in VAs : pt'[p][w] = NoPte
    BY <2>2, MemAssumption, SMTT(60) DEF VAs
  <2>4. \A z \in Procs : job[z].op = "fork" => job[z].child # p
    BY <1>4, Zenon DEF IInv, Children
  <2> QED
    BY <1>4, <1>5, <1>6, <2>1, <2>2, <2>3, <2>4, SMTT(60) DEF IInv, Children
<1>14. NotYet'
  BY <1>2, Zenon DEF IInv, NotYet
<1> QED
  BY <1>2, <1>10, <1>11, <1>12, <1>13, <1>14, Zenon DEF IInv

\* shmget() and shmctl(IPC_RMID) change the kernel's reference.
LEMMA ShmKeeps ==
    ASSUME IInv, NEW s \in Segs, NEW old \in Pages \cup {NULL}, NEW new \in Pages \cup {NULL}, NEW left,
           kaddr[s] = old, kaddr' = [kaddr EXCEPT ![s] = new], Counted(old, new, left),
           UNCHANGED <<pt, job>>, shmids' = shmids \/ shmids' = shmids \cup {s},
           \/ new = NULL /\ left = free /\ s \in shmids
           \/ new \in free /\ left = free \ {new} /\ s \in shmids'
    PROVE  IInv'
<1>1. /\ NULL \notin Pages /\ left \in SUBSET Pages /\ kaddr' \in [Segs -> Pages \cup {NULL}]
      /\ kaddr'[s] = new /\ \A z \in Segs : z # s => kaddr'[z] = kaddr[z]
  BY MemAssumption DEF IInv, Types
<1>2. Types /\ Counts
  BY Zenon DEF IInv
<1>3. Kept(old, new, left)
  BY <1>1, <1>2, KernCounts, Zenon
<1>4. /\ Counts' /\ Lists'
      /\ \A q \in Procs : job'[q].page \in Pages => ref'[job'[q].page] = 0
  <2>1. /\ \A g \in Pages : g # new => (g \in left <=> g \in free)
        /\ new \notin left
        /\ \A q \in Procs : new # NULL => job[q].page # new
    BY <1>1, SMTT(60) DEF IInv, Types, Lists, Flight
  <2> QED
    BY <1>1, <1>3, <2>1, Settle, SMTT(60)
<1>5. Types'
  BY <1>1, <1>3, Zenon DEF IInv, Types, Kept
<1>6. Flight'
  BY <1>4, Zenon DEF IInv, Flight
<1>7. Children' /\ NotYet'
  BY <1>1, SMTT(60) DEF IInv, Children, NotYet
<1> QED
  BY <1>4, <1>5, <1>6, <1>7, Zenon DEF IInv

LEMMA ShmgetKeeps ==
    ASSUME IInv, NEW p \in Procs, NEW s \in Segs, NEW g \in Pages, Shmget(p, s, g)
    PROVE  IInv'
<1>1. kaddr[s] = NULL
  BY Zenon DEF Shmget, IInv, NotYet
<1> QED
  BY <1>1, ShmKeeps, Zenon DEF Shmget, PmAlloc

LEMMA ShmRmidKeeps ==
    ASSUME IInv, NEW p \in Procs, NEW s \in Segs, ShmRmid(p, s)
    PROVE  IInv'
<1>1. PICK old \in Pages : old = kaddr[s]
  BY Zenon DEF ShmRmid, IInv, Types
<1>2. s \in shmids
  BY <1>1, MemAssumption DEF IInv, NotYet
<1> QED
  BY <1>1, <1>2, ShmKeeps, Zenon DEF ShmRmid

\* Nothing is mapped at first.
LEMMA InitHolds == Init => IInv
<1> SUFFICES ASSUME Init PROVE IInv
  OBVIOUS
<1>1. Types
  BY MemAssumption, SMTT(60) DEF Init, Types, PTE, JOB, NoPte, Run, Unused, Job
<1>2. Counts
  <2> SUFFICES ASSUME NEW g \in Pages PROVE RefAt(ref, pt, kaddr, g)
    BY Zenon DEF Counts
  <2>1. g # NULL
    BY MemAssumption, Zenon
  <2>2. Users(Entries, PageOf(pt), g) = {}
    BY <2>1, Zenon DEF Users, PageOf, Entries, Init, NoPte
  <2>3. Users(Segs, kaddr, g) = {}
    BY <2>1, Zenon DEF Users, Init
  <2>4. Cardinality({}) = 0
    BY FS_EmptySet, Zenon
  <2> QED
    BY <2>2, <2>3, <2>4 DEF RefAt, Init
<1>3. \A p \in Procs : job[p].page = NULL /\ job[p].op \in {"run", "unused"}
  BY Zenon DEF Init, Run, Unused, Job
<1>4. Lists /\ Flight
  BY <1>3, MemAssumption DEF Init, Lists, Flight
<1>5. Children /\ NotYet
  BY <1>3 DEF Init, Children, NotYet
<1> QED
  BY <1>1, <1>2, <1>4, <1>5, Zenon DEF IInv

\* Every step keeps the invariant.
LEMMA NextKeeps ==
    ASSUME IInv, [Next]_vars
    PROVE  IInv'
<1>1. CASE UNCHANGED vars
  BY <1>1, SameKeeps DEF vars
<1>2. ASSUME NEW p \in Procs, NEW va \in VAs,
             \/ \E o \in {NULL} \cup Objects : SysMap(p, va, o)
             \/ \E prot \in Prots : SysMprotect(p, va, prot)
             \/ \E v \in Vals : Store(p, va, v)
             \/ \E s \in Segs : Shmat(p, va, s)
             \/ \E g \in Pages : Fault(p, va, g)
             \/ Unmap(p, va)
      PROVE  IInv'
  BY <1>2, SysMapKeeps, SysMprotectKeeps, StoreKeeps, ShmatKeeps, FaultKeeps, UnmapKeeps
<1>3. ASSUME NEW p \in Procs,
             \/ \E q \in Procs : Fork(p, q)
             \/ \E s \in Segs : (\E g \in Pages : Shmget(p, s, g)) \/ ShmRmid(p, s)
             \/ FaultMap(p) \/ Duppage(p) \/ ForkDone(p) \/ VmUnmapper(p)
      PROVE  IInv'
  BY Zenon, <1>3, ForkKeeps, ShmgetKeeps, ShmRmidKeeps, FaultMapKeeps, DuppageKeeps, ForkDoneKeeps,
     VmUnmapperKeeps
<1> QED
  BY <1>1, <1>2, <1>3, Zenon DEF Next

\* ptModify(), ptClear() and pmPageDecRef() keep pages[].ref and pageFreeList
\* exact, for any number of processes, pages, addresses and segments.
THEOREM RefCountsExact == Spec => []RefExact
<1>1. IInv => RefExact
  <2> SUFFICES ASSUME IInv, NEW g \in Pages
               PROVE  /\ ref[g] = Cardinality(UserMaps(g)) + Cardinality(KernMaps(g))
                      /\ g \in free <=> ref[g] = 0 /\ g \notin InFlight
    BY Zenon DEF RefExact
  <2>1. RefAt(ref, pt, kaddr, g)
    BY Zenon DEF IInv, Counts
  <2>2. ref[g] = Cardinality(UserMaps(g)) + Cardinality(KernMaps(g))
    BY <2>1, RefAtIsRef, Zenon DEF UserMaps, KernMaps
  <2>3. g \in InFlight <=> \E p \in Procs : job[p].page = g
    BY MemAssumption, Zenon DEF InFlight
  <2> QED
    BY <2>2, <2>3, Zenon DEF IInv, Lists
<1> QED
  BY <1>1, InitHolds, NextKeeps, PTL DEF Spec
-----------------------------------------------------------------------------
\* An entry a store can go through that is not for a shared object.
Own(e) == "W" \in e.perm /\ "SHARED" \notin e.perm /\ e.page # NULL

\* ptMap() of an entry e whose page is in no other table if e is writable, and
\* writable in none.
MapsPrivately(p, va, e) ==
    /\ pt' = [pt EXCEPT ![p][va] = e] /\ kaddr' = kaddr
    /\ Own(e) => /\ \A q \in Procs : \A w \in VAs : <<q, w>> # <<p, va>> => pt[q][w].page # e.page
                 /\ \A s \in Segs : kaddr[s] # e.page
    /\ \A q \in Procs : \A w \in VAs : <<q, w>> # <<p, va>> /\ Own(pt[q][w]) => pt[q][w].page # e.page
LEMMA PrivateMap ==
    ASSUME Types, WritableIsPrivate, NEW p \in Procs, NEW va \in VAs, NEW e, MapsPrivately(p, va, e)
    PROVE  WritableIsPrivate'
<1>1. /\ pt'[p][va] = e /\ kaddr' = kaddr
      /\ \A q \in Procs : \A w \in VAs : <<q, w>> # <<p, va>> => pt'[q][w] = pt[q][w]
  BY Zenon DEF MapsPrivately, Types
<1> SUFFICES ASSUME NEW a \in Procs, NEW b \in Procs, NEW v \in VAs, NEW w \in VAs, Own(pt'[a][v])
             PROVE  /\ <<b, w>> # <<a, v>> => pt'[b][w].page # pt'[a][v].page
                    /\ \A s \in Segs : kaddr'[s] # pt'[a][v].page
  BY Zenon DEF WritableIsPrivate, Own
<1>2. CASE <<a, v>> = <<p, va>>
  BY <1>1, <1>2, SMTT(60) DEF MapsPrivately
<1>3. CASE <<a, v>> # <<p, va>>
  <2>1. pt'[a][v] = pt[a][v] /\ Own(pt[a][v])
    BY <1>1, <1>3, Zenon
  <2>2. /\ <<b, w>> # <<a, v>> => pt[b][w].page # pt[a][v].page
        /\ \A s \in Segs : kaddr[s] # pt[a][v].page
    BY <2>1, Zenon DEF WritableIsPrivate, Own
  <2>3. pt[a][v].page # e.page
    BY <1>3, <2>1, Zenon DEF MapsPrivately
  <2> QED
    BY <1>1, <2>1, <2>2, <2>3, Zenon
<1> QED
  BY <1>2, <1>3, Zenon

\* A page with no count is in no table.
LEMMA FreshPage ==
    ASSUME IInv, NEW g \in Pages, ref[g] = 0
    PROVE  /\ \A p \in Procs : \A va \in VAs : pt[p][va].page # g
           /\ \A s \in Segs : kaddr[s] # g
  BY Mapped, Zenon DEF IInv

\* Every step keeps writable pages private, if mprotect() gives no write access.
LEMMA SysMapPrivate ==
    ASSUME IInv, WritableIsPrivate, NEW p \in Procs, NEW va \in VAs, NEW o \in {NULL} \cup Objects,
           SysMap(p, va, o)
    PROVE  WritableIsPrivate'
<1> DEFINE perm == IF o = NULL THEN {"U", "W"} ELSE {"U", "W", "SHARED"}
           r == [page |-> NULL, seg |-> o, perm |-> perm]
<1>1. kaddr' = kaddr
  BY Zenon DEF SysMap
<1>2. CASE va < PASSIVE_THRESHOLD
  <2>1. PICK g \in Pages : g \in free /\ PtMap(p, va, [r EXCEPT !.page = g], free \ {g})
    BY <1>2, Zenon DEF SysMap, PmAlloc
  <2>2. [r EXCEPT !.page = g].page = g
    BY Zenon
  <2>3. ref[g] = 0
    BY <2>1, Zenon DEF IInv, Lists
  <2>4. PICK e : e = [r EXCEPT !.page = g] /\ e.page = g
    BY <2>2
  <2>5. MapsPrivately(p, va, e)
    BY <1>1, <2>1, <2>3, <2>4, FreshPage DEF MapsPrivately, PtMap
  <2> QED
    BY <2>5, PrivateMap, Zenon DEF IInv
<1>3. CASE ~(va < PASSIVE_THRESHOLD)
  <2>1. PtMap(p, va, r, free)
    BY <1>3 DEF SysMap
  <2>2. MapsPrivately(p, va, r)
    BY <1>1, <2>1 DEF MapsPrivately, PtMap, Own
  <2> QED
    BY <2>2, PrivateMap, Zenon DEF IInv
<1> QED
  BY <1>2, <1>3, Zenon

LEMMA UnmapPrivate ==
    ASSUME IInv, WritableIsPrivate, NEW p \in Procs, NEW va \in VAs, PtMap(p, va, NoPte, free),
           UNCHANGED kaddr
    PROVE  WritableIsPrivate'
<1>1. MapsPrivately(p, va, NoPte)
  BY DEF MapsPrivately, PtMap, Own, NoPte
<1> QED
  BY <1>1, PrivateMap, Zenon DEF IInv

LEMMA SysMprotectPrivate ==
    ASSUME IInv, WritableIsPrivate, NEW p \in Procs, NEW va \in VAs, SysMprotect(p, va, {})
    PROVE  WritableIsPrivate'
<1>1. PICK e : e = [pt[p][va] EXCEPT !.perm = {"U"} \cup {}]
  BY Zenon
<1>2. pt[p][va] \in PTE
  BY DEF IInv, Types
<1>3. e.page = pt[p][va].page /\ e.perm = {"U"}
  BY <1>1, <1>2, Zenon DEF PTE
<1>4. MapsPrivately(p, va, e)
  BY <1>1, <1>3 DEF MapsPrivately, SysMprotect, PtMap, Own, WritableIsPrivate
<1> QED
  BY <1>4, PrivateMap, Zenon DEF IInv

LEMMA ShmatPrivate ==
    ASSUME IInv, WritableIsPrivate, NEW p \in Procs, NEW va \in VAs, NEW s \in Segs, Shmat(p, va, s)
    PROVE  WritableIsPrivate'
<1>1. PICK e : e = [page |-> kaddr[s], perm |-> {"U", "W", "SHARED"}, seg |-> s]
  BY Zenon
<1>2. MapsPrivately(p, va, e)
  BY <1>1 DEF MapsPrivately, Shmat, PtMap, Own, WritableIsPrivate
<1> QED
  BY <1>2, PrivateMap, Zenon DEF IInv

LEMMA FaultMapPrivate ==
    ASSUME IInv, WritableIsPrivate, NEW p \in Procs, FaultMap(p)
    PROVE  WritableIsPrivate'
<1>1. PICK va \in VAs, n \in Pages : va = job[p].va /\ n = job[p].page /\ ref[n] = 0
  BY Zenon DEF IInv, Flight, FaultMap
<1>2. PICK e : e.page = n /\ PtMap(p, va, e, free)
  <2> DEFINE r == pt[p][va]
             e == [page |-> n, seg |-> r.seg,
                   perm |-> IF IsCow(r) THEN (r.perm \ {"COW"}) \cup {"W"} ELSE r.perm]
  <2>1. PtMap(p, va, e, free)
    BY <1>1, Zenon DEF FaultMap
  <2>2. e.page = n
    BY Zenon
  <2> QED
    BY <2>1, <2>2, Zenon
<1>3. /\ \A q \in Procs : \A w \in VAs : pt[q][w].page # n
      /\ \A s \in Segs : kaddr[s] # n
  BY <1>1, FreshPage
<1>4. pt' = [pt EXCEPT ![p][va] = e] /\ kaddr' = kaddr
  BY <1>2, Zenon DEF PtMap, FaultMap
<1>5. MapsPrivately(p, va, e)
  BY <1>2, <1>3, <1>4, Zenon DEF MapsPrivately
<1> QED
  BY <1>5, PrivateMap, Zenon DEF IInv

LEMMA DuppagePrivate ==
    ASSUME IInv, WritableIsPrivate, NEW p \in Procs, Duppage(p)
    PROVE  WritableIsPrivate'
<1>1. PICK q \in Procs, va \in VAs : q = job[p].child /\ va = job[p].va
  BY MemAssumption, SMTT(60) DEF IInv, Children, Duppage, Types, JOB, VAs
<1>2. PICK r \in PTE : r = pt[p][va]
  BY Zenon DEF IInv, Types
<1>3. PICK e : e = Dup(r)
  BY Zenon
<1>4. e.page = r.page /\ ~Own(e)
  BY <1>2, <1>3, Zenon DEF Dup, Own, PTE
<1>5. pt' = [pt EXCEPT ![p][va] = e, ![q][va] = e] /\ kaddr' = kaddr
  BY <1>1, <1>2, <1>3, Zenon DEF Duppage
<1>6. /\ pt'[p][va] = e /\ pt'[q][va] = e
      /\ \A z \in Procs : \A w \in VAs : <<z, w>> # <<p, va>> /\ <<z, w>> # <<q, va>> => pt'[z][w] = pt[z][w]
  BY <1>5, Zenon DEF IInv, Types
<1> SUFFICES ASSUME NEW a \in Procs, NEW b \in Procs, NEW v \in VAs, NEW w \in VAs, Own(pt'[a][v])
             PROVE  /\ <<b, w>> # <<a, v>> => pt'[b][w].page # pt'[a][v].page
                    /\ \A s \in Segs : kaddr'[s] # pt'[a][v].page
  BY Zenon DEF WritableIsPrivate, Own
<1>7. <<a, v>> # <<p, va>> /\ <<a, v>> # <<q, va>> /\ pt'[a][v] = pt[a][v]
  BY <1>4, <1>6, Zenon
<1>8. /\ \A z \in Procs : \A x \in VAs : <<z, x>> # <<a, v>> => pt[z][x].page # pt[a][v].page
      /\ \A s \in Segs : kaddr[s] # pt[a][v].page
  BY <1>7 DEF WritableIsPrivate, Own
<1>9. pt[a][v].page # e.page
  BY <1>2, <1>4, <1>7, <1>8
<1>10. ASSUME <<b, w>> # <<a, v>>
       PROVE  pt'[b][w].page # pt'[a][v].page
  <2>1. CASE <<b, w>> = <<p, va>> \/ <<b, w>> = <<q, va>>
    BY <1>6, <1>7, <1>9, <2>1
  <2>2. CASE <<b, w>> # <<p, va>> /\ <<b, w>> # <<q, va>>
    BY <1>6, <1>7, <1>8, <1>10, <2>2, SMTT(60)
  <2> QED
    BY <2>1, <2>2, Zenon
<1> QED
  BY <1>5, <1>7, <1>8, <1>10

LEMMA ShmgetPrivate ==
    ASSUME IInv, WritableIsPrivate, NEW p \in Procs, NEW s \in Segs, NEW g \in Pages, Shmget(p, s, g)
    PROVE  WritableIsPrivate'
<1>1. \A q \in Procs : \A w \in VAs : pt[q][w].page # g
  BY FreshPage, Zenon DEF Shmget, PmAlloc, IInv, Lists
<1>2. pt' = pt /\ \A z \in Segs : kaddr'[z] = kaddr[z] \/ kaddr'[z] = g
  BY Zenon DEF Shmget, IInv, Types
<1> QED
  BY <1>1, <1>2, SMTT(60) DEF WritableIsPrivate

LEMMA ShmRmidPrivate ==
    ASSUME IInv, WritableIsPrivate, NEW p \in Procs, NEW s \in Segs, ShmRmid(p, s)
    PROVE  WritableIsPrivate'
<1>1. pt' = pt /\ \A z \in Segs : kaddr'[z] = kaddr[z] \/ kaddr'[z] = NULL
  BY Zenon DEF ShmRmid, IInv, Types
<1> QED
  BY <1>1, SMTT(60) DEF WritableIsPrivate

LEMMA NextPrivate ==
    ASSUME Careful, IInv, WritableIsPrivate, [Next]_vars
    PROVE  WritableIsPrivate'
<1>1. CASE UNCHANGED <<pt, kaddr>>
  BY <1>1, SMTT(60) DEF WritableIsPrivate
<1>2. ASSUME NEW p \in Procs, NEW va \in VAs,
             \/ \E o \in {NULL} \cup Objects : SysMap(p, va, o)
             \/ \E prot \in Prots : SysMprotect(p, va, prot)
             \/ \E s \in Segs : Shmat(p, va, s)
             \/ Unmap(p, va)
      PROVE  WritableIsPrivate'
  <2>1. ASSUME NEW prot \in Prots, SysMprotect(p, va, prot)
        PROVE  WritableIsPrivate'
    <3>1. prot = {}
      BY Zenon DEF Careful
    <3> QED
      BY <2>1, <3>1, SysMprotectPrivate, Zenon
  <2>2. ASSUME Unmap(p, va)
        PROVE  WritableIsPrivate'
    BY <2>2, UnmapPrivate DEF Unmap
  <2> QED
    BY <1>2, <2>1, <2>2, SysMapPrivate, ShmatPrivate, Zenon
<1>3. ASSUME NEW p \in Procs, NEW va \in VAs, NEW v, NEW g, Store(p, va, v) \/ Fault(p, va, g)
      PROVE  WritableIsPrivate'
  BY <1>1, <1>3, Zenon DEF Store, Fault
<1>4. ASSUME NEW p \in Procs, (\E q \in Procs : Fork(p, q)) \/ ForkDone(p)
      PROVE  WritableIsPrivate'
  BY <1>1, <1>4 DEF Fork, ForkDone
<1>5. ASSUME NEW p \in Procs, VmUnmapper(p)
      PROVE  WritableIsPrivate'
  <2>1. PICK va \in VAs : PtMap(p, va, NoPte, free) /\ kaddr' = kaddr
    BY <1>5, MemAssumption, SMTT(60) DEF IInv, Children, VmUnmapper, VAs
  <2> QED
    BY <2>1, UnmapPrivate
<1>6. ASSUME NEW p \in Procs,
             \/ \E s \in Segs : (\E g \in Pages : Shmget(p, s, g)) \/ ShmRmid(p, s)
             \/ FaultMap(p) \/ Duppage(p)
      PROVE  WritableIsPrivate'
  BY <1>6, ShmgetPrivate, ShmRmidPrivate, FaultMapPrivate, DuppagePrivate
<1>7. CASE UNCHANGED vars
  BY <1>1, <1>7, Zenon DEF vars
<1> QED
  BY <1>2, <1>3, <1>4, <1>5, <1>6, <1>7, Zenon DEF Next

LEMMA InitPrivate == Init => WritableIsPrivate
  BY SMTT(60) DEF Init, WritableIsPrivate, NoPte

\* duppage() and cow_handler() leave no private page writable in one table and
\* mapped in another, whatever programs run, as long as mprotect() is not used to
\* give write access.
THEOREM WritablePagesArePrivate == Careful => (Spec => []WritableIsPrivate)
<1> SUFFICES ASSUME Careful PROVE Spec => []WritableIsPrivate
  BY Zenon
<1>1. IInv /\ WritableIsPrivate /\ [Next]_vars => WritableIsPrivate'
  BY NextPrivate, Zenon
<1> QED
  BY <1>1, InitHolds, InitPrivate, NextKeeps, PTL DEF Spec
-----------------------------------------------------------------------------
(***************************************************************************)
(* What the refinement of MemSpaces rests on: whose a page is, and what a  *)
(* page fault and fork() have copied so far                                *)
(***************************************************************************)
\* Programs share memory by segments only.
NoShared == Objects = {}

\* A page is for one segment, or for none, and a segment has one page, which
\* its users keep after it is removed.
LinkedIn(t, k, g, s) ==
    \/ \E p \in Procs : \E va \in VAs : t[p][va].page = g /\ t[p][va].seg = s
    \/ s \in Segs /\ k[s] = g
Links ==
    /\ \A g, h \in Pages : \A s, t \in Segs \cup {NULL} :
          LinkedIn(pt, kaddr, g, s) /\ LinkedIn(pt, kaddr, h, t) => (g = h => s = t) /\ (s = t /\ s # NULL => g = h)
    /\ \A g \in Pages : \A s \in Segs : LinkedIn(pt, kaddr, g, s) => s \in shmids

\* What the permissions of an entry say of it.
EntryOK(e) ==
    /\ e.page = NULL => e.seg = NULL /\ (e.perm = {} \/ "U" \in e.perm)
    /\ "SHARED" \in e.perm => e.seg # NULL
    /\ "W" \in e.perm /\ e.seg # NULL => "SHARED" \in e.perm
    /\ "COW" \in e.perm => e.seg = NULL
EntriesOK == \A p \in Procs : \A va \in VAs : EntryOK(pt[p][va])

\* A fault handler is about to map what the program read before, and fork()
\* has copied the entries below its address.
Copies ==
    /\ mem \in [Pages -> Vals]
    /\ \A p \in Procs : job[p].op = "fault" =>
          /\ IsCow(pt[p][job[p].va]) \/ Passive(pt[p][job[p].va])
          /\ mem[job[p].page] = View(mem, pt[p][job[p].va])
    /\ \A p \in Procs : job[p].op = "fork" =>
          \A va \in VAs : va < job[p].va => pt[job[p].child][va] = pt[p][va]

-----------------------------------------------------------------------------
\* An entry of a table changes, and nothing else of the tables.
MapsTo(p, va, e) ==
    /\ pt'[p][va] = e /\ kaddr' = kaddr /\ shmids' = shmids
    /\ \A q \in Procs : \A w \in VAs : <<q, w>> # <<p, va>> => pt'[q][w] = pt[q][w]

LEMMA MapIs ==
  ASSUME Types, NEW p \in Procs, NEW va \in VAs, NEW e, pt' = [pt EXCEPT ![p][va] = e], UNCHANGED <<kaddr, shmids>>
  PROVE  MapsTo(p, va, e)
  BY Zenon DEF Types, MapsTo

LEMMA LinksSame ==
  ASSUME Links, \A g \in Pages : \A s \in Segs \cup {NULL} : LinkedIn(pt', kaddr', g, s) => LinkedIn(pt, kaddr, g, s), shmids' = shmids
  PROVE  Links'
  BY DEF Links

\* A new pair of a page and a segment, neither of which was in one.
LEMMA LinksNew ==
  ASSUME Links, NEW g0 \in Pages, NEW s0 \in Segs \cup {NULL},
         \A t \in Segs \cup {NULL} : ~LinkedIn(pt, kaddr, g0, t),
         s0 = NULL \/ \A g \in Pages : ~LinkedIn(pt, kaddr, g, s0),
         \A g \in Pages : \A s \in Segs \cup {NULL} : LinkedIn(pt', kaddr', g, s) => LinkedIn(pt, kaddr, g, s) \/ (g = g0 /\ s = s0),
         s0 \in shmids' \cup {NULL}, shmids \subseteq shmids', NULL \notin Segs
  PROVE  Links'
<1>1. ASSUME NEW g \in Pages, NEW h \in Pages, NEW s \in Segs \cup {NULL}, NEW t \in Segs \cup {NULL},
             LinkedIn(pt', kaddr', g, s), LinkedIn(pt', kaddr', h, t)
      PROVE  (g = h => s = t) /\ (s = t /\ s # NULL => g = h)
  <2>1. LinkedIn(pt, kaddr, g, s) \/ (g = g0 /\ s = s0)
    BY <1>1, Zenon
  <2>2. LinkedIn(pt, kaddr, h, t) \/ (h = g0 /\ t = s0)
    BY <1>1, Zenon
  <2>3. CASE LinkedIn(pt, kaddr, g, s) /\ LinkedIn(pt, kaddr, h, t)
    BY <2>3, Zenon DEF Links
    <2> QED BY <2>1, <2>2, <2>3, Zenon
<1>2. ASSUME NEW g \in Pages, NEW s \in Segs, LinkedIn(pt', kaddr', g, s) PROVE s \in shmids'
  <2>1. LinkedIn(pt, kaddr, g, s) \/ (g = g0 /\ s = s0)
    BY <1>2, Zenon
  <2>2. LinkedIn(pt, kaddr, g, s) => s \in shmids
    BY Zenon DEF Links
    <2> QED BY <2>1, <2>2, Zenon
<1> QED BY <1>1, <1>2 DEF Links

LEMMA MapLinks ==
  ASSUME IInv, Links, NEW p \in Procs, NEW va \in VAs, NEW e \in PTE, MapsTo(p, va, e),
         e.page = NULL \/ LinkedIn(pt, kaddr, e.page, e.seg) \/ (e.seg = NULL /\ ref[e.page] = 0)
  PROVE  Links'
<1>0. NULL \notin Pages /\ NULL \notin Segs
  BY MemAssumption, Zenon
<1>1. \A g \in Pages : \A s \in Segs \cup {NULL} : LinkedIn(pt', kaddr', g, s) => LinkedIn(pt, kaddr, g, s) \/ (g = e.page /\ s = e.seg)
  <2> SUFFICES ASSUME NEW g \in Pages, NEW s \in Segs \cup {NULL}, LinkedIn(pt', kaddr', g, s)
               PROVE  LinkedIn(pt, kaddr, g, s) \/ (g = e.page /\ s = e.seg)
    BY Zenon
  <2>1. CASE s \in Segs /\ kaddr'[s] = g
    BY <2>1, Zenon DEF MapsTo, LinkedIn
  <2>2. ASSUME NEW q \in Procs, NEW w \in VAs, pt'[q][w].page = g, pt'[q][w].seg = s
        PROVE  LinkedIn(pt, kaddr, g, s) \/ (g = e.page /\ s = e.seg)
    <3>1. pt'[q][w] = e \/ pt'[q][w] = pt[q][w]
      BY Zenon DEF MapsTo
    <3> QED BY <2>2, <3>1, Zenon DEF LinkedIn
  <2> QED BY <2>1, <2>2, Zenon DEF LinkedIn
<1>2. CASE e.page = NULL \/ LinkedIn(pt, kaddr, e.page, e.seg)
  <2>1. shmids' = shmids
    BY Zenon DEF MapsTo
    <2> QED BY <1>0, <1>1, <1>2, <2>1, LinksSame, Zenon
<1>3. CASE e.page # NULL /\ e.seg = NULL /\ ref[e.page] = 0
  <2>1. e.page \in Pages
    BY <1>3, Zenon DEF PTE
  <2>2. \A t \in Segs \cup {NULL} : ~LinkedIn(pt, kaddr, e.page, t)
    BY <1>0, <1>3, <2>1, FreshPage, Zenon DEF LinkedIn
  <2>3. shmids' = shmids
    BY Zenon DEF MapsTo
    <2> QED BY <1>0, <1>1, <1>3, <2>1, <2>2, <2>3, LinksNew, Zenon
<1> QED BY <1>2, <1>3, Zenon

LEMMA MapEntries ==
  ASSUME EntriesOK, NEW p \in Procs, NEW va \in VAs, NEW e, MapsTo(p, va, e), EntryOK(e)
  PROVE  EntriesOK'
<1> HIDE DEF EntryOK
<1> QED BY Zenon DEF EntriesOK, MapsTo

\* The contents of the pages somebody refers to stay.
Stable ==
    /\ mem' \in [Pages -> Vals]
    /\ \A p \in Procs : \A va \in VAs : pt[p][va].page # NULL => mem'[pt[p][va].page] = mem[pt[p][va].page]
    /\ \A p \in Procs : job[p].page # NULL => mem'[job[p].page] = mem[job[p].page]
    /\ \A s \in Segs : kaddr[s] # NULL => mem'[kaddr[s]] = mem[kaddr[s]]

LEMMA SameStable ==
  ASSUME Copies, UNCHANGED mem PROVE Stable
  BY Zenon DEF Copies, Stable

LEMMA AllocStable ==
  ASSUME IInv, Copies, NEW g \in Pages, NEW v \in Vals, PmAlloc(g, v)
  PROVE  Stable /\ mem'[g] = v
<1>1. g \in free /\ mem' = [mem EXCEPT ![g] = v] /\ mem \in [Pages -> Vals]
  BY Zenon DEF PmAlloc, Copies
<1>2. ref[g] = 0 /\ \A p \in Procs : job[p].page # g
  BY <1>1, Zenon DEF IInv, Lists
<1>3. /\ \A p \in Procs : \A va \in VAs : pt[p][va].page # g
      /\ \A s \in Segs : kaddr[s] # g
  BY <1>2, FreshPage, Zenon
<1>4. mem' \in [Pages -> Vals] /\ mem'[g] = v /\ \A h \in Pages : h # g => mem'[h] = mem[h]
  BY <1>1, Zenon
<1>5. /\ \A p \in Procs : \A va \in VAs : pt[p][va].page \in Pages \cup {NULL}
      /\ \A p \in Procs : job[p].page \in Pages \cup {NULL}
      /\ \A s \in Segs : kaddr[s] \in Pages \cup {NULL}
  BY DEF IInv, Types, PTE, JOB
<1> QED BY <1>2, <1>3, <1>4, <1>5, Zenon DEF Stable

\* A process changes its own table, and is not in a fault or in fork() after it.
LEMMA OwnCopies ==
  ASSUME IInv, Copies, Stable, NEW p \in Procs, job[p].op # "new", job'[p].op \notin {"fault", "fork"},
         \A q \in Procs : q # p => job'[q] = job[q] /\ \A w \in VAs : pt'[q][w] = pt[q][w]
  PROVE  Copies'
<1>1. ASSUME NEW q \in Procs, job'[q].op = "fault"
      PROVE  /\ IsCow(pt'[q][job'[q].va]) \/ Passive(pt'[q][job'[q].va])
             /\ mem'[job'[q].page] = View(mem', pt'[q][job'[q].va])
  <2>1. q # p /\ job'[q] = job[q] /\ job[q].op = "fault"
    BY <1>1, Zenon
  <2>2. job[q].va \in VAs /\ job[q].page \in Pages /\ job[q].page # NULL
    <3>1. NULL \notin Pages
      BY MemAssumption, Zenon
    <3> QED BY <2>1, <3>1, Zenon DEF IInv, Flight
  <2>3. PICK e : e = pt[q][job[q].va]
    BY Zenon
  <2>7. pt'[q][job'[q].va] = e
    BY <2>1, <2>2, <2>3
  <2>4. (IsCow(e) \/ Passive(e)) /\ mem[job[q].page] = View(mem, e)
    BY <2>1, <2>3, Zenon DEF Copies
  <2>5. View(mem', e) = View(mem, e)
    <3>1. e.page # NULL => mem'[e.page] = mem[e.page]
      BY <2>2, <2>3, Zenon DEF Stable
    <3> QED BY <3>1, Zenon DEF View
  <2>6. mem'[job[q].page] = mem[job[q].page]
    BY <2>2, Zenon DEF Stable
  <2> HIDE DEF View, IsCow, Passive
  <2> QED BY <2>1, <2>3, <2>4, <2>5, <2>6, <2>7, Zenon
<1>2. ASSUME NEW q \in Procs, job'[q].op = "fork", NEW va \in VAs, va < job'[q].va
      PROVE  pt'[job'[q].child][va] = pt'[q][va]
  <2>1. q # p /\ job'[q] = job[q] /\ job[q].op = "fork"
    BY <1>2, Zenon
  <2>2. job[q].child \in Procs /\ job[q].child # p
    BY <2>1, Zenon DEF IInv, Children
  <2>3. pt[job[q].child][va] = pt[q][va]
    BY <1>2, <2>1, Zenon DEF Copies
  <2> QED BY <2>1, <2>2, <2>3, Zenon
<1>3. mem' \in [Pages -> Vals]
  BY Zenon DEF Stable
<1> QED BY <1>1, <1>2, <1>3, Zenon DEF Copies

-----------------------------------------------------------------------------
Rest == Links /\ EntriesOK /\ Copies

\* ptMap() by a process that runs.
LEMMA RunMap ==
  ASSUME IInv, Rest, NEW p \in Procs, NEW va \in VAs, NEW e \in PTE, job[p] = Run,
         pt' = [pt EXCEPT ![p][va] = e], UNCHANGED <<job, kaddr, shmids>>, Stable, EntryOK(e),
         e.page = NULL \/ LinkedIn(pt, kaddr, e.page, e.seg) \/ (e.seg = NULL /\ ref[e.page] = 0)
  PROVE  Rest' /\ MapsTo(p, va, e)
<1>1. MapsTo(p, va, e)
  BY MapIs, Zenon DEF IInv
<1>2. Links'
  BY <1>1, MapLinks, Zenon DEF Rest
<1>3. EntriesOK'
  BY <1>1, MapEntries, Zenon DEF Rest
<1>4. Copies'
  <2>1. job[p].op = "run" /\ job' = job
    BY DEF Run, Job
  <2>2. \A q \in Procs : q # p => job'[q] = job[q] /\ \A w \in VAs : pt'[q][w] = pt[q][w]
    BY <1>1, <2>1, Zenon DEF MapsTo
  <2>3. job[p].op # "new" /\ job'[p].op \notin {"fault", "fork"}
    BY <2>1, Zenon
  <2> QED BY <2>2, <2>3, OwnCopies, Zenon DEF Rest
<1> QED BY <1>1, <1>2, <1>3, <1>4, Zenon DEF Rest

LEMMA SysMapRest ==
  ASSUME IInv, Rest, NEW p \in Procs, NEW va \in VAs, SysMap(p, va, NULL)
  PROVE  /\ Rest' /\ Stable
         /\ \E e \in PTE : /\ MapsTo(p, va, e) /\ e.seg = NULL
                           /\ e.page = NULL \/ mem'[e.page] = Zero
                           /\ "U" \in e.perm
<1> DEFINE r == [page |-> NULL, seg |-> NULL, perm |-> {"U", "W"}]
<1>1. job[p] = Run /\ UNCHANGED <<job, kaddr, shmids>>
  BY Zenon DEF SysMap
<1>2. CASE va < PASSIVE_THRESHOLD
  <2>1. PICK g \in Pages : PmAlloc(g, Zero) /\ PtMap(p, va, [r EXCEPT !.page = g], free \ {g})
    BY <1>2, Zenon DEF SysMap
  <2>2. [r EXCEPT !.page = g] = [page |-> g, seg |-> NULL, perm |-> {"U", "W"}]
    OBVIOUS
  <2>3. PICK e \in PTE : e = [page |-> g, seg |-> NULL, perm |-> {"U", "W"}]
    BY Zenon DEF PTE
  <2>4. pt' = [pt EXCEPT ![p][va] = e]
    BY <2>1, <2>2, <2>3, Zenon DEF PtMap
  <2>5. Stable /\ mem'[g] = Zero
    BY <2>1, AllocStable, MemAssumption, Zenon DEF Rest
  <2>6. ref[g] = 0 /\ g # NULL
    BY <2>1, MemAssumption, Zenon DEF IInv, Lists, PmAlloc
  <2>7. e.page = g /\ e.seg = NULL /\ e.perm = {"U", "W"}
    BY <2>3, Zenon
  <2>8. EntryOK(e)
    BY <2>6, <2>7, Zenon DEF EntryOK
  <2>9. Rest' /\ MapsTo(p, va, e)
    BY <1>1, <2>4, <2>5, <2>6, <2>7, <2>8, RunMap, Zenon
  <2>10. "U" \in e.perm
    BY <2>7, Zenon
  <2> QED BY <2>5, <2>7, <2>9, <2>10, Zenon
<1>3. CASE ~(va < PASSIVE_THRESHOLD)
  <2>1. PtMap(p, va, r, free) /\ UNCHANGED mem
    BY <1>3, Zenon DEF SysMap
  <2>3. PICK e \in PTE : e = [page |-> NULL, seg |-> NULL, perm |-> {"U", "W"}]
    BY Zenon DEF PTE
  <2>4. pt' = [pt EXCEPT ![p][va] = e]
    BY <2>1, <2>3, Zenon DEF PtMap
  <2>5. Stable
    BY <2>1, SameStable, Zenon DEF Rest
  <2>7. e.page = NULL /\ e.seg = NULL /\ e.perm = {"U", "W"}
    BY <2>3, Zenon
  <2>8. EntryOK(e)
    BY <2>7, Zenon DEF EntryOK
  <2>9. Rest' /\ MapsTo(p, va, e)
    BY <1>1, <2>4, <2>5, <2>7, <2>8, RunMap, Zenon
  <2>10. "U" \in e.perm
    BY <2>7, Zenon
  <2> QED BY <2>5, <2>7, <2>9, <2>10, Zenon
<1> QED BY <1>2, <1>3, Zenon

LEMMA NoPteOK == NoPte \in PTE /\ EntryOK(NoPte) /\ NoPte.page = NULL /\ NoPte.seg = NULL /\ NoPte.perm = {}
<1>1. NoPte \in PTE
  BY Zenon DEF PTE, NoPte
<1>2. NoPte.page = NULL /\ NoPte.seg = NULL /\ NoPte.perm = {}
  BY Zenon DEF NoPte
<1> QED BY <1>1, <1>2, Zenon DEF EntryOK

LEMMA UnmapRest ==
  ASSUME IInv, Rest, NEW p \in Procs, NEW va \in VAs, Unmap(p, va)
  PROVE  Rest' /\ Stable /\ MapsTo(p, va, NoPte)
<1>1. Stable
  BY SameStable, Zenon DEF Unmap, Rest
<1> QED BY <1>1, NoPteOK, RunMap, Zenon DEF Unmap, PtMap

LEMMA SysMprotectRest ==
  ASSUME IInv, Rest, NEW p \in Procs, NEW va \in VAs, SysMprotect(p, va, {})
  PROVE  /\ Rest' /\ Stable
         /\ \E e \in PTE : /\ MapsTo(p, va, e) /\ e.page = pt[p][va].page /\ e.seg = pt[p][va].seg
                           /\ "U" \in e.perm
<1>1. Stable
  BY SameStable, Zenon DEF SysMprotect, Rest
<1>2. pt[p][va] \in PTE
  BY Zenon DEF IInv, Types
<1>3. PICK e \in PTE : e = [pt[p][va] EXCEPT !.perm = {"U"} \cup {}]
  BY <1>2, Zenon DEF PTE
<1>4. e.page = pt[p][va].page /\ e.seg = pt[p][va].seg /\ e.perm = {"U"}
  BY <1>2, <1>3, Zenon DEF PTE
<1>5. EntryOK(e)
  <2>1. EntryOK(pt[p][va])
    BY Zenon DEF Rest, EntriesOK
  <2> QED BY <1>4, <2>1, Zenon DEF EntryOK
<1>6. LinkedIn(pt, kaddr, e.page, e.seg)
  BY <1>4, Zenon DEF LinkedIn
<1>7. Rest' /\ MapsTo(p, va, e)
  BY <1>1, <1>3, <1>5, <1>6, RunMap, Zenon DEF SysMprotect, PtMap
<1>8. "U" \in e.perm
  BY <1>4, Zenon
<1> QED BY <1>1, <1>4, <1>7, <1>8, Zenon

LEMMA ShmatRest ==
  ASSUME IInv, Rest, NEW p \in Procs, NEW va \in VAs, NEW s \in Segs, Shmat(p, va, s)
  PROVE  /\ Rest' /\ Stable
         /\ \E e \in PTE : MapsTo(p, va, e) /\ e.page = kaddr[s] /\ e.seg = s
<1>1. Stable
  BY SameStable, Zenon DEF Shmat, Rest
<1>2. kaddr[s] \in Pages /\ kaddr[s] # NULL
  BY Zenon DEF IInv, Types, Shmat
<1>3. PICK e \in PTE : e = [page |-> kaddr[s], perm |-> {"U", "W", "SHARED"}, seg |-> s]
  BY <1>2, Zenon DEF PTE
<1>4. e.page = kaddr[s] /\ e.seg = s /\ e.perm = {"U", "W", "SHARED"}
  BY <1>3, Zenon
<1>5. EntryOK(e)
  BY <1>2, <1>4, MemAssumption, Zenon DEF EntryOK
<1>6. LinkedIn(pt, kaddr, e.page, e.seg)
  BY <1>4, Zenon DEF LinkedIn
<1>7. Rest' /\ MapsTo(p, va, e)
  BY <1>1, <1>3, <1>5, <1>6, RunMap, Zenon DEF Shmat, PtMap
<1> QED BY <1>1, <1>4, <1>7, Zenon

LEMMA VmUnmapperRest ==
  ASSUME IInv, Rest, NEW p \in Procs, VmUnmapper(p)
  PROVE  /\ Rest' /\ Stable /\ job[p].op \in {"run", "exit"}
         /\ job'[p].op \in {"unused", "exit"} /\ \A q \in Procs : q # p => job'[q] = job[q]
         /\ \E va \in VAs : MapsTo(p, va, NoPte)
<1>0. PICK va \in VAs : va = IF job[p] = Run THEN 1 ELSE job[p].va
  BY MemAssumption, SMTT(60) DEF IInv, Children, VmUnmapper, VAs
<1>1. /\ PtMap(p, va, NoPte, free) /\ UNCHANGED <<kaddr, shmids>>
      /\ job' = [job EXCEPT ![p] = IF va = NVA THEN Unused ELSE Job("exit", va + 1, NULL, NULL)]
  BY <1>0, Zenon DEF VmUnmapper
<1>2. job \in [Procs -> JOB] /\ job[p].op \in {"run", "exit"}
  <2>1. Run.op = "run"
    BY Zenon DEF Run, Job
  <2> QED BY <2>1, Zenon DEF IInv, Types, VmUnmapper
<1>3. job'[p].op \in {"unused", "exit"} /\ \A q \in Procs : q # p => job'[q] = job[q]
  BY <1>1, <1>2, Zenon DEF Unused, Job
<1>4. Stable
  BY SameStable, Zenon DEF VmUnmapper, Rest
<1>5. MapsTo(p, va, NoPte)
  BY <1>1, MapIs, Zenon DEF PtMap, IInv
<1>6. Links'
  BY <1>5, NoPteOK, MapLinks, Zenon DEF Rest
<1>7. EntriesOK'
  BY <1>5, NoPteOK, MapEntries, Zenon DEF Rest
<1>8. Copies'
  <2>1. \A q \in Procs : q # p => job'[q] = job[q] /\ \A w \in VAs : pt'[q][w] = pt[q][w]
    BY <1>3, <1>5, Zenon DEF MapsTo
  <2>2. job[p].op # "new" /\ job'[p].op \notin {"fault", "fork"}
    BY <1>2, <1>3, Zenon
  <2> QED BY <1>4, <2>1, <2>2, OwnCopies, Zenon DEF Rest
<1> QED BY <1>2, <1>3, <1>4, <1>5, <1>6, <1>7, <1>8, Zenon DEF Rest

\* The entry a handler fills is private.
LEMMA FaultMapRest ==
  ASSUME IInv, Rest, NEW p \in Procs, FaultMap(p)
  PROVE  /\ Rest' /\ Stable /\ job'[p] = Run /\ \A q \in Procs : q # p => job'[q] = job[q]
         /\ \E va \in VAs : \E e \in PTE :
               /\ MapsTo(p, va, e) /\ e.page \in Pages /\ e.seg = pt[p][va].seg
               /\ mem'[e.page] = View(mem, pt[p][va])
<1>1. PICK va \in VAs, n \in Pages : va = job[p].va /\ n = job[p].page /\ ref[n] = 0
  BY Zenon DEF IInv, Flight, FaultMap
<1>2. PICK r \in PTE : r = pt[p][va]
  BY Zenon DEF IInv, Types
<1>3. (IsCow(r) \/ Passive(r)) /\ mem[n] = View(mem, r) /\ EntryOK(r) /\ mem' = mem
  BY <1>1, <1>2, Zenon DEF FaultMap, Rest, Copies, EntriesOK
<1> DEFINE perm == IF IsCow(r) THEN (r.perm \ {"COW"}) \cup {"W"} ELSE r.perm
<1>4. perm \in SUBSET {"U", "W", "COW", "SHARED"}
  BY Zenon DEF PTE
<1>5. PICK e \in PTE : e = [page |-> n, seg |-> r.seg, perm |-> perm]
  <2> HIDE DEF perm
  <2> QED BY <1>2, <1>4, Zenon DEF PTE
<1>6. PtMap(p, va, e, free) /\ UNCHANGED <<kaddr, shmids>> /\ job' = [job EXCEPT ![p] = Run] /\ job[p].op = "fault"
  BY <1>1, <1>2, <1>5, Zenon DEF FaultMap
<1>7. n # NULL /\ r.seg = NULL /\ "SHARED" \notin r.perm
  BY <1>3, MemAssumption, Zenon DEF EntryOK, IsCow, Passive
<1>8. e.page = n /\ e.seg = NULL /\ e.perm = perm
  BY <1>5, <1>7, Zenon
<1>9. EntryOK(e)
  BY <1>7, <1>8 DEF EntryOK
<1>10. MapsTo(p, va, e)
  BY <1>6, MapIs, Zenon DEF PtMap, IInv
<1>11. Stable
  BY <1>3, SameStable, Zenon DEF Rest
<1>12. Links'
  BY <1>1, <1>8, <1>10, MapLinks, Zenon DEF Rest
<1>13. EntriesOK'
  BY <1>9, <1>10, MapEntries, Zenon DEF Rest
<1>14. job'[p] = Run /\ \A q \in Procs : q # p => job'[q] = job[q]
  BY <1>6, Zenon DEF IInv, Types
<1>15. Copies'
  <2>1. \A q \in Procs : q # p => job'[q] = job[q] /\ \A w \in VAs : pt'[q][w] = pt[q][w]
    BY <1>10, <1>14, Zenon DEF MapsTo
  <2>2. job[p].op # "new" /\ job'[p].op \notin {"fault", "fork"}
    BY <1>6, <1>14 DEF Run, Job
  <2> QED BY <1>11, <2>1, <2>2, OwnCopies, Zenon DEF Rest
<1>16. Rest'
  BY <1>12, <1>13, <1>15, Zenon DEF Rest
<1>17. mem'[e.page] = View(mem, pt[p][va]) /\ e.seg = pt[p][va].seg /\ e.page \in Pages
  BY <1>2, <1>3, <1>7, <1>8, Zenon
<1> QED BY <1>10, <1>11, <1>14, <1>16, <1>17, Zenon

\* Tables and segments are as they were.
LEMMA SameTables ==
  ASSUME Rest, UNCHANGED <<pt, kaddr, shmids>>
  PROVE  Links' /\ EntriesOK'
<1>1. Links'
  BY LinksSame, Zenon DEF Rest
<1>2. EntriesOK'
  BY Zenon DEF Rest, EntriesOK
<1> QED BY <1>1, <1>2, Zenon

\* What a fault handler is about to map stays what it is.
LEMMA FaultKept ==
  ASSUME IInv, Copies, NEW q \in Procs, job[q].op = "fault", job'[q] = job[q], mem'[job[q].page] = mem[job[q].page],
         pt' = pt, pt[q][job[q].va].page # NULL => mem'[pt[q][job[q].va].page] = mem[pt[q][job[q].va].page]
  PROVE  /\ IsCow(pt'[q][job'[q].va]) \/ Passive(pt'[q][job'[q].va])
         /\ mem'[job'[q].page] = View(mem', pt'[q][job'[q].va])
<1>1. PICK e : e = pt[q][job[q].va]
  BY Zenon
<1>2. pt'[q][job'[q].va] = e
  BY <1>1, Zenon
<1>3. (IsCow(e) \/ Passive(e)) /\ mem[job[q].page] = View(mem, e)
  BY <1>1, Zenon DEF Copies
<1>4. View(mem', e) = View(mem, e)
  BY <1>1, Zenon DEF View
<1> QED BY <1>1, <1>2, <1>3, <1>4, Zenon

LEMMA FaultRest ==
  ASSUME IInv, Rest, NEW p \in Procs, NEW va \in VAs, NEW g \in Pages, Fault(p, va, g)
  PROVE  /\ Rest' /\ Stable /\ job[p] = Run /\ job'[p].op = "fault" /\ UNCHANGED <<pt, kaddr>>
         /\ \A q \in Procs : q # p => job'[q] = job[q]
<1>1. job[p] = Run /\ UNCHANGED <<pt, kaddr, shmids>> /\ job' = [job EXCEPT ![p] = Job("fault", va, g, NULL)]
  BY Zenon DEF Fault
<1>2. /\ job'[p] = [op |-> "fault", va |-> va, page |-> g, child |-> NULL]
      /\ \A q \in Procs : q # p => job'[q] = job[q]
  BY <1>1, Zenon DEF Job, IInv, Types
<1>3. job'[p].op = "fault" /\ job'[p].va = va /\ job'[p].page = g
  BY <1>2
<1>4. PICK e \in PTE : e = pt[p][va]
  BY Zenon DEF IInv, Types
<1>5. (IsCow(e) \/ Passive(e)) /\ Filled(e) = View(mem, e) /\ View(mem, e) \in Vals
  <2>1. IsCow(e) \/ Passive(e)
    BY <1>4, Zenon DEF Fault
  <2>2. e.page # NULL => e.page \in Pages /\ mem[e.page] \in Vals
    BY Zenon DEF PTE, Rest, Copies
  <2>3. Zero \in Vals
    BY MemAssumption, Zenon
  <2>4. CASE IsCow(e)
    BY <2>2, <2>4, Zenon DEF Filled, IsCow, View
  <2>5. CASE ~IsCow(e)
    BY <2>1, <2>3, <2>5, Zenon DEF Filled, Passive, View
  <2> QED BY <2>1, <2>4, <2>5, Zenon
<1>6. Stable /\ mem'[g] = View(mem, e)
  BY <1>4, <1>5, AllocStable, Zenon DEF Fault, Rest
<1>7. View(mem', e) = View(mem, e)
  <2>1. e.page # NULL => mem'[e.page] = mem[e.page]
    BY <1>4, <1>6, Zenon DEF Stable
  <2> QED BY <2>1, Zenon DEF View
<1>8. Links' /\ EntriesOK'
  BY <1>1, SameTables, Zenon
<1>9. Copies'
  <2>1. ASSUME NEW q \in Procs, job'[q].op = "fault"
        PROVE  /\ IsCow(pt'[q][job'[q].va]) \/ Passive(pt'[q][job'[q].va])
               /\ mem'[job'[q].page] = View(mem', pt'[q][job'[q].va])
    <3>1. CASE q = p
      <4>1. pt'[q][job'[q].va] = e
        BY <1>1, <1>3, <1>4, <3>1, Zenon
      <4> QED BY <1>3, <1>5, <1>6, <1>7, <3>1, <4>1, Zenon
    <3>2. CASE q # p
      <4>1. job'[q] = job[q] /\ job[q].op = "fault"
        BY <1>2, <2>1, <3>2, Zenon
      <4>2. job[q].page # NULL /\ job[q].va \in VAs
        <5>1. NULL \notin Pages
          BY MemAssumption, Zenon
        <5> QED BY <4>1, <5>1, Zenon DEF IInv, Flight
      <4>3. /\ mem'[job[q].page] = mem[job[q].page]
            /\ pt[q][job[q].va].page # NULL => mem'[pt[q][job[q].va].page] = mem[pt[q][job[q].va].page]
        BY <1>6, <4>2, Zenon DEF Stable
      <4> QED BY <1>1, <4>1, <4>3, FaultKept, Zenon DEF Rest
    <3> QED BY <3>1, <3>2, Zenon
  <2>2. ASSUME NEW q \in Procs, job'[q].op = "fork", NEW w \in VAs, w < job'[q].va
        PROVE  pt'[job'[q].child][w] = pt'[q][w]
    <3>1. q # p /\ job'[q] = job[q]
      BY <1>2, <1>3, <2>2, Zenon
    <3> QED BY <1>1, <2>2, <3>1, Zenon DEF Rest, Copies
  <2>3. mem' \in [Pages -> Vals]
    BY <1>6, Zenon DEF Stable
  <2> QED BY <2>1, <2>2, <2>3, Zenon DEF Copies
<1> QED BY <1>1, <1>2, <1>3, <1>6, <1>8, <1>9, Zenon DEF Rest

LEMMA LinkedOnce ==
  ASSUME Links, NEW g \in Pages, NEW s \in Segs \cup {NULL}, NEW t \in Segs \cup {NULL},
         LinkedIn(pt, kaddr, g, s), LinkedIn(pt, kaddr, g, t)
  PROVE  s = t
  BY Zenon DEF Links

\* Who sees a store: the entry it goes through, or the others of its segment.
LEMMA StoreOther ==
  ASSUME NoShared, IInv, WritableIsPrivate, Rest, NEW p \in Procs, NEW va \in VAs, NEW v, Store(p, va, v),
         NEW q \in Procs, NEW w \in VAs, pt[q][w].page = pt[p][va].page
  PROVE  /\ pt[q][w].seg = pt[p][va].seg
         /\ <<q, w>> = <<p, va>> \/ pt[p][va].seg # NULL
<1>1. pt[p][va].page # NULL /\ "W" \in pt[p][va].perm
  BY Zenon DEF Store
<1>2. pt[p][va] \in PTE /\ pt[q][w] \in PTE
  BY Zenon DEF IInv, Types
<1>3. EntryOK(pt[p][va])
  BY Zenon DEF Rest, EntriesOK
<1>4. CASE <<q, w>> # <<p, va>>
  <2>1. pt[p][va].seg # NULL
    BY <1>1, <1>3, <1>4, Zenon DEF WritableIsPrivate, EntryOK
  <2>2. pt[p][va].page \in Pages
    BY <1>1, <1>2, Zenon DEF PTE
  <2>3. LinkedIn(pt, kaddr, pt[p][va].page, pt[p][va].seg) /\ LinkedIn(pt, kaddr, pt[p][va].page, pt[q][w].seg)
    BY Zenon DEF LinkedIn
  <2>4. pt[p][va].seg \in Segs \cup {NULL} /\ pt[q][w].seg \in Segs \cup {NULL}
    BY <1>2, Zenon DEF NoShared, PTE
  <2>5. pt[q][w].seg = pt[p][va].seg
    BY <2>2, <2>3, <2>4, LinkedOnce, Zenon DEF Rest
  <2> QED BY <2>1, <2>5, Zenon
<1>5. CASE <<q, w>> = <<p, va>>
  BY <1>5, Zenon
<1> QED BY <1>4, <1>5, Zenon

LEMMA StoreRest ==
  ASSUME NoShared, IInv, WritableIsPrivate, Rest, NEW p \in Procs, NEW va \in VAs, NEW v \in Vals, Store(p, va, v)
  PROVE  /\ Rest' /\ pt[p][va].page \in Pages /\ mem'[pt[p][va].page] = v
         /\ \A h \in Pages : h # pt[p][va].page => mem'[h] = mem[h]
<1>1. job[p] = Run /\ mem' = [mem EXCEPT ![pt[p][va].page] = v] /\ UNCHANGED <<pt, job, kaddr, shmids>>
  BY Zenon DEF Store
<1>2. PICK g \in Pages : g = pt[p][va].page
  <2>1. pt[p][va] \in PTE /\ pt[p][va].page # NULL
    BY Zenon DEF Store, IInv, Types
  <2> QED BY <2>1, Zenon DEF PTE
<1>3. mem' \in [Pages -> Vals] /\ mem'[g] = v /\ \A h \in Pages : h # g => mem'[h] = mem[h]
  BY <1>1, <1>2, Zenon DEF Rest, Copies
<1>4. Links' /\ EntriesOK'
  BY <1>1, SameTables, Zenon
<1>5. ASSUME NEW q \in Procs, job'[q].op = "fault"
      PROVE  /\ IsCow(pt'[q][job'[q].va]) \/ Passive(pt'[q][job'[q].va])
             /\ mem'[job'[q].page] = View(mem', pt'[q][job'[q].va])
  <2>1. job'[q] = job[q] /\ job[q].op = "fault"
    BY <1>1, <1>5, Zenon
  <2>2. job[q].page \in Pages /\ job[q].va \in VAs /\ ref[job[q].page] = 0
    BY <2>1, Zenon DEF IInv, Flight
  <2>3. job[q].page # g
    <3>1. pt[p][va].page # job[q].page
      BY <2>2, FreshPage, Zenon
    <3> QED BY <1>2, <3>1, Zenon
  <2>4. q # p
    <3>1. Run.op = "run"
      BY Zenon DEF Run, Job
    <3> QED BY <1>1, <2>1, <3>1, Zenon
  <2>5. PICK x \in PTE : x = pt[q][job[q].va]
    BY <2>2, Zenon DEF IInv, Types
  <2>6. x.page # NULL => mem'[x.page] = mem[x.page]
    <3> SUFFICES ASSUME x.page # NULL PROVE x.page # g
      BY <1>3, Zenon DEF PTE
    <3>1. IsCow(x) /\ EntryOK(x)
      BY <2>1, <2>2, <2>5, Zenon DEF Rest, Copies, EntriesOK, Passive
    <3>2. x.seg = NULL
      BY <3>1, Zenon DEF IsCow, EntryOK
    <3>3. <<q, job[q].va>> # <<p, va>>
      BY <2>4, Zenon
    <3>4. x.page # pt[p][va].page
      <4> SUFFICES ASSUME x.page = pt[p][va].page PROVE FALSE
        BY Zenon
      <4>1. pt[q][job[q].va].seg = pt[p][va].seg /\ pt[p][va].seg # NULL
        BY <2>2, <2>5, <3>3, StoreOther, Zenon
      <4> QED BY <2>5, <3>2, <4>1, Zenon
    <3> QED BY <1>2, <3>4, Zenon
  <2> QED BY <1>1, <1>3, <2>1, <2>2, <2>3, <2>5, <2>6, FaultKept, Zenon DEF Rest
<1>6. ASSUME NEW q \in Procs, job'[q].op = "fork", NEW w \in VAs, w < job'[q].va
      PROVE  pt'[job'[q].child][w] = pt'[q][w]
  BY <1>1, <1>6, Zenon DEF Rest, Copies
<1>7. Copies'
  BY <1>3, <1>5, <1>6, Zenon DEF Copies
<1> QED BY <1>2, <1>3, <1>4, <1>7, Zenon DEF Rest

\* The tables are as they were, and what refers to pages keeps their contents.
LEMMA SameCopies ==
  ASSUME IInv, Copies, Stable, pt' = pt,
         \A q \in Procs : job'[q].op = "fault" => job'[q] = job[q],
         \A q \in Procs : job'[q].op = "fork" => job'[q] = job[q] \/ job'[q].va = 1
  PROVE  Copies'
<1>1. ASSUME NEW q \in Procs, job'[q].op = "fault"
      PROVE  /\ IsCow(pt'[q][job'[q].va]) \/ Passive(pt'[q][job'[q].va])
             /\ mem'[job'[q].page] = View(mem', pt'[q][job'[q].va])
  <2>1. job'[q] = job[q] /\ job[q].op = "fault"
    BY <1>1, Zenon
  <2>2. job[q].page # NULL /\ job[q].va \in VAs
    <3>1. NULL \notin Pages
      BY MemAssumption, Zenon
    <3> QED BY <2>1, <3>1, Zenon DEF IInv, Flight
  <2>3. /\ mem'[job[q].page] = mem[job[q].page]
        /\ pt[q][job[q].va].page # NULL => mem'[pt[q][job[q].va].page] = mem[pt[q][job[q].va].page]
    BY <2>2, Zenon DEF Stable
  <2> QED BY <2>1, <2>3, FaultKept, Zenon
<1>2. ASSUME NEW q \in Procs, job'[q].op = "fork", NEW w \in VAs, w < job'[q].va
      PROVE  pt'[job'[q].child][w] = pt'[q][w]
  <2>1. job'[q].va # 1
    BY <1>2, MemAssumption DEF VAs
  <2> QED BY <1>2, <2>1, Zenon DEF Copies
<1>3. mem' \in [Pages -> Vals]
  BY Zenon DEF Stable
<1> QED BY <1>1, <1>2, <1>3, Zenon DEF Copies

LEMMA ForkRest ==
  ASSUME IInv, Rest, NEW p \in Procs, NEW q \in Procs, Fork(p, q)
  PROVE  /\ Rest' /\ Stable /\ UNCHANGED <<pt, kaddr>> /\ job[p] = Run
         /\ job'[p].op = "fork" /\ job[q].op = "unused" /\ job'[q].op = "new" /\ p # q
         /\ \A z \in Procs : z # p /\ z # q => job'[z] = job[z]
<1>1. /\ job[p] = Run /\ job[q] = Unused /\ UNCHANGED <<pt, mem, kaddr, shmids>>
      /\ job' = [job EXCEPT ![p] = Job("fork", 1, NULL, q), ![q] = Job("new", 0, NULL, NULL)]
  BY Zenon DEF Fork
<1>2. job[p].op = "run" /\ job[q].op = "unused" /\ p # q
  BY <1>1, SMTT(30) DEF Run, Unused, Job
<1>3. /\ job'[p] = [op |-> "fork", va |-> 1, page |-> NULL, child |-> q]
      /\ job'[q] = [op |-> "new", va |-> 0, page |-> NULL, child |-> NULL]
      /\ \A z \in Procs : z # p /\ z # q => job'[z] = job[z]
  BY <1>1, <1>2, Zenon DEF Job, IInv, Types
<1>4. job'[p].op = "fork" /\ job'[p].va = 1 /\ job'[q].op = "new"
  BY <1>3
<1>5. Stable
  BY <1>1, SameStable, Zenon DEF Rest
<1>6. \A z \in Procs : job'[z].op = "fault" => job'[z] = job[z]
  BY <1>3, <1>4, Zenon
<1>7. \A z \in Procs : job'[z].op = "fork" => job'[z] = job[z] \/ job'[z].va = 1
  BY <1>3, <1>4, Zenon
<1>8. Copies'
  BY <1>1, <1>5, <1>6, <1>7, SameCopies, Zenon DEF Rest
<1>9. Links' /\ EntriesOK'
  BY <1>1, SameTables, Zenon
<1> QED BY <1>1, <1>2, <1>3, <1>4, <1>5, <1>8, <1>9, Zenon DEF Rest

LEMMA ForkDoneRest ==
  ASSUME IInv, Rest, NEW p \in Procs, ForkDone(p)
  PROVE  /\ Rest' /\ Stable /\ UNCHANGED <<pt, mem, kaddr>> /\ job[p].op = "fork" /\ job'[p] = Run
         /\ \E q \in Procs : /\ job[q].op = "new" /\ job'[q] = Run /\ pt[q] = pt[p]
                             /\ \A z \in Procs : z # p /\ z # q => job'[z] = job[z]
<1>1. PICK q \in Procs : q = job[p].child
  BY Zenon DEF IInv, Children, ForkDone
<1>2. /\ job' = [job EXCEPT ![p] = Run, ![q] = Run] /\ UNCHANGED <<pt, mem, kaddr, shmids>>
      /\ job[p].op = "fork" /\ job[q].op = "new" /\ job \in [Procs -> JOB] /\ job[p].va > NVA
  BY <1>1, Zenon DEF ForkDone, IInv, Children, Types
<1>3. job'[p] = Run /\ job'[q] = Run /\ \A z \in Procs : z # p /\ z # q => job'[z] = job[z]
  BY <1>2, Zenon
<1>4. \A w \in VAs : pt[q][w] = pt[p][w]
  <2>1. \A w \in VAs : w < job[p].va
    BY <1>2, MemAssumption DEF VAs, JOB
  <2> QED BY <1>1, <1>2, <2>1, Zenon DEF Rest, Copies
<1>5. pt[q] = pt[p]
  <2>1. pt[q] \in [VAs -> PTE] /\ pt[p] \in [VAs -> PTE]
    BY Zenon DEF IInv, Types
  <2> QED BY <1>4, <2>1
<1>6. Run.op = "run"
  BY Zenon DEF Run, Job
<1>7. Stable
  BY <1>2, SameStable, Zenon DEF Rest
<1>8. \A z \in Procs : job'[z].op \in {"fault", "fork"} => job'[z] = job[z]
  BY <1>3, <1>6, Zenon
<1>9. Copies'
  BY <1>2, <1>7, <1>8, SameCopies, Zenon DEF Rest
<1>10. Links' /\ EntriesOK'
  BY <1>2, SameTables, Zenon
<1> QED BY <1>2, <1>3, <1>5, <1>7, <1>9, <1>10, Zenon DEF Rest

LEMMA DuppageRest ==
  ASSUME IInv, Rest, NEW p \in Procs, Duppage(p)
  PROVE  /\ Rest' /\ Stable /\ UNCHANGED <<mem, kaddr>> /\ job[p].op = "fork" /\ job'[p].op = "fork"
         /\ \A z \in Procs : z # p => job'[z] = job[z]
         /\ \A z \in Procs : job[z].op # "new" =>
               \A w \in VAs : pt'[z][w] = pt[z][w] \/ (pt'[z][w].page = pt[z][w].page /\ pt'[z][w].seg = pt[z][w].seg
                                                       /\ pt[z][w].page # NULL)
<1>1. PICK q \in Procs, va \in VAs : q = job[p].child /\ va = job[p].va
  BY MemAssumption, SMTT(60) DEF IInv, Children, Duppage, Types, JOB, VAs
<1>2. /\ job[p].op = "fork" /\ job[q].op = "new" /\ p # q
      /\ \A z \in Procs : p # z /\ job[z].op = "fork" => job[z].child # q
  BY <1>1, Zenon DEF IInv, Children, Duppage
<1>3. PICK r \in PTE : r = pt[p][va]
  BY Zenon DEF IInv, Types
<1>4. PICK e : e = Dup(r)
  BY Zenon
<1>5. EntryOK(r)
  BY <1>3, Zenon DEF Rest, EntriesOK
<1>6. /\ e.page = r.page /\ e.seg = r.seg /\ (e = r \/ r.page # NULL)
      /\ EntryOK(e)
  <2>1. CASE r.page # NULL /\ "W" \in r.perm /\ "SHARED" \notin r.perm
    <3>1. e = [r EXCEPT !.perm = (r.perm \ {"W"}) \cup {"COW"}]
      BY <1>4, <2>1, Zenon DEF Dup
    <3>2. e.page = r.page /\ e.seg = r.seg /\ e.perm = (r.perm \ {"W"}) \cup {"COW"}
      BY <3>1, Zenon DEF PTE
    <3>3. r.seg = NULL
      BY <1>5, <2>1, Zenon DEF EntryOK
    <3>4. EntryOK(e)
      BY <2>1, <3>2, <3>3, Zenon DEF EntryOK
    <3> QED BY <2>1, <3>2, <3>4, Zenon
  <2>2. CASE ~(r.page # NULL /\ "W" \in r.perm /\ "SHARED" \notin r.perm)
    <3>1. e = r
      BY <1>4, <2>2, Zenon DEF Dup
    <3> QED BY <1>5, <3>1, Zenon
  <2> QED BY <2>1, <2>2, Zenon
<1>7. /\ pt' = [pt EXCEPT ![p][va] = e, ![q][va] = e] /\ job' = [job EXCEPT ![p].va = @ + 1]
      /\ UNCHANGED <<mem, kaddr, shmids>>
  BY <1>1, <1>3, <1>4, Zenon DEF Duppage
<1>8. /\ pt'[p][va] = e /\ pt'[q][va] = e
      /\ \A z \in Procs : \A w \in VAs : <<z, w>> # <<p, va>> /\ <<z, w>> # <<q, va>> => pt'[z][w] = pt[z][w]
  BY <1>2, <1>7, Zenon DEF IInv, Types
<1>9. /\ job'[p].op = "fork" /\ job'[p].va = va + 1 /\ job'[p].child = q
      /\ \A z \in Procs : z # p => job'[z] = job[z]
  <2>1. job \in [Procs -> JOB]
    BY Zenon DEF IInv, Types
  <2> QED BY <1>1, <1>2, <1>7, <2>1, Zenon DEF JOB
<1>10. Stable
  BY <1>7, SameStable, Zenon DEF Rest
<1>11. Links'
  <2>1. ASSUME NEW g \in Pages, NEW s \in Segs \cup {NULL}, LinkedIn(pt', kaddr', g, s)
        PROVE  LinkedIn(pt, kaddr, g, s)
    <3>1. CASE s \in Segs /\ kaddr'[s] = g
      BY <1>7, <3>1, Zenon DEF LinkedIn
    <3>2. ASSUME NEW z \in Procs, NEW w \in VAs, pt'[z][w].page = g, pt'[z][w].seg = s
          PROVE  LinkedIn(pt, kaddr, g, s)
      <4>1. pt'[z][w] = e \/ pt'[z][w] = pt[z][w]
        BY <1>8, Zenon
      <4>2. CASE pt'[z][w] = e
        BY <1>3, <1>6, <3>2, <4>2, Zenon DEF LinkedIn
      <4>3. CASE pt'[z][w] = pt[z][w]
        BY <3>2, <4>3, Zenon DEF LinkedIn
      <4> QED BY <4>1, <4>2, <4>3, Zenon
    <3> QED BY <2>1, <3>1, <3>2, Zenon DEF LinkedIn
  <2> QED BY <1>7, <2>1, LinksSame, Zenon DEF Rest
<1>12. EntriesOK'
  <2>1. \A z \in Procs : \A w \in VAs : pt'[z][w] = e \/ pt'[z][w] = pt[z][w]
    BY <1>8, Zenon
  <2> QED BY <1>6, <2>1, Zenon DEF Rest, EntriesOK
<1>13. Copies'
  <2>1. ASSUME NEW z \in Procs, job'[z].op = "fault"
        PROVE  /\ IsCow(pt'[z][job'[z].va]) \/ Passive(pt'[z][job'[z].va])
               /\ mem'[job'[z].page] = View(mem', pt'[z][job'[z].va])
    <3>1. job'[z] = job[z] /\ job[z].op = "fault" /\ z # p /\ z # q
      BY <1>2, <1>9, <2>1, Zenon
    <3>2. job[z].va \in VAs
      BY <3>1, Zenon DEF IInv, Flight
    <3>3. PICK x : x = pt[z][job[z].va]
      BY Zenon
    <3>4. pt'[z][job'[z].va] = x
      BY <1>8, <3>1, <3>2, <3>3, Zenon
    <3>5. (IsCow(x) \/ Passive(x)) /\ mem[job[z].page] = View(mem, x)
      BY <3>1, <3>3, Zenon DEF Rest, Copies
    <3>6. View(mem', x) = View(mem, x)
      BY <1>7, Zenon DEF View
    <3> QED BY <1>7, <3>1, <3>3, <3>4, <3>5, <3>6, Zenon
  <2>2. ASSUME NEW z \in Procs, job'[z].op = "fork", NEW w \in VAs, w < job'[z].va
        PROVE  pt'[job'[z].child][w] = pt'[z][w]
    <3>1. CASE z = p /\ w = va
      BY <1>8, <1>9, <3>1, Zenon
    <3>2. CASE z = p /\ w # va
      <4>1. w < va
        BY <1>9, <2>2, <3>2, MemAssumption DEF VAs
      <4>2. pt[q][w] = pt[p][w]
        BY <1>1, <1>2, <4>1, Zenon DEF Rest, Copies
      <4>3. pt'[q][w] = pt[q][w] /\ pt'[p][w] = pt[p][w]
        BY <1>8, <3>2, Zenon
      <4> QED BY <1>9, <3>2, <4>2, <4>3, Zenon
    <3>3. CASE z # p
      <4>1. job'[z] = job[z] /\ job[z].op = "fork" /\ z # q
        BY <1>2, <1>9, <2>2, <3>3, Zenon
      <4>2. job[z].child \in Procs /\ job[z].child # q /\ job[z].child # p
        BY <1>2, <3>3, <4>1, Zenon DEF IInv, Children
      <4>3. pt[job[z].child][w] = pt[z][w]
        BY <2>2, <4>1, Zenon DEF Rest, Copies
      <4>4. pt'[job[z].child][w] = pt[job[z].child][w] /\ pt'[z][w] = pt[z][w]
        BY <1>8, <3>3, <4>1, <4>2, Zenon
      <4> QED BY <4>1, <4>3, <4>4, Zenon
    <3> QED BY <3>1, <3>2, <3>3, Zenon
  <2>3. mem' \in [Pages -> Vals]
    BY <1>10, Zenon DEF Stable
  <2> QED BY <2>1, <2>2, <2>3, Zenon DEF Copies
<1>14. ASSUME NEW z \in Procs, job[z].op # "new", NEW w \in VAs
       PROVE  pt'[z][w] = pt[z][w] \/ (pt'[z][w].page = pt[z][w].page /\ pt'[z][w].seg = pt[z][w].seg
                                       /\ pt[z][w].page # NULL)
  <2>1. z # q
    BY <1>2, <1>14, Zenon
  <2>2. CASE <<z, w>> = <<p, va>>
    BY <1>3, <1>6, <1>8, <2>2, Zenon
  <2>3. CASE <<z, w>> # <<p, va>>
    BY <1>8, <2>1, <2>3, Zenon
  <2> QED BY <2>2, <2>3, Zenon
<1> QED BY <1>2, <1>7, <1>9, <1>10, <1>11, <1>12, <1>13, <1>14, Zenon DEF Rest

LEMMA ShmgetRest ==
  ASSUME IInv, Rest, NEW p \in Procs, NEW s \in Segs, NEW g \in Pages, Shmget(p, s, g)
  PROVE  /\ Rest' /\ Stable /\ UNCHANGED <<pt, job>> /\ kaddr[s] = NULL /\ kaddr'[s] = g /\ mem'[g] = Zero
         /\ \A t \in Segs : t # s => kaddr'[t] = kaddr[t]
<1>1. s \notin shmids /\ shmids' = shmids \cup {s} /\ kaddr' = [kaddr EXCEPT ![s] = g] /\ UNCHANGED <<pt, job>>
      /\ PmAlloc(g, Zero)
  BY Zenon DEF Shmget
<1>2. kaddr'[s] = g /\ \A t \in Segs : t # s => kaddr'[t] = kaddr[t]
  BY <1>1, Zenon DEF IInv, Types
<1>3. kaddr[s] = NULL
  BY <1>1, Zenon DEF IInv, NotYet
<1>4. Stable /\ mem'[g] = Zero
  BY <1>1, MemAssumption, AllocStable, Zenon DEF Rest
<1>5. Copies'
  BY <1>1, <1>4, SameCopies, Zenon DEF Rest
<1>6. EntriesOK'
  BY <1>1, Zenon DEF Rest, EntriesOK
<1>7. Links'
  <2>0. NULL \notin Segs /\ NULL \notin Pages
    BY MemAssumption, Zenon
  <2>1. ref[g] = 0
    BY <1>1, Zenon DEF PmAlloc, IInv, Lists
  <2>2. \A t \in Segs \cup {NULL} : ~LinkedIn(pt, kaddr, g, t)
    BY <2>1, FreshPage, Zenon DEF LinkedIn
  <2>3. \A h \in Pages : ~LinkedIn(pt, kaddr, h, s)
    BY <1>1, Zenon DEF Rest, Links
  <2>4. ASSUME NEW h \in Pages, NEW t \in Segs \cup {NULL}, LinkedIn(pt', kaddr', h, t)
        PROVE  LinkedIn(pt, kaddr, h, t) \/ (h = g /\ t = s)
    BY <1>1, <1>2, <2>4, Zenon DEF LinkedIn
  <2>5. s \in shmids' \cup {NULL} /\ shmids \subseteq shmids'
    BY <1>1, Zenon
  <2> QED BY <2>0, <2>2, <2>3, <2>4, <2>5, LinksNew, Zenon DEF Rest
<1> QED BY <1>1, <1>2, <1>3, <1>4, <1>5, <1>6, <1>7, Zenon DEF Rest

LEMMA ShmRmidRest ==
  ASSUME IInv, Rest, NEW p \in Procs, NEW s \in Segs, ShmRmid(p, s)
  PROVE  /\ Rest' /\ Stable /\ UNCHANGED <<pt, job, mem>> /\ kaddr'[s] = NULL
         /\ \A t \in Segs : t # s => kaddr'[t] = kaddr[t]
<1>1. kaddr' = [kaddr EXCEPT ![s] = NULL] /\ UNCHANGED <<pt, mem, job, shmids>>
  BY Zenon DEF ShmRmid
<1>2. kaddr'[s] = NULL /\ \A t \in Segs : t # s => kaddr'[t] = kaddr[t]
  BY <1>1, Zenon DEF IInv, Types
<1>4. Stable
  BY <1>1, SameStable, Zenon DEF Rest
<1>5. Copies'
  BY <1>1, <1>4, SameCopies, Zenon DEF Rest
<1>6. EntriesOK'
  BY <1>1, Zenon DEF Rest, EntriesOK
<1>7. Links'
  <2>0. NULL \notin Pages
    BY MemAssumption, Zenon
  <2>4. ASSUME NEW h \in Pages, NEW t \in Segs \cup {NULL}, LinkedIn(pt', kaddr', h, t)
        PROVE  LinkedIn(pt, kaddr, h, t)
    BY <1>1, <1>2, <2>0, <2>4, Zenon DEF LinkedIn
  <2> QED BY <1>1, <2>4, LinksSame, Zenon DEF Rest
<1> QED BY <1>1, <1>2, <1>4, <1>5, <1>6, <1>7, Zenon DEF Rest
=============================================================================
