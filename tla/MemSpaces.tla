----------------------------- MODULE MemSpaces ------------------------------
(***************************************************************************)
(* Proof that Mem implements Spaces, for any number of processes, pages,   *)
(* addresses and segments: what each step of the tables and the pages      *)
(* shows to the processes.                                                 *)
(***************************************************************************)
EXTENDS MemProofs

\* The spaces the processes see, an address at a time.
LEMMA BarAt ==
  /\ \A p \in Procs : \A va \in VAs :
        /\ viewBar[p][va] = (IF Seen(p) THEN View(mem, pt[p][va]) ELSE NULL)
        /\ segBar[p][va] = (IF Seen(p) THEN pt[p][va].seg ELSE NULL)
  /\ \A s \in Segs : segvalBar[s] = IF kaddr[s] = NULL THEN NULL ELSE mem[kaddr[s]]
  BY Zenon DEF viewBar, segBar, segvalBar

LEMMA BarTypes ==
  ASSUME IInv, Copies
  PROVE  /\ viewBar \in [Procs -> [VAs -> Vals \cup {NULL}]]
         /\ segBar \in [Procs -> [VAs -> Segs \cup Objects \cup {NULL}]]
         /\ segvalBar \in [Segs -> Vals \cup {NULL}]
<1>0. Zero \in Vals /\ mem \in [Pages -> Vals] /\ kaddr \in [Segs -> Pages \cup {NULL}]
  BY MemAssumption, Zenon DEF Copies, IInv, Types
<1>1. ASSUME NEW p \in Procs, NEW va \in VAs
      PROVE  View(mem, pt[p][va]) \in Vals \cup {NULL} /\ pt[p][va].seg \in Segs \cup Objects \cup {NULL}
  <2>1. PICK e \in PTE : e = pt[p][va]
    BY Zenon DEF IInv, Types
  <2>2. e.page \in Pages \cup {NULL} /\ e.seg \in Segs \cup Objects \cup {NULL}
    BY Zenon DEF PTE
  <2>3. View(mem, e) \in Vals \cup {NULL}
    BY <1>0, <2>2, Zenon DEF View
  <2> QED BY <2>1, <2>2, <2>3, Zenon
<1>2. \A s \in Segs : kaddr[s] # NULL => mem[kaddr[s]] \in Vals
  BY <1>0, Zenon
<1>3. viewBar \in [Procs -> [VAs -> Vals \cup {NULL}]]
  BY <1>1 DEF viewBar
<1>4. segBar \in [Procs -> [VAs -> Segs \cup Objects \cup {NULL}]]
  BY <1>1 DEF segBar
<1>5. segvalBar \in [Segs -> Vals \cup {NULL}]
  BY <1>2, Zenon DEF segvalBar
<1> QED BY <1>3, <1>4, <1>5

At(f, p, va, x) == [f EXCEPT ![p][va] = x]

LEMMA Put2 ==
  ASSUME NEW S, NEW f \in [Procs -> [VAs -> S]], NEW h \in [Procs -> [VAs -> S]], NEW p \in Procs, NEW va \in VAs, NEW x,
         h[p][va] = x, \A q \in Procs : \A w \in VAs : <<q, w>> # <<p, va>> => h[q][w] = f[q][w]
  PROVE  h = At(f, p, va, x)
<1> DEFINE k == [f EXCEPT ![p][va] = x]
<1>1. x \in S
  BY Zenon
<1>2. k \in [Procs -> [VAs -> S]]
  BY <1>1, Zenon
<1>3. \A q \in Procs : \A w \in VAs : k[q][w] = h[q][w]
  OBVIOUS
<1> HIDE DEF k
<1>4. \A q \in Procs : k[q] = h[q]
  BY <1>2, <1>3
<1>5. k = h
  BY <1>2, <1>4
<1> QED BY <1>5 DEF k, At

LEMMA Same2 ==
  ASSUME NEW S, NEW f \in [Procs -> [VAs -> S]], NEW h \in [Procs -> [VAs -> S]],
         \A q \in Procs : \A w \in VAs : h[q][w] = f[q][w]
  PROVE  h = f
<1>4. \A q \in Procs : f[q] = h[q]
  OBVIOUS
<1> QED BY <1>4

LEMMA Row2 ==
  ASSUME NEW S, NEW f \in [Procs -> [VAs -> S]], NEW h \in [Procs -> [VAs -> S]], NEW p \in Procs, NEW r \in [VAs -> S],
         \A w \in VAs : h[p][w] = r[w], \A q \in Procs : \A w \in VAs : q # p => h[q][w] = f[q][w]
  PROVE  h = [f EXCEPT ![p] = r]
<1>1. h[p] = r
  OBVIOUS
<1>2. \A q \in Procs : q # p => h[q] = f[q]
  OBVIOUS
<1> QED BY <1>1, <1>2

\* What a process sees at an address, before and after a step.
SeenAs(q, w, x, s) == viewBar'[q][w] = x /\ segBar'[q][w] = s
KeptAt(q, w) == SeenAs(q, w, viewBar[q][w], segBar[q][w])

LEMMA KeptIs ==
  ASSUME Stable, NEW q \in Procs, NEW w \in VAs, Seen(q)' = Seen(q),
         \/ ~Seen(q)
         \/ pt'[q][w] = pt[q][w]
         \/ pt'[q][w].page = pt[q][w].page /\ pt'[q][w].seg = pt[q][w].seg /\ pt[q][w].page # NULL
  PROVE  KeptAt(q, w)
<1>1. /\ viewBar'[q][w] = (IF Seen(q)' THEN View(mem', pt'[q][w]) ELSE NULL)
      /\ segBar'[q][w] = (IF Seen(q)' THEN pt'[q][w].seg ELSE NULL)
  BY Zenon DEF viewBar, segBar
<1>2. pt[q][w].page # NULL => mem'[pt[q][w].page] = mem[pt[q][w].page]
  BY Zenon DEF Stable
<1>3. CASE ~Seen(q)
  BY <1>1, <1>3, BarAt, Zenon DEF KeptAt, SeenAs
<1>4. CASE pt'[q][w] = pt[q][w]
  <2>1. View(mem', pt[q][w]) = View(mem, pt[q][w])
    BY <1>2, Zenon DEF View
  <2> QED BY <1>1, <1>4, <2>1, BarAt, Zenon DEF KeptAt, SeenAs
<1>5. CASE pt'[q][w].page = pt[q][w].page /\ pt'[q][w].seg = pt[q][w].seg /\ pt[q][w].page # NULL
  <2>1. View(mem', pt'[q][w]) = View(mem, pt[q][w])
    BY <1>2, <1>5, Zenon DEF View
  <2> QED BY <1>1, <1>5, <2>1, BarAt, Zenon DEF KeptAt, SeenAs
<1> QED BY <1>3, <1>4, <1>5, Zenon

LEMMA SegvalKept ==
  ASSUME Stable, UNCHANGED kaddr PROVE UNCHANGED segvalBar
  BY Zenon DEF Stable, segvalBar

LEMMA AllKept ==
  ASSUME IInv, Copies, IInv', Copies', \A q \in Procs : \A w \in VAs : KeptAt(q, w)
  PROVE  UNCHANGED <<viewBar, segBar>>
<1>1. (/\ viewBar \in [Procs -> [VAs -> Vals \cup {NULL}]]
       /\ segBar \in [Procs -> [VAs -> Segs \cup Objects \cup {NULL}]])'
  BY BarTypes, PTL
<1>2. viewBar' = viewBar
  BY <1>1, BarTypes, Same2 DEF KeptAt, SeenAs
<1>3. segBar' = segBar
  BY <1>1, BarTypes, Same2 DEF KeptAt, SeenAs
<1> QED BY <1>2, <1>3

LEMMA OneChanged ==
  ASSUME IInv, Copies, IInv', Copies', NEW p \in Procs, NEW va \in VAs, NEW x, NEW s, SeenAs(p, va, x, s),
         \A q \in Procs : \A w \in VAs : <<q, w>> # <<p, va>> => KeptAt(q, w)
  PROVE  viewBar' = At(viewBar, p, va, x) /\ segBar' = At(segBar, p, va, s)
<1>1. (/\ viewBar \in [Procs -> [VAs -> Vals \cup {NULL}]]
       /\ segBar \in [Procs -> [VAs -> Segs \cup Objects \cup {NULL}]])'
  BY BarTypes, PTL
<1>2. /\ viewBar \in [Procs -> [VAs -> Vals \cup {NULL}]]
      /\ segBar \in [Procs -> [VAs -> Segs \cup Objects \cup {NULL}]]
  BY BarTypes, Zenon
<1>3. viewBar' = At(viewBar, p, va, x)
  <2>1. viewBar'[p][va] = x /\ \A q \in Procs : \A w \in VAs : <<q, w>> # <<p, va>> => viewBar'[q][w] = viewBar[q][w]
    BY Zenon DEF KeptAt, SeenAs
  <2> QED BY <1>1, <1>2, <2>1, Put2 DEF At
<1>4. segBar' = At(segBar, p, va, s)
  <2>1. segBar'[p][va] = s /\ \A q \in Procs : \A w \in VAs : <<q, w>> # <<p, va>> => segBar'[q][w] = segBar[q][w]
    BY Zenon DEF KeptAt, SeenAs
  <2> QED BY <1>1, <1>2, <2>1, Put2 DEF At
<1> QED BY <1>3, <1>4

-----------------------------------------------------------------------------
\* Both sides of a step.
Around == IInv /\ Rest /\ IInv' /\ Rest'
Visible == <<aliveBar, userBar, viewBar, segBar, segvalBar>>

LEMMA RunSeen == Run.op = "run" /\ \A p \in Procs : job[p] = Run => Seen(p)
  BY DEF Run, Job, Seen

\* A process that runs changes an entry.
MapShows(p, va, e) ==
    /\ UNCHANGED <<aliveBar, userBar, segvalBar>> /\ p \in userBar
    /\ viewBar' = At(viewBar, p, va, View(mem', e))
    /\ segBar' = At(segBar, p, va, e.seg)
    /\ viewBar[p][va] = View(mem, pt[p][va]) /\ segBar[p][va] = pt[p][va].seg
LEMMA MapSeen ==
  ASSUME Around, Stable, NEW p \in Procs, NEW va \in VAs, NEW e, MapsTo(p, va, e), job[p] = Run, job' = job
  PROVE  MapShows(p, va, e)
<1>1. UNCHANGED <<aliveBar, userBar>> /\ p \in userBar /\ \A q \in Procs : Seen(q)' = Seen(q)
  BY Zenon DEF aliveBar, userBar, Seen
<1>2. UNCHANGED segvalBar
  BY SegvalKept, Zenon DEF MapsTo
<1>3. \A q \in Procs : \A w \in VAs : <<q, w>> # <<p, va>> => KeptAt(q, w)
  BY <1>1, KeptIs, Zenon DEF MapsTo
<1>4. Seen(p) /\ Seen(p)'
  BY <1>1, RunSeen, Zenon
<1>5. SeenAs(p, va, View(mem', e), e.seg)
  <2>1. pt'[p][va] = e
    BY Zenon DEF MapsTo
  <2> QED BY <1>4, <2>1, Zenon DEF SeenAs, viewBar, segBar
<1>6. viewBar' = At(viewBar, p, va, View(mem', e)) /\ segBar' = At(segBar, p, va, e.seg)
  <2>1. IInv /\ Copies /\ IInv' /\ Copies'
    BY Zenon DEF Around, Rest
  <2> QED BY <1>3, <1>5, <2>1, OneChanged, Zenon
<1>7. viewBar[p][va] = View(mem, pt[p][va]) /\ segBar[p][va] = pt[p][va].seg
  BY <1>4, BarAt, Zenon
<1> QED BY <1>1, <1>2, <1>6, <1>7, Zenon DEF MapShows

\* An entry set to what it was.
LEMMA Unchanged2 ==
  ASSUME NEW S, NEW f \in [Procs -> [VAs -> S]], NEW p \in Procs, NEW va \in VAs
  PROVE  At(f, p, va, f[p][va]) = f
  BY DEF At

LEMMA SysMapSpaces ==
  ASSUME Around, NEW p \in Procs, NEW va \in VAs, SysMap(p, va, NULL)
  PROVE  Abstract!Map(p, va) \/ UNCHANGED Visible
<1>0. IInv /\ Rest /\ job[p] = Run /\ job' = job /\ pt[p][va].page = NULL
  BY Zenon DEF Around, SysMap
<1>1. Stable
  BY <1>0, SysMapRest, Zenon
<1>2. PICK e \in PTE : MapsTo(p, va, e) /\ e.seg = NULL /\ (e.page = NULL \/ mem'[e.page] = Zero) /\ "U" \in e.perm
  BY <1>0, SysMapRest, Zenon
<1>3. View(mem', e) = Zero
  BY <1>2, Zenon DEF View, Passive
<1>4. /\ UNCHANGED <<aliveBar, userBar, segvalBar>> /\ p \in userBar
      /\ viewBar' = At(viewBar, p, va, Zero)
      /\ segBar' = At(segBar, p, va, NULL)
      /\ viewBar[p][va] = View(mem, pt[p][va]) /\ segBar[p][va] = pt[p][va].seg
  <2>1. MapShows(p, va, e)
    BY <1>0, <1>1, <1>2, MapSeen, Zenon
  <2> QED BY <1>2, <1>3, <2>1, Zenon DEF MapShows
<1>5. CASE viewBar[p][va] = NULL
  BY <1>4, <1>5, Zenon DEF Abstract!Map, At
<1>6. CASE viewBar[p][va] # NULL
  <2>1. viewBar[p][va] = Zero
    BY <1>0, <1>4, <1>6, Zenon DEF View
  <2>2. segBar[p][va] = NULL
    BY <1>0, <1>4, Zenon DEF Rest, EntriesOK, EntryOK
  <2>3. viewBar \in [Procs -> [VAs -> Vals \cup {NULL}]] /\ segBar \in [Procs -> [VAs -> Segs \cup Objects \cup {NULL}]]
    BY <1>0, BarTypes, Zenon DEF Rest
  <2>4. viewBar' = viewBar /\ segBar' = segBar
    BY <1>4, <2>1, <2>2, <2>3, Unchanged2, Zenon
  <2> QED BY <1>4, <2>4, Zenon DEF Visible
<1> QED BY <1>5, <1>6

LEMMA UnmapSpaces ==
  ASSUME Around, NEW p \in Procs, NEW va \in VAs, Unmap(p, va)
  PROVE  Abstract!Unmap(p, va)
<1>0. IInv /\ Rest /\ job[p] = Run /\ job' = job
  BY Zenon DEF Around, Unmap
<1>1. Stable /\ MapsTo(p, va, NoPte)
  BY <1>0, UnmapRest, Zenon
<1>2. View(mem', NoPte) = NULL
  BY NoPteOK, Zenon DEF View, Passive
<1>3. /\ UNCHANGED <<aliveBar, userBar, segvalBar>> /\ p \in userBar
      /\ viewBar' = At(viewBar, p, va, NULL) /\ segBar' = At(segBar, p, va, NULL)
  <2>1. MapShows(p, va, NoPte)
    BY <1>0, <1>1, MapSeen, Zenon
  <2> QED BY <1>2, <2>1, NoPteOK, Zenon DEF MapShows
<1> QED BY <1>3, Zenon DEF Abstract!Unmap, At

LEMMA SysMprotectSpaces ==
  ASSUME Around, NEW p \in Procs, NEW va \in VAs, SysMprotect(p, va, {})
  PROVE  UNCHANGED Visible
<1>0. IInv /\ Rest /\ job[p] = Run /\ job' = job /\ pt[p][va] # NoPte /\ mem' = mem
  BY Zenon DEF Around, SysMprotect
<1>1. Stable
  BY <1>0, SysMprotectRest, Zenon
<1>2. PICK e \in PTE : MapsTo(p, va, e) /\ e.page = pt[p][va].page /\ e.seg = pt[p][va].seg /\ "U" \in e.perm
  BY <1>0, SysMprotectRest, Zenon
<1>3. View(mem', e) = View(mem, pt[p][va])
  <2>1. CASE e.page # NULL
    BY <1>0, <1>2, <2>1, Zenon DEF View
  <2>2. CASE e.page = NULL
    <3>1. PICK r \in PTE : r = pt[p][va]
      BY <1>0, Zenon DEF IInv, Types
    <3>2. r.page = NULL /\ r.seg = NULL /\ (r.perm = {} \/ "U" \in r.perm)
      BY <1>0, <1>2, <2>2, <3>1, Zenon DEF Rest, EntriesOK, EntryOK
    <3>3. r.perm # {}
      <4>1. r = [page |-> r.page, perm |-> r.perm, seg |-> r.seg]
        BY Zenon DEF PTE
      <4> QED BY <1>0, <3>1, <3>2, <4>1, Zenon DEF NoPte
    <3> QED BY <1>2, <2>2, <3>1, <3>2, <3>3, Zenon DEF View, Passive
  <2> QED BY <2>1, <2>2
<1>4. /\ UNCHANGED <<aliveBar, userBar, segvalBar>>
      /\ viewBar' = At(viewBar, p, va, viewBar[p][va])
      /\ segBar' = At(segBar, p, va, segBar[p][va])
  <2>1. MapShows(p, va, e)
    BY <1>0, <1>1, <1>2, MapSeen, Zenon
  <2> QED BY <1>2, <1>3, <2>1, Zenon DEF MapShows
<1>5. viewBar \in [Procs -> [VAs -> Vals \cup {NULL}]] /\ segBar \in [Procs -> [VAs -> Segs \cup Objects \cup {NULL}]]
  BY <1>0, BarTypes, Zenon DEF Rest
<1>6. viewBar' = viewBar /\ segBar' = segBar
  BY <1>4, <1>5, Unchanged2, Zenon
<1> QED BY <1>4, <1>6, Zenon DEF Visible

LEMMA ShmatSpaces ==
  ASSUME Around, NEW p \in Procs, NEW va \in VAs, NEW s \in Segs, Shmat(p, va, s)
  PROVE  Abstract!Attach(p, va, s)
<1>0. IInv /\ Rest /\ job[p] = Run /\ job' = job /\ kaddr[s] # NULL /\ mem' = mem
  BY Zenon DEF Around, Shmat
<1>1. Stable
  BY <1>0, ShmatRest, Zenon
<1>2. PICK e \in PTE : MapsTo(p, va, e) /\ e.page = kaddr[s] /\ e.seg = s
  BY <1>0, ShmatRest, Zenon
<1>3. segvalBar[s] = mem[kaddr[s]]
  BY <1>0, BarAt, Zenon
<1>4. View(mem', e) = segvalBar[s]
  BY <1>0, <1>2, <1>3, Zenon DEF View
<1>5. segvalBar[s] # NULL
  <2>1. kaddr[s] \in Pages /\ mem[kaddr[s]] \in Vals /\ NULL \notin Vals
    BY <1>0, MemAssumption, Zenon DEF IInv, Types, Rest, Copies
  <2> QED BY <1>3, <2>1, Zenon
<1>6. /\ UNCHANGED <<aliveBar, userBar, segvalBar>> /\ p \in userBar
      /\ viewBar' = At(viewBar, p, va, segvalBar[s]) /\ segBar' = At(segBar, p, va, s)
  <2>1. MapShows(p, va, e)
    BY <1>0, <1>1, <1>2, MapSeen, Zenon
  <2> QED BY <1>2, <1>4, <2>1, Zenon DEF MapShows
<1> QED BY <1>5, <1>6, Zenon DEF Abstract!Attach, At

LEMMA LinkedBack ==
  ASSUME Links, NEW g \in Pages, NEW h \in Pages, NEW s \in Segs, s # NULL, LinkedIn(pt, kaddr, g, s), LinkedIn(pt, kaddr, h, s)
  PROVE  g = h
  BY DEF Links

\* A store changes what is seen through the entries of its page.
StoreShows(p, va, v, g) ==
    /\ p \in userBar /\ viewBar[p][va] # NULL /\ segBar[p][va] = pt[p][va].seg
    /\ aliveBar' = aliveBar /\ userBar' = userBar /\ segBar' = segBar
    /\ \A q \in Procs : \A w \in VAs :
          viewBar'[q][w] = IF Seen(q) /\ pt[q][w].page = g THEN v ELSE viewBar[q][w]
    /\ \A s \in Segs : segvalBar'[s] = IF kaddr[s] = g THEN v ELSE segvalBar[s]
LEMMA StoreSeen ==
  ASSUME NoShared, WritableIsPrivate, Around, NEW p \in Procs, NEW va \in VAs, NEW v \in Vals, Store(p, va, v)
  PROVE  StoreShows(p, va, v, pt[p][va].page)
<1>0. IInv /\ Rest /\ Rest' /\ job[p] = Run /\ UNCHANGED <<pt, job, kaddr>>
  BY Zenon DEF Around, Store
<1>1. PICK g \in Pages : g = pt[p][va].page /\ mem'[g] = v /\ \A h \in Pages : h # g => mem'[h] = mem[h]
  BY <1>0, StoreRest, Zenon
<1>2. g # NULL /\ Seen(p) /\ mem[g] \in Vals /\ NULL \notin Vals
  BY <1>0, RunSeen, MemAssumption, Zenon DEF Rest, Copies
<1>3. p \in userBar /\ viewBar[p][va] # NULL /\ segBar[p][va] = pt[p][va].seg
  <2>1. View(mem, pt[p][va]) = mem[g]
    BY <1>1, <1>2, Zenon DEF View
  <2> QED BY <1>0, <1>2, <2>1, BarAt, Zenon DEF userBar
<1>4. UNCHANGED <<aliveBar, userBar, segBar>> /\ \A q \in Procs : Seen(q)' = Seen(q)
  BY <1>0, Zenon DEF aliveBar, userBar, segBar, Seen
<1>5. ASSUME NEW q \in Procs, NEW w \in VAs
      PROVE  viewBar'[q][w] = IF Seen(q) /\ pt[q][w].page = pt[p][va].page THEN v ELSE viewBar[q][w]
  <2>1. viewBar'[q][w] = IF Seen(q) THEN View(mem', pt[q][w]) ELSE NULL
    BY <1>0, <1>4, Zenon DEF viewBar
  <2>2. viewBar[q][w] = IF Seen(q) THEN View(mem, pt[q][w]) ELSE NULL
    BY BarAt, Zenon
  <2>3. PICK x \in PTE : x = pt[q][w]
    BY <1>0, Zenon DEF IInv, Types
  <2>4. View(mem', x) = IF x.page = g THEN v ELSE View(mem, x)
    <3>1. x.page \in Pages \cup {NULL}
      BY Zenon DEF PTE
    <3>2. CASE x.page = g
      BY <1>1, <1>2, <3>2, Zenon DEF View
    <3>3. CASE x.page # g /\ x.page \in Pages
      BY <1>1, <3>3, Zenon DEF View
    <3>4. CASE x.page # g /\ x.page = NULL
      BY <1>1, <3>4, Zenon DEF View
    <3> QED BY <3>1, <3>2, <3>3, <3>4, Zenon
  <2> QED BY <1>1, <2>1, <2>2, <2>3, <2>4, Zenon
<1>6. ASSUME NEW s \in Segs
      PROVE  segvalBar'[s] = IF kaddr[s] = pt[p][va].page THEN v ELSE segvalBar[s]
  <2>1. segvalBar'[s] = IF kaddr[s] = NULL THEN NULL ELSE mem'[kaddr[s]]
    BY <1>0, Zenon DEF segvalBar
  <2>2. segvalBar[s] = IF kaddr[s] = NULL THEN NULL ELSE mem[kaddr[s]]
    BY BarAt, Zenon
  <2>3. kaddr[s] \in Pages \cup {NULL}
    BY <1>0, Zenon DEF IInv, Types
  <2> QED BY <1>1, <1>2, <2>1, <2>2, <2>3, Zenon
<1> QED BY <1>3, <1>4, <1>5, <1>6, Zenon DEF StoreShows

LEMMA StoreSpaces ==
  ASSUME NoShared, WritableIsPrivate, Around, NEW p \in Procs, NEW va \in VAs, NEW v \in Vals, Store(p, va, v)
  PROVE  Abstract!Write(p, va, v)
<1>0. IInv /\ Rest /\ Links /\ IInv' /\ Rest'
  BY Zenon DEF Around, Rest
<1>1. PICK g \in Pages : g = pt[p][va].page
  BY <1>0, StoreRest, Zenon
<1>2. PICK s0 \in Segs \cup {NULL} : s0 = pt[p][va].seg
  <2>1. PICK x \in PTE : x = pt[p][va]
    BY <1>0, Zenon DEF IInv, Types
  <2>2. x.seg \in Segs \cup Objects \cup {NULL}
    BY Zenon DEF PTE
  <2> QED BY <2>1, <2>2, Zenon DEF NoShared
<1>3. LinkedIn(pt, kaddr, g, s0) /\ NULL \notin Segs /\ NULL \notin Pages
  BY <1>1, <1>2, MemAssumption, Zenon DEF LinkedIn
<1>4. /\ p \in userBar /\ viewBar[p][va] # NULL /\ segBar[p][va] = s0
      /\ aliveBar' = aliveBar /\ userBar' = userBar /\ segBar' = segBar
      /\ \A q \in Procs : \A w \in VAs :
            viewBar'[q][w] = IF Seen(q) /\ pt[q][w].page = g THEN v ELSE viewBar[q][w]
      /\ \A s \in Segs : segvalBar'[s] = IF kaddr[s] = g THEN v ELSE segvalBar[s]
  <2>1. StoreShows(p, va, v, pt[p][va].page)
    BY StoreSeen, Zenon
  <2>2. StoreShows(p, va, v, g)
    BY <1>1, <2>1, Zenon
  <2> QED BY <1>2, <2>2, Zenon DEF StoreShows
<1>5. \A q \in Procs : \A w \in VAs : pt[q][w].page = g => pt[q][w].seg = s0 /\ (<<q, w>> = <<p, va>> \/ s0 # NULL)
  BY <1>0, <1>1, <1>2, StoreOther, Zenon
<1>6. \A s \in Segs : kaddr[s] = g => s = s0
  BY <1>0, <1>3, LinkedOnce, Zenon DEF LinkedIn
<1>7. /\ viewBar \in [Procs -> [VAs -> Vals \cup {NULL}]] /\ segvalBar \in [Segs -> Vals \cup {NULL}]
      /\ (viewBar \in [Procs -> [VAs -> Vals \cup {NULL}]] /\ segvalBar \in [Segs -> Vals \cup {NULL}])'
  <2>1. IInv /\ Copies /\ IInv' /\ Copies'
    BY <1>0, Zenon DEF Rest
  <2> QED BY <2>1, BarTypes, PTL
<1>8. CASE s0 = NULL
  <2>1. \A s \in Segs : segvalBar'[s] = segvalBar[s]
    BY <1>3, <1>4, <1>6, <1>8, Zenon
  <2>2. segvalBar' = segvalBar
    BY <1>7, <2>1
  <2>3. Seen(p)
    BY RunSeen, Zenon DEF Store
  <2>4. viewBar'[p][va] = v /\ \A q \in Procs : \A w \in VAs : <<q, w>> # <<p, va>> => viewBar'[q][w] = viewBar[q][w]
    BY <1>1, <1>4, <1>5, <1>8, <2>3, Zenon
  <2>5. viewBar' = At(viewBar, p, va, v)
    BY <1>7, <2>4, Put2 DEF At
  <2>6. segBar[p][va] = NULL /\ p \in userBar /\ viewBar[p][va] # NULL
        /\ aliveBar' = aliveBar /\ userBar' = userBar /\ segBar' = segBar
    BY <1>4, <1>8
  <2> QED BY <2>2, <2>5, <2>6 DEF Abstract!Write, At
<1>9. CASE s0 # NULL
  <2>1. s0 \in Segs
    BY <1>9, Zenon
  <2>2. ASSUME NEW q \in Procs, NEW w \in VAs
        PROVE  viewBar'[q][w] = IF segBar[q][w] = s0 THEN v ELSE viewBar[q][w]
    <3>1. segBar[q][w] = IF Seen(q) THEN pt[q][w].seg ELSE NULL
      BY BarAt, Zenon
    <3>2. pt[q][w].seg = s0 => pt[q][w].page = g
      <4> SUFFICES ASSUME pt[q][w].seg = s0 PROVE pt[q][w].page = g
        BY Zenon
      <4>1. PICK x \in PTE : x = pt[q][w]
        BY <1>0, Zenon DEF IInv, Types
      <4>2. x.page # NULL
        BY <1>0, <1>9, <4>1, Zenon DEF Rest, EntriesOK, EntryOK
      <4>3. x.page \in Pages
        BY <4>2, Zenon DEF PTE
      <4>4. LinkedIn(pt, kaddr, x.page, s0)
        BY <4>1, Zenon DEF LinkedIn
      <4> QED BY <1>0, <1>3, <1>9, <2>1, <4>1, <4>3, <4>4, LinkedBack, Zenon
    <3> QED BY <1>4, <1>5, <1>9, <3>1, <3>2, Zenon
  <2>3. ASSUME NEW s \in Segs
        PROVE  segvalBar'[s] = IF s = s0 /\ segvalBar[s] # NULL THEN v ELSE segvalBar[s]
    <3>1. segvalBar[s] = IF kaddr[s] = NULL THEN NULL ELSE mem[kaddr[s]]
      BY BarAt, Zenon
    <3>2. kaddr[s] # NULL => kaddr[s] \in Pages /\ mem[kaddr[s]] # NULL
      <4>1. NULL \notin Vals
        BY MemAssumption, Zenon
      <4>2. kaddr \in [Segs -> Pages \cup {NULL}] /\ mem \in [Pages -> Vals]
        BY <1>0, Zenon DEF IInv, Types, Rest, Copies
      <4> QED BY <4>1, <4>2, Zenon
    <3>3. CASE kaddr[s] = g
      BY <1>3, <1>4, <1>6, <3>1, <3>2, <3>3, Zenon
    <3>4. CASE kaddr[s] # g
      <4>1. kaddr[s] # NULL => s # s0
        <5> SUFFICES ASSUME kaddr[s] # NULL, s = s0 PROVE FALSE
          BY Zenon
        <5>1. LinkedIn(pt, kaddr, kaddr[s], s0) /\ kaddr[s] \in Pages
          BY <3>2, Zenon DEF LinkedIn
        <5> QED BY <1>0, <1>3, <1>9, <2>1, <3>4, <5>1, LinkedBack, Zenon
      <4> QED BY <1>4, <3>1, <3>4, <4>1, Zenon
    <3> QED BY <3>3, <3>4
  <2>4. viewBar' = [q \in Procs |-> [w \in VAs |-> IF segBar[q][w] = segBar[p][va] THEN v ELSE viewBar[q][w]]]
    <3>1. viewBar' = [q \in Procs |-> [w \in VAs |-> viewBar'[q][w]]]
      BY <1>7
    <3> QED BY <1>4, <2>2, <3>1, Zenon
  <2>5. segvalBar' = [s \in Segs |-> IF s = segBar[p][va] /\ segvalBar[s] # NULL THEN v ELSE segvalBar[s]]
    <3>1. segvalBar' = [s \in Segs |-> segvalBar'[s]]
      BY <1>7
    <3> QED BY <1>4, <2>3, <3>1, Zenon
  <2> QED BY <1>4, <1>9, <2>4, <2>5, Zenon DEF Abstract!Write
<1> QED BY <1>8, <1>9

-----------------------------------------------------------------------------
\* A step that leaves the tables alone shows nothing but who runs.
LEMMA TablesKept ==
  ASSUME Around, Stable, UNCHANGED <<pt, kaddr>>, \A q \in Procs : Seen(q)' = Seen(q)
  PROVE  UNCHANGED <<aliveBar, viewBar, segBar, segvalBar>>
<1>1. \A q \in Procs : \A w \in VAs : KeptAt(q, w)
  BY KeptIs, Zenon
<1>2. UNCHANGED segvalBar
  BY SegvalKept, Zenon
<1>3. UNCHANGED <<viewBar, segBar>>
  BY <1>1, AllKept, Zenon DEF Around, Rest
<1>4. UNCHANGED aliveBar
  BY Zenon DEF aliveBar
<1> QED BY <1>2, <1>3, <1>4

\* Who runs after p alone has changed its job.
LEMMA Leaves ==
  ASSUME NEW p \in Procs, job[p] = Run, job'[p] # Run, \A q \in Procs : q # p => (job'[q] = Run <=> job[q] = Run)
  PROVE  p \in userBar /\ userBar' = userBar \ {p}
  BY DEF userBar

LEMMA FaultSpaces ==
  ASSUME Around, NEW p \in Procs, NEW va \in VAs, NEW g \in Pages, Fault(p, va, g)
  PROVE  Abstract!Enter(p)
<1>0. IInv /\ Rest /\ job[p] = Run /\ UNCHANGED <<pt, kaddr>>
  BY Zenon DEF Around, Fault
<1>1. Stable
  BY <1>0, FaultRest, Zenon
<1>2. job'[p].op = "fault" /\ \A q \in Procs : q # p => job'[q] = job[q]
  <2>1. job \in [Procs -> JOB] /\ job' = [job EXCEPT ![p] = Job("fault", va, g, NULL)]
    BY <1>0, Zenon DEF IInv, Types, Fault
  <2> QED BY <2>1 DEF Job
<1>3. Run.op = "run" /\ job'[p] # Run
  BY <1>2 DEF Run, Job
<1>4. \A q \in Procs : Seen(q)' = Seen(q)
  <2>1. Seen(p) /\ Seen(p)'
    BY <1>0, <1>2, <1>3, Zenon DEF Seen
  <2>2. \A q \in Procs : q # p => Seen(q)' = Seen(q)
    BY <1>2, Zenon DEF Seen
  <2> QED BY <2>1, <2>2 DEF Seen
<1>5. UNCHANGED <<aliveBar, viewBar, segBar, segvalBar>>
  BY <1>0, <1>1, <1>4, TablesKept, Zenon
<1>6. p \in userBar /\ userBar' = userBar \ {p}
  BY <1>0, <1>2, <1>3, Leaves, Zenon
<1> QED BY <1>5, <1>6, Zenon DEF Abstract!Enter

\* The page a fault handler maps holds what the program saw.
LEMMA FaultMapSpaces ==
  ASSUME Around, NEW p \in Procs, FaultMap(p)
  PROVE  Abstract!Return(p)
<1>0. IInv /\ Rest /\ job[p].op = "fault" /\ NULL \notin Pages
  BY MemAssumption, Zenon DEF Around, FaultMap
<1>1. Stable /\ job'[p] = Run /\ \A q \in Procs : q # p => job'[q] = job[q]
  BY <1>0, FaultMapRest, Zenon
<1>2. PICK va \in VAs : \E e \in PTE :
         /\ MapsTo(p, va, e) /\ e.page \in Pages /\ e.seg = pt[p][va].seg
         /\ mem'[e.page] = View(mem, pt[p][va])
  BY <1>0, FaultMapRest, Zenon
<1>3. PICK e \in PTE :
         /\ MapsTo(p, va, e) /\ e.page \in Pages /\ e.seg = pt[p][va].seg
         /\ mem'[e.page] = View(mem, pt[p][va])
  BY <1>2, Zenon
<1>4. \A q \in Procs : Seen(q)' = Seen(q)
  <2>1. Seen(p) /\ Seen(p)'
    BY <1>0, <1>1, RunSeen, Zenon DEF Seen
  <2>2. \A q \in Procs : q # p => Seen(q)' = Seen(q)
    BY <1>1, Zenon DEF Seen
  <2> QED BY <2>1, <2>2 DEF Seen
<1>5. Seen(p) /\ Seen(p)'
  BY <1>0, <1>4, Zenon DEF Seen
<1>6. KeptAt(p, va)
  <2>1. pt'[p][va] = e /\ View(mem', e) = View(mem, pt[p][va])
    BY <1>0, <1>3, Zenon DEF MapsTo, View
  <2>2. viewBar'[p][va] = View(mem', pt'[p][va]) /\ segBar'[p][va] = pt'[p][va].seg
    BY <1>5, Zenon DEF viewBar, segBar
  <2>3. viewBar[p][va] = View(mem, pt[p][va]) /\ segBar[p][va] = pt[p][va].seg
    BY <1>5, BarAt, Zenon
  <2> QED BY <1>3, <2>1, <2>2, <2>3, Zenon DEF KeptAt, SeenAs
<1>7. \A q \in Procs : \A w \in VAs : <<q, w>> # <<p, va>> => KeptAt(q, w)
  BY <1>1, <1>3, <1>4, KeptIs, Zenon DEF MapsTo
<1>8. UNCHANGED <<viewBar, segBar>>
  BY <1>6, <1>7, AllKept, Zenon DEF Around, Rest
<1>9. UNCHANGED segvalBar
  BY <1>1, <1>3, SegvalKept, Zenon DEF MapsTo
<1>10. UNCHANGED aliveBar /\ p \in aliveBar
  BY <1>4, <1>5, Zenon DEF aliveBar
<1>11. userBar' = userBar \cup {p}
  BY <1>1 DEF userBar
<1> QED BY <1>8, <1>9, <1>10, <1>11, Zenon DEF Abstract!Return

LEMMA ForkSpaces ==
  ASSUME Around, NEW p \in Procs, NEW q \in Procs, Fork(p, q)
  PROVE  Abstract!Enter(p)
<1>0. IInv /\ Rest
  BY Zenon DEF Around
<1>1. /\ Stable /\ UNCHANGED <<pt, kaddr>> /\ job[p] = Run
      /\ job'[p].op = "fork" /\ job[q].op = "unused" /\ job'[q].op = "new" /\ p # q
      /\ \A z \in Procs : z # p /\ z # q => job'[z] = job[z]
  BY <1>0, ForkRest, Zenon
<1>2. job'[p] # Run /\ job[q] # Run /\ job'[q] # Run
  BY <1>1, RunSeen, Zenon
<1>3. \A z \in Procs : Seen(z)' = Seen(z)
  <2>1. Seen(p) /\ Seen(p)'
    BY <1>1, RunSeen, Zenon DEF Seen
  <2>2. ~Seen(q) /\ ~Seen(q)'
    BY <1>1, Zenon DEF Seen
  <2>3. \A z \in Procs : z # p /\ z # q => Seen(z)' = Seen(z)
    BY <1>1, Zenon DEF Seen
  <2> QED BY <2>1, <2>2, <2>3 DEF Seen
<1>4. UNCHANGED <<aliveBar, viewBar, segBar, segvalBar>>
  BY <1>1, <1>3, TablesKept, Zenon
<1>5. p \in userBar /\ userBar' = userBar \ {p}
  <2>1. \A z \in Procs : z # p => (job'[z] = Run <=> job[z] = Run)
    BY <1>1, <1>2, Zenon
  <2> QED BY <1>1, <1>2, <2>1, Leaves, Zenon
<1> QED BY <1>4, <1>5, Zenon DEF Abstract!Enter

LEMMA DuppageSpaces ==
  ASSUME Around, NEW p \in Procs, Duppage(p)
  PROVE  UNCHANGED Visible
<1>0. IInv /\ Rest
  BY Zenon DEF Around
<1>1. /\ Stable /\ UNCHANGED kaddr /\ job[p].op = "fork" /\ job'[p].op = "fork"
      /\ \A z \in Procs : z # p => job'[z] = job[z]
      /\ \A z \in Procs : job[z].op # "new" =>
            \A w \in VAs : pt'[z][w] = pt[z][w] \/ (pt'[z][w].page = pt[z][w].page /\ pt'[z][w].seg = pt[z][w].seg
                                                    /\ pt[z][w].page # NULL)
  BY <1>0, DuppageRest, Zenon
<1>2. \A z \in Procs : Seen(z)' = Seen(z) /\ (job'[z] = Run <=> job[z] = Run)
  <2>1. Seen(p) /\ Seen(p)' /\ job[p] # Run /\ job'[p] # Run
    BY <1>1, RunSeen, Zenon DEF Seen
  <2>2. \A z \in Procs : z # p => Seen(z)' = Seen(z)
    BY <1>1, Zenon DEF Seen
  <2> QED BY <1>1, <2>1, <2>2 DEF Seen
<1>3. \A z \in Procs : \A w \in VAs : KeptAt(z, w)
  <2>1. \A z \in Procs : Seen(z) => job[z].op # "new"
    BY Zenon DEF Seen
  <2> QED BY <1>1, <1>2, <2>1, KeptIs, Zenon
<1>4. UNCHANGED <<viewBar, segBar>>
  BY <1>3, AllKept, Zenon DEF Around, Rest
<1>5. UNCHANGED segvalBar
  BY <1>1, SegvalKept, Zenon
<1>6. UNCHANGED <<aliveBar, userBar>>
  BY <1>2, Zenon DEF aliveBar, userBar
<1> QED BY <1>4, <1>5, <1>6, Zenon DEF Visible

LEMMA ForkDoneSpaces ==
  ASSUME Around, NEW p \in Procs, ForkDone(p)
  PROVE  \E q \in Procs : Abstract!Fork(p, q)
<1>0. IInv /\ Rest
  BY Zenon DEF Around
<1>1. Stable /\ UNCHANGED <<pt, mem, kaddr>> /\ job[p].op = "fork" /\ job'[p] = Run
  BY <1>0, ForkDoneRest, Zenon
<1>2. PICK q \in Procs : /\ job[q].op = "new" /\ job'[q] = Run /\ pt[q] = pt[p]
                         /\ \A z \in Procs : z # p /\ z # q => job'[z] = job[z]
  BY <1>0, ForkDoneRest, Zenon
<1>3. /\ Seen(p) /\ Seen(p)' /\ ~Seen(q) /\ Seen(q)' /\ job[p] # Run /\ job[q] # Run
      /\ \A z \in Procs : z # q => Seen(z)' = Seen(z)
  <2>1. Seen(p) /\ Seen(p)' /\ ~Seen(q) /\ Seen(q)' /\ job[p] # Run /\ job[q] # Run
    BY <1>1, <1>2, RunSeen, Zenon DEF Seen
  <2>2. \A z \in Procs : z # p /\ z # q => Seen(z)' = Seen(z)
    BY <1>2, Zenon DEF Seen
  <2> QED BY <2>1, <2>2 DEF Seen
<1>4. aliveBar' = aliveBar \cup {q} /\ q \notin aliveBar /\ p \in aliveBar \ userBar
  BY <1>3 DEF aliveBar, userBar
<1>5. userBar' = userBar \cup {p, q}
  BY <1>1, <1>2 DEF userBar
<1>6. UNCHANGED segvalBar
  BY <1>1, SegvalKept, Zenon
<1>7. /\ viewBar \in [Procs -> [VAs -> Vals \cup {NULL}]]
      /\ segBar \in [Procs -> [VAs -> Segs \cup Objects \cup {NULL}]]
  BY <1>0, BarTypes, Zenon DEF Rest
<1>8. (/\ viewBar \in [Procs -> [VAs -> Vals \cup {NULL}]]
       /\ segBar \in [Procs -> [VAs -> Segs \cup Objects \cup {NULL}]])'
  <2>1. IInv /\ Copies /\ IInv' /\ Copies'
    BY Zenon DEF Around, Rest
  <2> QED BY <2>1, BarTypes, PTL
<1>9. \A z \in Procs : \A w \in VAs : z # q => KeptAt(z, w)
  BY <1>1, <1>3, KeptIs, Zenon
<1>10. \A w \in VAs : viewBar'[q][w] = viewBar[p][w] /\ segBar'[q][w] = segBar[p][w]
  <2>1. \A w \in VAs : viewBar'[q][w] = View(mem, pt[p][w]) /\ segBar'[q][w] = pt[p][w].seg
    BY <1>1, <1>2, <1>3, Zenon DEF viewBar, segBar
  <2> QED BY <1>3, <2>1, BarAt, Zenon
<1>11. viewBar' = [viewBar EXCEPT ![q] = viewBar[p]]
  <2>1. viewBar[p] \in [VAs -> Vals \cup {NULL}]
    BY <1>7, Zenon
  <2>2. \A z \in Procs : \A w \in VAs : z # q => viewBar'[z][w] = viewBar[z][w]
    BY <1>9, Zenon DEF KeptAt, SeenAs
  <2> QED BY <1>7, <1>8, <1>10, <2>1, <2>2, Row2
<1>12. segBar' = [segBar EXCEPT ![q] = segBar[p]]
  <2>1. segBar[p] \in [VAs -> Segs \cup Objects \cup {NULL}]
    BY <1>7, Zenon
  <2>2. \A z \in Procs : \A w \in VAs : z # q => segBar'[z][w] = segBar[z][w]
    BY <1>9, Zenon DEF KeptAt, SeenAs
  <2> QED BY <1>7, <1>8, <1>10, <2>1, <2>2, Row2
<1>13. Abstract!Fork(p, q)
  BY <1>4, <1>5, <1>6, <1>11, <1>12, Zenon DEF Abstract!Fork
<1> QED BY <1>13, Zenon

\* The address space goes with the first step of proc_recycleupt().
LEMMA VmUnmapperSpaces ==
  ASSUME Around, NEW p \in Procs, VmUnmapper(p)
  PROVE  Abstract!Exit(p) \/ UNCHANGED Visible
<1>0. IInv /\ Rest
  BY Zenon DEF Around
<1>1. /\ Stable /\ job[p].op \in {"run", "exit"} /\ job'[p].op \in {"unused", "exit"}
      /\ \A q \in Procs : q # p => job'[q] = job[q]
  BY <1>0, VmUnmapperRest, Zenon
<1>2. PICK va \in VAs : MapsTo(p, va, NoPte)
  BY <1>0, VmUnmapperRest, Zenon
<1>3. \A q \in Procs : q # p => Seen(q)' = Seen(q) /\ job'[q] = job[q]
  BY <1>1, Zenon DEF Seen
<1>4. ~Seen(p)' /\ job'[p] # Run
  BY <1>1, RunSeen, Zenon DEF Seen
<1>5. \A q \in Procs : \A w \in VAs : q # p => KeptAt(q, w)
  BY <1>1, <1>2, <1>3, KeptIs, Zenon DEF MapsTo
<1>6. UNCHANGED segvalBar
  BY <1>1, <1>2, SegvalKept, Zenon DEF MapsTo
<1>7. \A w \in VAs : viewBar'[p][w] = NULL /\ segBar'[p][w] = NULL
  BY <1>4, Zenon DEF viewBar, segBar
<1>8. CASE job[p] # Run
  <2>1. job[p].op = "exit"
    BY <1>8, <1>1, Zenon DEF VmUnmapper
  <2>2. ~Seen(p)
    BY <2>1, Zenon DEF Seen
  <2>3. \A q \in Procs : Seen(q)' = Seen(q) /\ (job'[q] = Run <=> job[q] = Run)
    BY <1>3, <1>4, <1>8, <2>2 DEF Seen
  <2>4. KeptAt(p, va) /\ \A w \in VAs : KeptAt(p, w)
    BY <1>7, <2>2, BarAt, Zenon DEF KeptAt, SeenAs
  <2>5. UNCHANGED <<viewBar, segBar>>
    BY <1>5, <2>4, AllKept, Zenon DEF Around, Rest
  <2>6. UNCHANGED <<aliveBar, userBar>>
    BY <2>3, Zenon DEF aliveBar, userBar
  <2> QED BY <1>6, <2>5, <2>6, Zenon DEF Visible
<1>9. CASE job[p] = Run
  <2>1. p \in userBar /\ userBar' = userBar \ {p}
    BY <1>3, <1>4, <1>9, Leaves, Zenon
  <2>2. aliveBar' = aliveBar \ {p}
    BY <1>3, <1>4 DEF aliveBar
  <2>3. /\ viewBar \in [Procs -> [VAs -> Vals \cup {NULL}]]
        /\ segBar \in [Procs -> [VAs -> Segs \cup Objects \cup {NULL}]]
    BY <1>0, BarTypes, Zenon DEF Rest
  <2>4. (/\ viewBar \in [Procs -> [VAs -> Vals \cup {NULL}]]
         /\ segBar \in [Procs -> [VAs -> Segs \cup Objects \cup {NULL}]])'
    <3>1. IInv /\ Copies /\ IInv' /\ Copies'
      BY Zenon DEF Around, Rest
    <3> QED BY <3>1, BarTypes, PTL
  <2>5. viewBar' = [viewBar EXCEPT ![p] = [w \in VAs |-> NULL]]
    <3>1. [w \in VAs |-> NULL] \in [VAs -> Vals \cup {NULL}]
      BY Zenon
    <3>2. \A z \in Procs : \A w \in VAs : z # p => viewBar'[z][w] = viewBar[z][w]
      BY <1>5, Zenon DEF KeptAt, SeenAs
    <3> QED BY <1>7, <2>3, <2>4, <3>1, <3>2, Row2
  <2>6. segBar' = [segBar EXCEPT ![p] = [w \in VAs |-> NULL]]
    <3>1. [w \in VAs |-> NULL] \in [VAs -> Segs \cup Objects \cup {NULL}]
      BY Zenon
    <3>2. \A z \in Procs : \A w \in VAs : z # p => segBar'[z][w] = segBar[z][w]
      BY <1>5, Zenon DEF KeptAt, SeenAs
    <3> QED BY <1>7, <2>3, <2>4, <3>1, <3>2, Row2
  <2> QED BY <1>6, <2>1, <2>2, <2>5, <2>6, Zenon DEF Abstract!Exit
<1> QED BY <1>8, <1>9

LEMMA SegSet ==
  ASSUME IInv, Copies, IInv', Copies', NEW s \in Segs, NEW x, segvalBar'[s] = x,
         \A t \in Segs : t # s => segvalBar'[t] = segvalBar[t]
  PROVE  segvalBar' = [segvalBar EXCEPT ![s] = x]
<1>1. segvalBar \in [Segs -> Vals \cup {NULL}]
  BY BarTypes, Zenon
<1>2. (segvalBar \in [Segs -> Vals \cup {NULL}])'
  BY BarTypes, PTL
<1> QED BY <1>1, <1>2

\* The processes see no difference when segments come and go.
LEMMA ShmgetSpaces ==
  ASSUME Around, NEW p \in Procs, NEW s \in Segs, NEW g \in Pages, Shmget(p, s, g)
  PROVE  Abstract!Create(s)
<1>0. IInv /\ Rest /\ NULL \notin Pages /\ (IInv /\ Copies /\ IInv' /\ Copies')
  BY MemAssumption, Zenon DEF Around, Rest
<1>1. /\ Stable /\ pt' = pt /\ job' = job /\ kaddr[s] = NULL /\ kaddr'[s] = g /\ mem'[g] = Zero
      /\ \A t \in Segs : t # s => kaddr'[t] = kaddr[t]
  BY <1>0, ShmgetRest, Zenon
<1>2. UNCHANGED <<aliveBar, userBar>> /\ \A q \in Procs : Seen(q)' = Seen(q)
  BY <1>1, Zenon DEF aliveBar, userBar, Seen
<1>3. \A q \in Procs : \A w \in VAs : KeptAt(q, w)
  BY <1>1, <1>2, KeptIs, Zenon
<1>4. UNCHANGED <<viewBar, segBar>>
  BY <1>0, <1>3, AllKept, Zenon
<1>5. segvalBar[s] = NULL
  BY <1>1, BarAt, Zenon
<1>6. segvalBar'[s] = Zero
  BY <1>0, <1>1, Zenon DEF segvalBar
<1>7. \A t \in Segs : t # s => segvalBar'[t] = segvalBar[t]
  BY <1>1, Zenon DEF segvalBar, Stable
<1>8. segvalBar' = [segvalBar EXCEPT ![s] = Zero]
  BY <1>0, <1>6, <1>7, SegSet
<1> QED BY <1>2, <1>4, <1>5, <1>8, Zenon DEF Abstract!Create

LEMMA ShmRmidSpaces ==
  ASSUME Around, NEW p \in Procs, NEW s \in Segs, ShmRmid(p, s)
  PROVE  Abstract!Remove(s)
<1>0. IInv /\ Rest /\ (IInv /\ Copies /\ IInv' /\ Copies')
  BY Zenon DEF Around, Rest
<1>1. /\ Stable /\ pt' = pt /\ job' = job /\ mem' = mem /\ kaddr'[s] = NULL
      /\ \A t \in Segs : t # s => kaddr'[t] = kaddr[t]
  BY <1>0, ShmRmidRest, Zenon
<1>2. UNCHANGED <<aliveBar, userBar>> /\ \A q \in Procs : Seen(q)' = Seen(q)
  BY <1>1, Zenon DEF aliveBar, userBar, Seen
<1>3. \A q \in Procs : \A w \in VAs : KeptAt(q, w)
  BY <1>1, <1>2, KeptIs, Zenon
<1>4. UNCHANGED <<viewBar, segBar>>
  BY <1>0, <1>3, AllKept, Zenon
<1>5. segvalBar'[s] = NULL /\ \A t \in Segs : t # s => segvalBar'[t] = segvalBar[t]
  BY <1>1, Zenon DEF segvalBar
<1>6. segvalBar' = [segvalBar EXCEPT ![s] = NULL]
  BY <1>0, <1>5, SegSet
<1> QED BY <1>2, <1>4, <1>6, Zenon DEF Abstract!Remove

-----------------------------------------------------------------------------
LEMMA InitSpaces ==
  ASSUME Init
  PROVE  Rest /\ Abstract!Init
<1>0. /\ pt = [p \in Procs |-> [va \in VAs |-> NoPte]] /\ mem = [g \in Pages |-> Zero]
      /\ job = [p \in Procs |-> IF p = First THEN Run ELSE Unused] /\ kaddr = [s \in Segs |-> NULL] /\ shmids = {}
  BY Zenon DEF Init
<1>1. First \in Procs /\ Zero \in Vals /\ NULL \notin Pages
  BY MemAssumption, Zenon
<1>2. /\ \A p \in Procs : job[p].op = IF p = First THEN "run" ELSE "unused"
      /\ \A p \in Procs : job[p] = Run <=> p = First
  BY <1>0 DEF Run, Unused, Job
<1>3. NoPte.page = NULL /\ NoPte.perm = {} /\ NoPte.seg = NULL
  BY DEF NoPte
<1>4. \A p \in Procs : \A va \in VAs : pt[p][va] = NoPte
  BY <1>0, Zenon
<1>5. Links
  <2>1. ASSUME NEW g \in Pages, NEW s PROVE ~LinkedIn(pt, kaddr, g, s)
    BY <1>0, <1>1, <1>3, <1>4, Zenon DEF LinkedIn
  <2> QED BY <2>1, Zenon DEF Links
<1>6. EntriesOK
  BY <1>3, <1>4 DEF EntriesOK, EntryOK
<1>7. Copies
  <2>1. mem \in [Pages -> Vals]
    BY <1>0, <1>1, Zenon
  <2>2. \A p \in Procs : job[p].op # "fault" /\ job[p].op # "fork"
    BY <1>2
  <2> QED BY <2>1, <2>2, Zenon DEF Copies
<1>8. aliveBar = {First} /\ userBar = {First}
  BY <1>1, <1>2 DEF aliveBar, userBar, Seen
<1>9. \A p \in Procs : \A va \in VAs : View(mem, pt[p][va]) = NULL /\ pt[p][va].seg = NULL
  BY <1>3, <1>4 DEF View, Passive
<1>10. /\ viewBar = [p \in Procs |-> [va \in VAs |-> NULL]]
       /\ segBar = [p \in Procs |-> [va \in VAs |-> NULL]]
  BY <1>9 DEF viewBar, segBar
<1>11. segvalBar = [s \in Segs |-> NULL]
  BY <1>0 DEF segvalBar
<1>12. Abstract!Init
  BY <1>1, <1>8, <1>10, <1>11, Zenon DEF Abstract!Init
<1> QED BY <1>5, <1>6, <1>7, <1>12, Zenon DEF Rest

\* The steps of the program when it maps no shared objects and gives no
\* permissions back.
CarefulStep(p) ==
    \/ \E va \in VAs :
          \/ SysMap(p, va, NULL) \/ SysMprotect(p, va, {}) \/ Unmap(p, va)
          \/ \E v \in Vals : Store(p, va, v)
          \/ \E s \in Segs : Shmat(p, va, s)
          \/ \E g \in Pages : Fault(p, va, g)
    \/ \E q \in Procs : Fork(p, q)
    \/ \E s \in Segs : (\E g \in Pages : Shmget(p, s, g)) \/ ShmRmid(p, s)
    \/ FaultMap(p) \/ Duppage(p) \/ ForkDone(p) \/ VmUnmapper(p)

LEMMA NextCareful ==
  ASSUME NoShared, Careful, Next
  PROVE  \E p \in Procs : CarefulStep(p)
<1>1. \A o \in {NULL} \cup Objects : o = NULL
  BY Zenon DEF NoShared
<1>2. \A prot \in Prots : prot = {}
  BY Zenon DEF Careful
<1> QED BY <1>1, <1>2, Zenon DEF Next, CarefulStep

LEMMA NextRest ==
  ASSUME NoShared, Careful, IInv, WritableIsPrivate, Rest, Next
  PROVE  Rest'
<1>1. PICK p \in Procs : CarefulStep(p)
  BY NextCareful, Zenon
<1>2. ASSUME NEW va \in VAs, SysMap(p, va, NULL) PROVE Rest'
  BY <1>2, SysMapRest, Zenon
<1>3. ASSUME NEW va \in VAs, SysMprotect(p, va, {}) PROVE Rest'
  BY <1>3, SysMprotectRest, Zenon
<1>4. ASSUME NEW va \in VAs, Unmap(p, va) PROVE Rest'
  BY <1>4, UnmapRest, Zenon
<1>5. ASSUME NEW va \in VAs, NEW v \in Vals, Store(p, va, v) PROVE Rest'
  BY <1>5, StoreRest, Zenon
<1>6. ASSUME NEW va \in VAs, NEW s \in Segs, Shmat(p, va, s) PROVE Rest'
  BY <1>6, ShmatRest, Zenon
<1>7. ASSUME NEW va \in VAs, NEW g \in Pages, Fault(p, va, g) PROVE Rest'
  BY <1>7, FaultRest, Zenon
<1>8. ASSUME NEW q \in Procs, Fork(p, q) PROVE Rest'
  BY <1>8, ForkRest, Zenon
<1>9. ASSUME NEW s \in Segs, NEW g \in Pages, Shmget(p, s, g) PROVE Rest'
  BY <1>9, ShmgetRest, Zenon
<1>10. ASSUME NEW s \in Segs, ShmRmid(p, s) PROVE Rest'
  BY <1>10, ShmRmidRest, Zenon
<1>11. CASE FaultMap(p)
  BY <1>11, FaultMapRest, Zenon
<1>12. CASE Duppage(p)
  BY <1>12, DuppageRest, Zenon
<1>13. CASE ForkDone(p)
  BY <1>13, ForkDoneRest, Zenon
<1>14. CASE VmUnmapper(p)
  BY <1>14, VmUnmapperRest, Zenon
<1> QED BY <1>1, <1>2, <1>3, <1>4, <1>5, <1>6, <1>7, <1>8, <1>9, <1>10, <1>11, <1>12, <1>13, <1>14, Zenon DEF CarefulStep

LEMMA StutterRest ==
  ASSUME Rest, UNCHANGED vars
  PROVE  Rest' /\ UNCHANGED Visible
<1>1. pt' = pt /\ mem' = mem /\ job' = job /\ kaddr' = kaddr /\ shmids' = shmids
  BY Zenon DEF vars
<1>2. UNCHANGED Visible
  BY <1>1, Zenon DEF Visible, aliveBar, userBar, viewBar, segBar, segvalBar, Seen
<1>3. Rest'
  BY <1>1, Zenon DEF Rest, Links, EntriesOK, Copies
<1> QED BY <1>2, <1>3

LEMMA SpacesStep ==
  ASSUME NoShared, Careful, Around, WritableIsPrivate, Next
  PROVE  Abstract!Next \/ UNCHANGED Visible
<1> DEFINE A == Abstract!Next \/ UNCHANGED Visible
<1>1. PICK p \in Procs : CarefulStep(p)
  BY NextCareful, Zenon
<1>2. ASSUME NEW va \in VAs, SysMap(p, va, NULL) PROVE A
  BY <1>2, SysMapSpaces, Zenon DEF Abstract!Next
<1>3. ASSUME NEW va \in VAs, SysMprotect(p, va, {}) PROVE A
  BY <1>3, SysMprotectSpaces, Zenon
<1>4. ASSUME NEW va \in VAs, Unmap(p, va) PROVE A
  BY <1>4, UnmapSpaces, Zenon DEF Abstract!Next
<1>5. ASSUME NEW va \in VAs, NEW v \in Vals, Store(p, va, v) PROVE A
  BY <1>5, StoreSpaces, Zenon DEF Abstract!Next
<1>6. ASSUME NEW va \in VAs, NEW s \in Segs, Shmat(p, va, s) PROVE A
  BY <1>6, ShmatSpaces, Zenon DEF Abstract!Next
<1>7. ASSUME NEW va \in VAs, NEW g \in Pages, Fault(p, va, g) PROVE A
  BY <1>7, FaultSpaces, Zenon DEF Abstract!Next
<1>8. ASSUME NEW q \in Procs, Fork(p, q) PROVE A
  BY <1>8, ForkSpaces, Zenon DEF Abstract!Next
<1>9. ASSUME NEW s \in Segs, NEW g \in Pages, Shmget(p, s, g) PROVE A
  BY <1>9, ShmgetSpaces, Zenon DEF Abstract!Next
<1>10. ASSUME NEW s \in Segs, ShmRmid(p, s) PROVE A
  BY <1>10, ShmRmidSpaces, Zenon DEF Abstract!Next
<1>11. ASSUME FaultMap(p) PROVE A
  BY <1>11, FaultMapSpaces, Zenon DEF Abstract!Next
<1>12. ASSUME Duppage(p) PROVE A
  BY <1>12, DuppageSpaces, Zenon
<1>13. ASSUME ForkDone(p) PROVE A
  BY <1>13, ForkDoneSpaces, Zenon DEF Abstract!Next
<1>14. ASSUME VmUnmapper(p) PROVE A
  BY <1>14, VmUnmapperSpaces, Zenon DEF Abstract!Next
<1> HIDE DEF A
<1>15. A
  BY <1>1, <1>2, <1>3, <1>4, <1>5, <1>6, <1>7, <1>8, <1>9, <1>10, <1>11, <1>12, <1>13, <1>14, Zenon DEF CarefulStep
<1> QED BY <1>15 DEF A

\* Copy-on-write, demand paging and the counts of pages are invisible: every
\* process has an address space of its own, except for the shared segments it
\* attached.  That is so as long as programs share memory by segments only, and
\* mprotect() gives no permission back (MAP_SHARED and PROT_WRITE break it).
THEOREM SpacesImplemented == NoShared /\ Careful => (Spec => ImplementsSpaces)
<1> SUFFICES ASSUME NoShared, Careful PROVE Spec => ImplementsSpaces
  OBVIOUS
<1>1. Init => IInv /\ WritableIsPrivate /\ Rest /\ Abstract!Init
  BY InitHolds, InitPrivate, InitSpaces, Zenon
<1>2. IInv /\ WritableIsPrivate /\ Rest /\ [Next]_vars => (IInv /\ WritableIsPrivate /\ Rest)'
  BY NextKeeps, NextPrivate, NextRest, StutterRest, Zenon
<1>3. (IInv /\ WritableIsPrivate /\ Rest) /\ (IInv /\ WritableIsPrivate /\ Rest)' /\ [Next]_vars
      => [Abstract!Next]_(Abstract!vars)
  BY SpacesStep, StutterRest, Zenon DEF Around, Visible, Abstract!vars
<1> QED BY <1>1, <1>2, <1>3, PTL DEF Spec, ImplementsSpaces, Abstract!Spec
=============================================================================
