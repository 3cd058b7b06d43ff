------------------------------ MODULE FdProofs ------------------------------
(***************************************************************************)
(* Proofs about the descriptor tables, for any number of processes,        *)
(* descriptors, files and pipes: the inductive invariant, the calls that   *)
(* move no reference, freeFd(), the calls that make new references, and    *)
(* the theorems: the counts of kernel descriptors, files and pipes are     *)
(* exact and a freed descriptor is in no table, when dup3() is given       *)
(* descriptors that are open.                                              *)
(***************************************************************************)
EXTENDS Fd, FiniteSetTheorems, WellFoundedInduction, TLAPS

-----------------------------------------------------------------------------
(***************************************************************************)
(* Counts and least elements: the number of users of an object is the      *)
(* number of places whose value it is, and a table is searched for its     *)
(* lowest free slot.                                                       *)
(***************************************************************************)
\* The places in S that f gives the value g.
Users(S, f, g) == {x \in S : f[x] = g}

\* Two functions on S that differ at i at most, and two numbers, of elements with
\* one value, of which the second has what i contributes changed.
AgreeBut(S, f, h, i) == \A x \in S : x # i => h[x] = f[x]
Change(a, b, before, after) ==
    /\ a \in Nat /\ b \in Nat
    /\ before /\ ~after => a = b + 1
    /\ ~before /\ after => b = a + 1
    /\ before /\ after => b = a
    /\ ~before /\ ~after => b = a
    /\ (before => a # 0) /\ (after => b # 0)

\* What one changed value does to that number.
LEMMA CountChange ==
    ASSUME NEW S, IsFiniteSet(S), NEW f, NEW h, NEW i \in S, NEW g, AgreeBut(S, f, h, i)
    PROVE  Change(Cardinality(Users(S, f, g)), Cardinality(Users(S, h, g)), f[i] = g, h[i] = g)
<1> DEFINE A == Users(S, f, g)
           B == Users(S, h, g)
<1>1. /\ i \in A <=> f[i] = g
      /\ i \in B <=> h[i] = g
      /\ A \ {i} = B \ {i}
  BY Zenon DEF Users, AgreeBut
<1>2. A \subseteq S /\ B \subseteq S
  BY Zenon DEF Users
<1>3. IsFiniteSet(A) /\ IsFiniteSet(B)
  BY <1>2, FS_Subset, Zenon
<1> HIDE DEF A, B
<1>4. Cardinality(A) \in Nat /\ Cardinality(B) \in Nat
  BY <1>3, FS_CardinalityType, Zenon
<1>5. /\ IsFiniteSet(A \ {i})
      /\ Cardinality(A \ {i}) = IF i \in A THEN Cardinality(A) - 1 ELSE Cardinality(A)
  BY <1>3, FS_RemoveElement, Zenon
<1>6. Cardinality(B \ {i}) = IF i \in B THEN Cardinality(B) - 1 ELSE Cardinality(B)
  BY <1>3, FS_RemoveElement, Zenon
<1>7. Cardinality(A \ {i}) \in Nat
  BY <1>5, FS_CardinalityType, Zenon
<1> DEFINE a == Cardinality(A)
           b == Cardinality(B)
           c == Cardinality(A \ {i})
<1>8. a \in Nat /\ b \in Nat /\ c \in Nat
      /\ c = (IF i \in A THEN a - 1 ELSE a) /\ c = (IF i \in B THEN b - 1 ELSE b)
  BY <1>1, <1>4, <1>5, <1>6, <1>7, Zenon
<1> HIDE DEF a, b, c
<1>9. /\ i \in A /\ i \notin B => a = b + 1
      /\ i \notin A /\ i \in B => b = a + 1
      /\ (i \in A /\ i \in B) \/ (i \notin A /\ i \notin B) => b = a
      /\ (i \in A => a # 0) /\ (i \in B => b # 0)
  BY <1>8
<1>10. /\ f[i] = g /\ h[i] # g => a = b + 1
       /\ f[i] # g /\ h[i] = g => b = a + 1
       /\ f[i] = g /\ h[i] = g => b = a
       /\ f[i] # g /\ h[i] # g => b = a
       /\ (f[i] = g => a # 0) /\ (h[i] = g => b # 0)
  BY <1>1, <1>9, Zenon
<1> QED
  BY <1>4, <1>10, Zenon DEF A, B, a, b, Change

\* A count is a number, and 0 only when nothing is counted.
LEMMA CountType ==
    ASSUME NEW S, IsFiniteSet(S), NEW f, NEW g
    PROVE  /\ Cardinality(Users(S, f, g)) \in Nat
           /\ Cardinality(Users(S, f, g)) = 0 <=> \A x \in S : f[x] # g
<1>1. Users(S, f, g) \subseteq S
  BY Zenon DEF Users
<1>2. IsFiniteSet(Users(S, f, g))
  BY <1>1, FS_Subset, Zenon
<1>3. Cardinality(Users(S, f, g)) \in Nat
  BY <1>2, FS_CardinalityType, Zenon
<1>4. Cardinality(Users(S, f, g)) = 0 <=> Users(S, f, g) = {}
  BY <1>2, FS_EmptySet, Zenon
<1>5. Users(S, f, g) = {} <=> \A x \in S : f[x] # g
  BY Zenon DEF Users
<1> QED
  BY <1>3, <1>4, <1>5, Zenon

\* The same function has the same count.
LEMMA CountSame ==
    ASSUME NEW S, NEW f, NEW h, NEW g, \A x \in S : f[x] = h[x]
    PROVE  Users(S, f, g) = Users(S, h, g)
  BY Zenon DEF Users

\* A set of numbers that is not empty has a least element.
LEMMA LeastExists ==
    ASSUME NEW S \in SUBSET Nat, S # {}
    PROVE  \E x \in S : \A j \in S : x <= j
<1> DEFINE R == OpToRel(<, Nat)
<1>1. IsWellFoundedOn(R, Nat)
  BY NatLessThanWellFounded, Zenon
<1>2. \A x, y \in Nat : x < y => <<x, y>> \in R
  BY Zenon DEF OpToRel
<1> HIDE DEF R
<1>3. \E x \in S : \A y \in S : ~(<<y, x>> \in R)
  BY <1>1, WFMin, Zenon
<1>4. PICK x \in S : \A y \in S : ~(<<y, x>> \in R)
  BY <1>3, Zenon
<1>5. ASSUME NEW j \in S PROVE x <= j
  <2>1. ~(j < x)
    BY <1>2, <1>4, Zenon
  <2> QED
    BY <2>1
<1> QED
  BY <1>5, Zenon

-----------------------------------------------------------------------------
(***************************************************************************)
(* The invariant                                                           *)
(***************************************************************************)
Objs == Files \cup Pipes
Opening == {"open", "getFile", "pipe", "pipe2"}
Freeing == {"dec", "zero", "bit"}
JOB == [at : {"user", "closed", "dup3", "exit"} \cup Opening \cup Freeing,
        kfd : Kfds \cup {-1}, ufds : SUBSET Ufds,
        next : {"user", "closed", "dup3", "exit"}, arg : 0..MAX_FD_COUNT]

Types ==
    /\ fdList \in [Procs -> [Ufds -> Kfds \cup {-1, Reserved}]]
    /\ alive \in SUBSET Procs /\ fdBitMap \in SUBSET Kfds
    /\ fds \in [Kfds -> [refcnt : Nat, obj : Objs \cup {NULL}]]
    /\ ref \in [Objs -> Nat]
    /\ job \in [Procs -> JOB]

\* Where freeFd() returns to, and which entries a call has to itself.
Returns(p) ==
    /\ p \notin alive => job[p].at = "user"
    /\ job[p].at \in {"user"} \cup Opening => job[p].next = "user"
    /\ job[p].at = "closed" => job[p].next = "closed"
    /\ job[p].at = "dup3" => job[p].next \in {"user", "dup3"}
    /\ job[p].at = "exit" => job[p].next \in {"user", "exit"}
    /\ job[p].at \in {"getFile", "pipe2"} \cup Freeing => job[p].kfd \in Kfds

Takes(p) ==
    /\ job[p].at \in {"open", "getFile"} => \E i \in Ufds : job[p].ufds = {i}
    /\ job[p].at \in {"pipe", "pipe2"} => \E a, b \in Ufds : a # b /\ job[p].ufds = {a, b}
    /\ \A i \in Ufds : fdList[p][i] = Reserved <=> job[p].at \in Opening /\ i \in job[p].ufds
    /\ job[p].at = "exit" \/ (job[p].at \in Freeing /\ job[p].next \in {"user", "exit"})
          => job[p].ufds = {}

\* What the reference that freeFd() is about to give back is.
Gives(p) ==
    /\ job[p].at = "dec" /\ job[p].next \in {"closed", "dup3"} =>
          \E i \in Ufds : job[p].ufds = {i} /\ fdList[p][i] = job[p].kfd
    /\ job[p].at = "dec" /\ job[p].next = "exit" =>
          job[p].arg - 1 \in Ufds /\ fdList[p][job[p].arg - 1] = job[p].kfd
    /\ job[p].at = "dup3" \/ (job[p].at \in Freeing /\ job[p].next = "dup3") =>
          /\ job[p].arg \in Ufds /\ fdList[p][job[p].arg] \in Kfds
          /\ \E i \in Ufds : i # job[p].arg /\ job[p].ufds = {i}

Calling == \A p \in Procs : Returns(p) /\ Takes(p) /\ Gives(p)

\* A call that is opening or has freed a descriptor has it to itself.
New(p)  == job[p].at \in {"getFile", "pipe2"}
Gone(p) == job[p].at \in {"zero", "bit"}
Owned ==
    /\ \A p \in Procs : New(p) => fds[job[p].kfd].obj = NULL
    /\ \A p \in Procs : Gone(p) => job[p].kfd \in fdBitMap /\ fds[job[p].kfd] = ZeroFd
    /\ \A p, q \in Procs : p # q /\ New(p) /\ New(q) => job[p].kfd # job[q].kfd
    /\ \A p, q \in Procs : p # q /\ Gone(p) /\ Gone(q) => job[p].kfd # job[q].kfd
    /\ \A k \in Kfds \ fdBitMap : fds[k] = ZeroFd

\* RefcountExact, with the references as functions of the places they are in.
Entries == Procs \X Ufds
Val(p, i) == IF fdList[p][i] \in Kfds /\ Refers(p, i, fdList[p][i]) THEN fdList[p][i] ELSE -1
Hold(p) == IF InFlight(p, job[p].kfd) THEN job[p].kfd ELSE -1
Table == [x \in Entries |-> Val(x[1], x[2])]
Holds == [p \in Procs |-> Hold(p)]
RefAt(k) == fds[k].refcnt = Cardinality(Users(Entries, Table, k)) + Cardinality(Users(Procs, Holds, k))
Counts == \A k \in Kfds : RefAt(k)

ObjOf == [k \in Kfds |-> fds[k].obj]
Objects == \A o \in Objs : ref[o] = Cardinality(Users(Kfds, ObjOf, o))

IInv == Types /\ Calling /\ Owned /\ Counts /\ Objects

-----------------------------------------------------------------------------
LEMMA Consts ==
    /\ -1 \notin Kfds /\ Reserved \notin Kfds /\ Reserved # -1 /\ NULL \notin Objs
    /\ Kfds \in SUBSET Nat /\ Ufds \in SUBSET Nat
    /\ IsFiniteSet(Entries) /\ IsFiniteSet(Procs) /\ IsFiniteSet(Kfds) /\ IsFiniteSet(Ufds)
<1>1. /\ -1 \notin Kfds /\ Reserved \notin Kfds /\ Reserved # -1 /\ NULL \notin Objs
      /\ Kfds \in SUBSET Nat /\ Ufds \in SUBSET Nat
  BY FdAssumption DEF Kfds, Ufds, Reserved, Objs
<1>2. IsFiniteSet(Kfds) /\ IsFiniteSet(Ufds)
  BY FdAssumption, FS_Interval DEF Kfds, Ufds
<1>3. IsFiniteSet(Procs)
  BY FdAssumption, Zenon
<1>4. IsFiniteSet(Entries)
  BY <1>2, <1>3, FS_Product, Zenon DEF Entries
<1> QED
  BY <1>1, <1>2, <1>3, <1>4, Zenon

LEMMA LowestIn ==
    ASSUME NEW S \in SUBSET Nat, S # {}
    PROVE  Lowest(S) \in S /\ \A j \in S : Lowest(S) <= j
  BY LeastExists, Zenon DEF Lowest

\* The counts of RefcountExact and ObjectsExact are those of Counts and Objects.
LEMMA CountsAreRefcounts == Counts => RefcountExact
<1> SUFFICES ASSUME Counts, NEW k \in Kfds
             PROVE  fds[k].refcnt = Cardinality({pi \in Procs \X Ufds : Refers(pi[1], pi[2], k)})
                                    + Cardinality({p \in Procs : InFlight(p, k)})
  BY Zenon DEF RefcountExact
<1>1. k # -1
  BY Consts, Zenon
<1>2. Users(Entries, Table, k) = {pi \in Procs \X Ufds : Refers(pi[1], pi[2], k)}
  <2>1. ASSUME NEW x \in Entries PROVE Table[x] = k <=> Refers(x[1], x[2], k)
    BY <1>1, <2>1, Zenon DEF Table, Val, Refers
  <2> QED
    BY <2>1, Zenon DEF Users, Entries
<1>3. Users(Procs, Holds, k) = {p \in Procs : InFlight(p, k)}
  <2>1. ASSUME NEW p \in Procs PROVE Holds[p] = k <=> InFlight(p, k)
    BY <1>1, <2>1, Zenon DEF Holds, Hold, InFlight
  <2> QED
    BY <2>1, Zenon DEF Users
<1> QED
  BY <1>2, <1>3, Zenon DEF Counts, RefAt

LEMMA ObjectsAreExact == Objects => ObjectsExact
<1>1. \A o : Users(Kfds, ObjOf, o) = {k \in Kfds : fds[k].obj = o}
  BY Zenon DEF Users, ObjOf
<1> QED
  BY <1>1, Zenon DEF Objects, ObjectsExact, Objs

\* A descriptor that an entry or a call refers to has a count.
LEMMA Referred ==
    ASSUME Counts, NEW p \in Procs, NEW k \in Kfds,
           Hold(p) = k \/ \E i \in Ufds : Val(p, i) = k
    PROVE  fds[k].refcnt # 0
<1> DEFINE a == Cardinality(Users(Entries, Table, k))
           b == Cardinality(Users(Procs, Holds, k))
<1>1. a \in Nat /\ (a = 0 <=> \A x \in Entries : Table[x] # k)
  BY Consts, CountType, Zenon
<1>2. b \in Nat /\ (b = 0 <=> \A x \in Procs : Holds[x] # k)
  BY Consts, CountType, Zenon
<1>3. fds[k].refcnt = a + b
  BY Zenon DEF Counts, RefAt
<1> HIDE DEF a, b
<1>4. CASE Hold(p) = k
  <2>1. Holds[p] = k
    BY <1>4, Zenon DEF Holds
  <2>2. b # 0
    BY <1>2, <2>1, Zenon
  <2> QED
    BY <1>1, <1>2, <1>3, <2>2
<1>5. CASE \E i \in Ufds : Val(p, i) = k
  <2>1. PICK i \in Ufds : Val(p, i) = k
    BY <1>5, Zenon
  <2>2. <<p, i>> \in Entries /\ Table[<<p, i>>] = k
    BY <2>1, Zenon DEF Table, Entries
  <2>3. a # 0
    BY <1>1, <2>2, Zenon
  <2> QED
    BY <1>1, <1>2, <1>3, <2>3
<1> QED
  BY <1>4, <1>5, Zenon

\* Only process p is concerned.
Frame(p) == \A q \in Procs : q # p => /\ job'[q] = job[q] /\ fdList'[q] = fdList[q]
                                      /\ q \in alive' <=> q \in alive

LEMMA Others ==
    ASSUME Calling, NEW p \in Procs, Frame(p), NEW q \in Procs, q # p
    PROVE  /\ \A i \in Ufds : Val(q, i)' = Val(q, i)
           /\ Hold(q)' = Hold(q)
           /\ Returns(q)' /\ Takes(q)' /\ Gives(q)'
           /\ (New(q)' <=> New(q)) /\ (Gone(q)' <=> Gone(q)) /\ job'[q] = job[q]
<1>1. job'[q] = job[q] /\ fdList'[q] = fdList[q] /\ (q \in alive' <=> q \in alive)
  BY Zenon DEF Frame
<1>2. \A i \in Ufds : Val(q, i)' = Val(q, i)
  BY <1>1, Zenon DEF Val, Refers, Given
<1>3. Hold(q)' = Hold(q)
  BY <1>1, Zenon DEF Hold, InFlight
<1>4. Returns(q)' 
  BY <1>1 DEF Calling, Returns
<1>5. Takes(q)'
  BY <1>1 DEF Calling, Takes
<1>6. Gives(q)'
  BY <1>1, Zenon DEF Calling, Gives
<1> QED
  BY <1>1, <1>2, <1>3, <1>4, <1>5, <1>6, Zenon DEF New, Gone

\* What happens to the count of k: entry i of p goes from one value to another,
\* and so does what p holds.
D(before, after) == IF before /\ ~after THEN -1 ELSE IF ~before /\ after THEN 1 ELSE 0
Entry1(p, i, k) ==
    fds'[k].refcnt = fds[k].refcnt + D(Val(p, i) = k, Val(p, i)' = k) + D(Hold(p) = k, Hold(p)' = k)

LEMMA OneRef ==
    ASSUME Types, Calling, Counts, NEW p \in Procs, NEW i \in Ufds, Frame(p),
           \A j \in Ufds : j # i => Val(p, j)' = Val(p, j),
           NEW k \in Kfds, Entry1(p, i, k)
    PROVE  RefAt(k)'
<1> DEFINE t == Table
           u == Table'
           g == Holds
           h == Holds'
           x == <<p, i>>
<1>1. AgreeBut(Entries, t, u, x)
  <2> SUFFICES ASSUME NEW q \in Procs, NEW j \in Ufds, <<q, j>> # <<p, i>>
               PROVE  Val(q, j)' = Val(q, j)
    BY DEF AgreeBut, Entries, Table
  <2> QED
    BY Others, Zenon
<1>2. AgreeBut(Procs, g, h, p)
  BY Others, Zenon DEF AgreeBut, Holds
<1>3. x \in Entries /\ t[x] = Val(p, i) /\ u[x] = Val(p, i)' /\ g[p] = Hold(p) /\ h[p] = Hold(p)'
  BY Zenon DEF Table, Entries, Holds
<1> DEFINE a == Cardinality(Users(Entries, t, k))
           b == Cardinality(Users(Entries, u, k))
           c == Cardinality(Users(Procs, g, k))
           d == Cardinality(Users(Procs, h, k))
<1>4. RefAt(k)' <=> fds'[k].refcnt = b + d
  BY Zenon DEF RefAt
<1>5. fds[k].refcnt = a + c
  BY Zenon DEF RefAt, Counts
<1> HIDE DEF t, u, g, h, x
<1>6. Change(a, b, t[x] = k, u[x] = k)
  BY <1>1, <1>3, Consts, CountChange, Zenon
<1>7. Change(c, d, g[p] = k, h[p] = k)
  BY <1>2, Consts, CountChange, Zenon
<1> HIDE DEF a, b, c, d
<1>8. fds'[k].refcnt = a + c + D(t[x] = k, u[x] = k) + D(g[p] = k, h[p] = k)
  BY <1>3, <1>5, Zenon DEF Entry1
<1>9. b = a + D(t[x] = k, u[x] = k)
  BY <1>6 DEF Change, D
<1>10. d = c + D(g[p] = k, h[p] = k)
  BY <1>7 DEF Change, D
<1>11. a \in Nat /\ b \in Nat /\ c \in Nat /\ d \in Nat
  BY <1>6, <1>7, Zenon DEF Change
<1>12. D(t[x] = k, u[x] = k) \in Int /\ D(g[p] = k, h[p] = k) \in Int
  BY DEF D
<1> HIDE DEF D
<1> QED
  BY <1>4, <1>8, <1>9, <1>10, <1>11, <1>12

\* A step that moves no reference: p is elsewhere in its call, or its entries change hands.
Silent(p) ==
    /\ Frame(p) /\ UNCHANGED <<fdBitMap, fds, ref>>
    /\ ~New(p)' /\ ~Gone(p)'
    /\ \A i \in Ufds : Val(p, i)' = Val(p, i)
    /\ Hold(p)' = Hold(p)
MyCall(p) == Types' /\ Returns(p)' /\ Takes(p)' /\ Gives(p)'

LEMMA Quiet ==
    ASSUME IInv, NEW p \in Procs, MyCall(p), Silent(p)
    PROVE  IInv'
<1> USE DEF IInv
<1>1. Calling'
  BY Others, Zenon DEF Calling, Silent, MyCall
<1>2. Owned'
  BY Others DEF Owned, Silent
<1>3. Counts'
  <2> SUFFICES ASSUME NEW k \in Kfds PROVE RefAt(k)'
    BY Zenon DEF Counts
  <2>1. PICK i \in Ufds : TRUE
    BY FdAssumption DEF Ufds
  <2>2. fds'[k].refcnt = fds[k].refcnt /\ fds[k].refcnt \in Nat
    BY Zenon DEF Types, Silent
  <2>3. Entry1(p, i, k)
    BY <2>2 DEF Silent, Entry1, D
  <2> QED
    BY <2>3, OneRef, Zenon DEF Silent
<1>4. Objects'
  BY Zenon DEF Objects, Silent, ObjOf
<1> QED
  BY <1>1, <1>2, <1>3, <1>4, Zenon DEF MyCall

-----------------------------------------------------------------------------
(***************************************************************************)
(* One lemma for each action                                               *)
(***************************************************************************)
LEMMA OpenStartStep ==
    ASSUME IInv, NEW p \in Procs, OpenStart(p)
    PROVE  IInv'
<1> DEFINE a == Lowest(FreeUfds(p))
<1>1. a \in Ufds /\ fdList[p][a] = -1 /\ p \in alive /\ job[p].at = "user"
  <2>1. FreeUfds(p) \in SUBSET Nat /\ FreeUfds(p) # {} /\ Calls(p)
    BY Consts, Zenon DEF FreeUfds, OpenStart
  <2>2. a \in FreeUfds(p)
    BY <2>1, LowestIn, Zenon
  <2> QED
    BY <2>1, <2>2, Zenon DEF FreeUfds, Calls
<1>2. /\ job' = [job EXCEPT ![p] = [at |-> "open", kfd |-> -1, ufds |-> {a}, next |-> "user", arg |-> 0]]
      /\ fdList' = [fdList EXCEPT ![p] = [i \in Ufds |-> IF i \in {a} THEN Reserved ELSE fdList[p][i]]]
      /\ UNCHANGED <<alive, fdBitMap, fds, ref>>
  BY Zenon DEF OpenStart, SetTable, Call
<1> HIDE DEF a
<1>3. MyCall(p)
  <2>1. Types'
    BY <1>1, <1>2, FdAssumption DEF IInv, Types, JOB, Opening
  <2>2. Returns(p)' /\ Takes(p)' /\ Gives(p)'
    BY <1>1, <1>2, Consts, Zenon DEF IInv, Types, Calling, Returns, Takes, Gives, Opening, Freeing
  <2> QED
    BY <2>1, <2>2, Zenon DEF MyCall
<1>4. Silent(p)
  <2>1. Frame(p) /\ ~New(p)' /\ ~Gone(p)'
    BY <1>2, Zenon DEF IInv, Types, Frame, New, Gone
  <2>2. \A i \in Ufds : Val(p, i)' = Val(p, i)
    BY <1>1, <1>2, Consts, Zenon DEF IInv, Types, Calling, Returns, Val, Refers, Given
  <2>3. Hold(p)' = Hold(p)
    BY <1>1, <1>2, Zenon DEF IInv, Types, Hold, InFlight
  <2> QED
    BY <1>2, <2>1, <2>2, <2>3, Zenon DEF Silent
<1> QED
  BY <1>3, <1>4, Quiet, Zenon

LEMMA AllocFailsStep ==
    ASSUME IInv, NEW p \in Procs, AllocFails(p)
    PROVE  IInv'
<1>1. /\ job' = [job EXCEPT ![p] = [at |-> "user", kfd |-> -1, ufds |-> {}, next |-> "user", arg |-> 0]]
      /\ fdList' = [fdList EXCEPT ![p] = [i \in Ufds |-> IF i \in job[p].ufds THEN -1 ELSE fdList[p][i]]]
      /\ job[p].at \in {"open", "pipe"}
      /\ UNCHANGED <<alive, fdBitMap, fds, ref>>
  BY Zenon DEF AllocFails, SetTable, Call, Idle, IInv, Types
<1>2. MyCall(p)
  <2>1. Types'
    BY <1>1, FdAssumption DEF IInv, Types, JOB
  <2>2. Returns(p)' /\ Takes(p)' /\ Gives(p)'
    BY <1>1, Consts, Zenon DEF IInv, Types, Calling, Returns, Takes, Gives, Opening, Freeing
  <2> QED
    BY <2>1, <2>2, Zenon DEF MyCall
<1>3. Silent(p)
  <2>1. Frame(p) /\ ~New(p)' /\ ~Gone(p)'
    BY <1>1, Zenon DEF IInv, Types, Frame, New, Gone
  <2>2. \A i \in Ufds : Val(p, i)' = Val(p, i)
    BY <1>1, Consts DEF IInv, Types, Calling, Returns, Takes, Val, Refers, Given, Opening
  <2>3. Hold(p)' = Hold(p)
    BY <1>1, Zenon DEF IInv, Types, Hold, InFlight
  <2> QED
    BY <1>1, <2>1, <2>2, <2>3, Zenon DEF Silent
<1> QED
  BY <1>2, <1>3, Quiet, Zenon

LEMMA GiveUpStep ==
    ASSUME IInv, NEW p \in Procs, OpenFails(p) \/ Pipe2Fails(p)
    PROVE  IInv'
<1>1. /\ job' = [job EXCEPT ![p] = [at |-> "dec", kfd |-> job[p].kfd, ufds |-> {}, next |-> "user", arg |-> 0]]
      /\ fdList' = [fdList EXCEPT ![p] = [i \in Ufds |-> IF i \in job[p].ufds THEN -1 ELSE fdList[p][i]]]
      /\ job[p].at \in {"getFile", "pipe2"}
      /\ UNCHANGED <<alive, fdBitMap, fds, ref>>
  BY Zenon DEF OpenFails, Pipe2Fails, SetTable, Free, IInv, Types
<1>2. MyCall(p)
  <2>1. Types'
    BY <1>1, FdAssumption DEF IInv, Types, JOB, Freeing
  <2>2. Returns(p)' /\ Takes(p)' /\ Gives(p)'
    BY <1>1, Consts, Zenon DEF IInv, Types, Calling, Returns, Takes, Gives, Opening, Freeing
  <2> QED
    BY <2>1, <2>2, Zenon DEF MyCall
<1>3. Silent(p)
  <2>1. Frame(p) /\ ~New(p)' /\ ~Gone(p)'
    BY <1>1, Zenon DEF IInv, Types, Frame, New, Gone
  <2>2. \A i \in Ufds : Val(p, i)' = Val(p, i)
    BY <1>1, Consts DEF IInv, Types, Calling, Returns, Takes, Val, Refers, Given, Opening
  <2>3. Hold(p)' = Hold(p)
    BY <1>1, Zenon DEF IInv, Types, Hold, InFlight
  <2> QED
    BY <1>1, <2>1, <2>2, <2>3, Zenon DEF Silent
<1> QED
  BY <1>2, <1>3, Quiet, Zenon

LEMMA PipeStartStep ==
    ASSUME IInv, NEW p \in Procs, PipeStart(p)
    PROVE  IInv'
<1> DEFINE a == Lowest(FreeUfds(p))
           b == Lowest(FreeUfds(p) \ {a})
<1>1. /\ a \in Ufds /\ fdList[p][a] = -1 /\ p \in alive /\ job[p].at = "user"
      /\ b \in Ufds /\ fdList[p][b] = -1 /\ a # b
  <2>1. FreeUfds(p) \in SUBSET Nat /\ Cardinality(FreeUfds(p)) >= 2 /\ Calls(p)
    BY Consts, Zenon DEF FreeUfds, PipeStart
  <2>2. FreeUfds(p) # {} /\ FreeUfds(p) \ {a} # {}
    <3>1. Cardinality(FreeUfds(p)) # 0 /\ Cardinality(FreeUfds(p)) # 1
      BY <2>1
    <3>2. FreeUfds(p) # {} /\ FreeUfds(p) # {a}
      BY <3>1, FS_EmptySet, FS_Singleton, Zenon
    <3>3. FreeUfds(p) # {}
      BY <3>2, Zenon
    <3>4. a \in FreeUfds(p)
      BY <2>1, <3>3, LowestIn, Zenon
    <3> QED
      BY <3>2, <3>4, Zenon
  <2>3. a \in FreeUfds(p)
    BY <2>1, <2>2, LowestIn, Zenon
  <2>4. b \in FreeUfds(p) \ {a}
    <3>1. FreeUfds(p) \ {a} \in SUBSET Nat
      BY <2>1, Zenon
    <3> QED
      BY <2>2, <3>1, LowestIn, Zenon
  <2> QED
    BY <2>1, <2>3, <2>4, Zenon DEF FreeUfds, Calls
<1>2. /\ job' = [job EXCEPT ![p] = [at |-> "pipe", kfd |-> -1, ufds |-> {a, b}, next |-> "user", arg |-> 0]]
      /\ fdList' = [fdList EXCEPT ![p] = [i \in Ufds |-> IF i \in {a, b} THEN Reserved ELSE fdList[p][i]]]
      /\ UNCHANGED <<alive, fdBitMap, fds, ref>>
  BY Zenon DEF PipeStart, SetTable, Call
<1> HIDE DEF a, b
<1>3. MyCall(p)
  <2>1. Types'
    BY <1>1, <1>2, FdAssumption DEF IInv, Types, JOB, Opening
  <2>2. Returns(p)' /\ Gives(p)'
    BY <1>1, <1>2, Consts, Zenon DEF IInv, Types, Calling, Returns, Gives, Opening, Freeing
  <2>3. Takes(p)'
    BY <1>1, <1>2, Consts, Zenon DEF IInv, Types, Calling, Takes, Opening, Freeing
  <2> QED
    BY <2>1, <2>2, <2>3, Zenon DEF MyCall
<1>4. Silent(p)
  <2>1. Frame(p) /\ ~New(p)' /\ ~Gone(p)'
    BY <1>2, Zenon DEF IInv, Types, Frame, New, Gone
  <2>2. \A i \in Ufds : Val(p, i)' = Val(p, i)
    BY <1>1, <1>2, Consts, Zenon DEF IInv, Types, Calling, Returns, Val, Refers, Given
  <2>3. Hold(p)' = Hold(p)
    BY <1>1, <1>2, Zenon DEF IInv, Types, Hold, InFlight
  <2> QED
    BY <1>2, <2>1, <2>2, <2>3, Zenon DEF Silent
<1> QED
  BY <1>3, <1>4, Quiet, Zenon

LEMMA CloseStep ==
    ASSUME IInv, NEW p \in Procs, NEW i \in Ufds, Close(p, i)
    PROVE  IInv'
<1>1. /\ job' = [job EXCEPT ![p] = [at |-> "dec", kfd |-> fdList[p][i], ufds |-> {i}, next |-> "closed", arg |-> 0]]
      /\ p \in alive /\ job[p].at = "user" /\ fdList[p][i] \in Kfds
      /\ UNCHANGED <<fdList, alive, fdBitMap, fds, ref>>
  BY Zenon DEF Close, Free, Calls, IsOpen
<1>2. MyCall(p)
  <2>1. Types'
    BY <1>1, FdAssumption DEF IInv, Types, JOB, Freeing
  <2>2. Returns(p)' /\ Takes(p)' /\ Gives(p)'
    BY <1>1, Consts, Zenon DEF IInv, Types, Calling, Returns, Takes, Gives, Opening, Freeing
  <2> QED
    BY <2>1, <2>2, Zenon DEF MyCall
<1>3. Silent(p)
  <2>1. Frame(p) /\ ~New(p)' /\ ~Gone(p)'
    BY <1>1, Zenon DEF IInv, Types, Frame, New, Gone
  <2>2. \A j \in Ufds : Val(p, j)' = Val(p, j)
    BY <1>1, Consts, Zenon DEF IInv, Types, Calling, Returns, Val, Refers, Given
  <2>3. Hold(p)' = Hold(p)
    BY <1>1, Zenon DEF IInv, Types, Hold, InFlight
  <2> QED
    BY <1>1, <2>1, <2>2, <2>3, Zenon DEF Silent
<1> QED
  BY <1>2, <1>3, Quiet, Zenon

LEMMA ClosedStep ==
    ASSUME IInv, NEW p \in Procs, Closed(p)
    PROVE  IInv'
<1>1. /\ job' = [job EXCEPT ![p] = [at |-> "user", kfd |-> -1, ufds |-> {}, next |-> "user", arg |-> 0]]
      /\ fdList' = [fdList EXCEPT ![p] = [i \in Ufds |-> IF i \in job[p].ufds THEN -1 ELSE fdList[p][i]]]
      /\ job[p].at = "closed"
      /\ UNCHANGED <<alive, fdBitMap, fds, ref>>
  BY Zenon DEF Closed, SetTable, Call, Idle
<1>2. MyCall(p)
  <2>1. Types'
    BY <1>1, FdAssumption DEF IInv, Types, JOB
  <2>2. Returns(p)' /\ Takes(p)' /\ Gives(p)'
    BY <1>1, Consts, Zenon DEF IInv, Types, Calling, Returns, Takes, Gives, Opening, Freeing
  <2> QED
    BY <2>1, <2>2, Zenon DEF MyCall
<1>3. Silent(p)
  <2>1. Frame(p) /\ ~New(p)' /\ ~Gone(p)'
    BY <1>1, Zenon DEF IInv, Types, Frame, New, Gone
  <2>2. \A i \in Ufds : Val(p, i)' = Val(p, i)
    BY <1>1, Consts, Zenon DEF IInv, Types, Calling, Returns, Val, Refers, Given
  <2>3. Hold(p)' = Hold(p)
    BY <1>1, Zenon DEF IInv, Types, Hold, InFlight
  <2> QED
    BY <1>1, <2>1, <2>2, <2>3, Zenon DEF Silent
<1> QED
  BY <1>2, <1>3, Quiet, Zenon

LEMMA Dup3Step ==
    ASSUME IInv, ~BadOld, NEW p \in Procs, NEW old \in Ufds, NEW new \in Ufds, Dup3(p, old, new)
    PROVE  IInv'
<1>1. /\ p \in alive /\ job[p].at = "user" /\ old # new /\ fdList[p][old] \in Kfds
      /\ UNCHANGED <<fdList, alive, fdBitMap, fds, ref>>
  BY Zenon DEF Dup3, Calls, IsOpen
<1>2. \/ /\ fdList[p][new] \in Kfds
         /\ job' = [job EXCEPT ![p] = [at |-> "dec", kfd |-> fdList[p][new], ufds |-> {new}, next |-> "dup3", arg |-> old]]
      \/ /\ fdList[p][new] \notin Kfds
         /\ job' = [job EXCEPT ![p] = [at |-> "dup3", kfd |-> -1, ufds |-> {new}, next |-> "user", arg |-> old]]
  BY Zenon DEF Dup3, Free, Call, IsOpen
<1>3. MyCall(p)
  <2>1. old \in 0..MAX_FD_COUNT
    BY FdAssumption DEF Ufds
  <2>2. Types'
    BY <1>1, <1>2, <2>1 DEF IInv, Types, JOB, Freeing
  <2>3. Returns(p)' /\ Takes(p)'
    BY <1>1, <1>2, Consts DEF IInv, Types, Calling, Returns, Takes, Opening, Freeing
  <2>4. Gives(p)'
    BY <1>1, <1>2, Consts, SMTT(60) DEF IInv, Types, Calling, Gives, Freeing
  <2> QED
    BY <2>2, <2>3, <2>4, Zenon DEF MyCall
<1>4. Silent(p)
  <2>1. Frame(p) /\ ~New(p)' /\ ~Gone(p)'
    BY <1>1, <1>2 DEF IInv, Types, Frame, New, Gone
  <2>2. \A j \in Ufds : Val(p, j)' = Val(p, j)
    BY <1>1, <1>2, Consts DEF IInv, Types, Calling, Returns, Val, Refers, Given
  <2>3. Hold(p)' = Hold(p)
    BY <1>1, <1>2 DEF IInv, Types, Hold, InFlight
  <2> QED
    BY <1>1, <2>1, <2>2, <2>3, Zenon DEF Silent
<1> QED
  BY <1>3, <1>4, Quiet, Zenon

LEMMA ExitStep ==
    ASSUME IInv, NEW p \in Procs, Exit(p)
    PROVE  IInv'
<1>1. /\ job' = [job EXCEPT ![p] = [at |-> "exit", kfd |-> -1, ufds |-> {}, next |-> "user", arg |-> 0]]
      /\ p \in alive /\ job[p].at = "user"
      /\ UNCHANGED <<fdList, alive, fdBitMap, fds, ref>>
  BY Zenon DEF Exit, Call, Calls
<1>2. MyCall(p)
  <2>1. Types'
    BY <1>1, FdAssumption DEF IInv, Types, JOB
  <2>2. Returns(p)' /\ Takes(p)' /\ Gives(p)'
    BY <1>1, Consts, Zenon DEF IInv, Types, Calling, Returns, Takes, Gives, Opening, Freeing
  <2> QED
    BY <2>1, <2>2, Zenon DEF MyCall
<1>3. Silent(p)
  <2>1. Frame(p) /\ ~New(p)' /\ ~Gone(p)'
    BY <1>1, Zenon DEF IInv, Types, Frame, New, Gone
  <2>2. \A j \in Ufds : Val(p, j)' = Val(p, j)
    <3>1. \A j \in Ufds : j >= 0
      BY Consts
    <3> QED
      BY <1>1, <3>1, Zenon DEF IInv, Types, Calling, Returns, Val, Refers, Given
  <2>3. Hold(p)' = Hold(p)
    BY <1>1, Zenon DEF IInv, Types, Hold, InFlight
  <2> QED
    BY <1>1, <2>1, <2>2, <2>3, Zenon DEF Silent
<1> QED
  BY <1>2, <1>3, Quiet, Zenon

LEMMA RecycleStep ==
    ASSUME IInv, NEW p \in Procs, Recycle(p)
    PROVE  IInv'
<1> DEFINE rest == {i \in job[p].arg..MAX_FD_COUNT - 1 : fdList[p][i] # -1}
           n == Lowest(rest)
<1>1. job[p].arg \in Nat /\ job[p].at = "exit" /\ p \in alive /\ job[p].ufds = {} /\ MAX_FD_COUNT \in Nat
  BY FdAssumption DEF Recycle, IInv, Types, JOB, Calling, Returns, Takes
<1>2. n \in rest /\ \A j \in rest : n <= j
  <2>1. rest \in SUBSET Nat
    BY <1>1
  <2> QED
    BY <2>1, LowestIn, Zenon DEF Recycle
<1>3. /\ job' = [job EXCEPT ![p] = [at |-> "dec", kfd |-> fdList[p][n], ufds |-> {}, next |-> "exit", arg |-> n + 1]]
      /\ UNCHANGED <<fdList, alive, fdBitMap, fds, ref>>
  BY Zenon DEF Recycle, Free
<1>4. /\ n \in Ufds /\ n \in Nat /\ n + 1 \in 0..MAX_FD_COUNT /\ n >= job[p].arg
      /\ fdList[p][n] \in Kfds
      /\ \A i \in Ufds : i >= job[p].arg /\ i < n => fdList[p][i] = -1
  <2>1. n \in job[p].arg..MAX_FD_COUNT - 1 /\ fdList[p][n] # -1
    BY <1>2, Zenon
  <2>2. n \in Ufds /\ n \in Nat /\ n + 1 \in 0..MAX_FD_COUNT /\ n >= job[p].arg
    BY <1>1, <2>1 DEF Ufds
  <2>3. fdList[p][n] \in Kfds \cup {-1, Reserved} /\ fdList[p][n] # Reserved
    BY <1>1, <2>2 DEF IInv, Types, Calling, Takes
  <2>4. ASSUME NEW i \in Ufds, i >= job[p].arg, i < n PROVE fdList[p][i] = -1
    <3>1. i \in job[p].arg..MAX_FD_COUNT - 1 /\ ~(n <= i)
      BY <1>1, <2>2, <2>4 DEF Ufds
    <3> QED
      BY <1>2, <3>1, Zenon
  <2> QED
    BY <2>1, <2>2, <2>3, <2>4, Zenon
<1> HIDE DEF n, rest
<1>5. MyCall(p)
  <2>1. Types'
    BY <1>3, <1>4, Zenon DEF IInv, Types, JOB, Freeing
  <2>2. (n + 1) - 1 = n
    BY <1>4
  <2>3. Returns(p)' /\ Takes(p)' /\ Gives(p)'
    BY <1>1, <1>3, <1>4, <2>2, Zenon DEF IInv, Types, Calling, Returns, Takes, Gives, Opening, Freeing
  <2> QED
    BY <2>1, <2>3, Zenon DEF MyCall
<1>6. Silent(p)
  <2>1. Frame(p) /\ ~New(p)' /\ ~Gone(p)'
    BY <1>3, Zenon DEF IInv, Types, Frame, New, Gone
  <2>2. ASSUME NEW i \in Ufds PROVE Val(p, i)' = Val(p, i)
    <3>1. \/ i >= n + 1 /\ i >= job[p].arg
          \/ i = (n + 1) - 1 /\ i >= job[p].arg
          \/ i < n + 1 /\ i # (n + 1) - 1 /\ (i < job[p].arg \/ fdList[p][i] = -1)
      BY <1>1, <1>4, <2>2, Consts
    <3>2. i \in Nat /\ n \in Nat /\ job[p].arg \in Nat
      BY <1>1, <1>4, Consts, Zenon
    <3> QED
      BY <1>1, <1>3, <3>1, <3>2, Consts DEF IInv, Types, Val, Refers, Given
  <2>3. Hold(p)' = Hold(p)
    BY <1>1, <1>3, Zenon DEF IInv, Types, Hold, InFlight
  <2> QED
    BY <1>3, <2>1, <2>2, <2>3, Zenon DEF Silent
<1> QED
  BY <1>5, <1>6, Quiet, Zenon

LEMMA ExitedStep ==
    ASSUME IInv, NEW p \in Procs, Exited(p)
    PROVE  IInv'
<1>1. /\ job' = [job EXCEPT ![p] = [at |-> "user", kfd |-> -1, ufds |-> {}, next |-> "user", arg |-> 0]]
      /\ fdList' = [fdList EXCEPT ![p] = [i \in Ufds |-> IF i \in Ufds THEN -1 ELSE fdList[p][i]]]
      /\ alive' = alive \ {p} /\ job[p].at = "exit"
      /\ \A i \in job[p].arg..MAX_FD_COUNT - 1 : fdList[p][i] = -1
      /\ UNCHANGED <<fdBitMap, fds, ref>>
  BY Zenon DEF Exited, SetTable, Call, Idle
<1>2. MyCall(p)
  <2>1. Types'
    BY <1>1, FdAssumption, SMTT(60) DEF IInv, Types, JOB
  <2>2. Returns(p)' /\ Takes(p)' /\ Gives(p)'
    BY <1>1, Consts, Zenon DEF IInv, Types, Calling, Returns, Takes, Gives, Opening, Freeing
  <2> QED
    BY <2>1, <2>2, Zenon DEF MyCall
<1>3. Silent(p)
  <2>1. Frame(p) /\ ~New(p)' /\ ~Gone(p)'
    BY <1>1, Zenon DEF IInv, Types, Frame, New, Gone
  <2>2. ASSUME NEW i \in Ufds PROVE Val(p, i)' = Val(p, i)
    <3>1. i < job[p].arg \/ fdList[p][i] = -1
      BY <1>1, FdAssumption, SMTT(60) DEF IInv, Types, JOB, Ufds
    <3>2. i \in Nat /\ job[p].arg \in Nat
      BY Consts DEF IInv, Types, JOB
    <3> QED
      BY <1>1, <3>1, <3>2, Consts DEF IInv, Types, Val, Refers
  <2>3. Hold(p)' = Hold(p)
    BY <1>1, Zenon DEF IInv, Types, Hold, InFlight
  <2> QED
    BY <1>1, <2>1, <2>2, <2>3, Zenon DEF Silent
<1> QED
  BY <1>2, <1>3, Quiet, Zenon

-----------------------------------------------------------------------------
\* A step that moves one reference in or out of entry i or the hands of p.
LEMMA Counted ==
    ASSUME IInv, NEW p \in Procs, NEW i \in Ufds, MyCall(p), Frame(p),
           \A j \in Ufds : j # i => Val(p, j)' = Val(p, j),
           \A k \in Kfds : Entry1(p, i, k),
           Owned', Objects'
    PROVE  IInv'
<1>1. Calling'
  BY Others, Zenon DEF IInv, Calling, MyCall
<1>2. Counts'
  BY OneRef, Zenon DEF IInv, Counts
<1> QED
  BY <1>1, <1>2, Zenon DEF IInv, MyCall

\* A step that changes the object behind one descriptor.
LEMMA OneObject ==
    ASSUME Objects, NEW k \in Kfds, ref \in [Objs -> Nat],
           \A m \in Kfds : m # k => fds'[m].obj = fds[m].obj,
           \A o \in Objs : ref'[o] = ref[o] + D(fds[k].obj = o, fds'[k].obj = o)
    PROVE  Objects'
<1> DEFINE f == ObjOf
           h == ObjOf'
<1>1. AgreeBut(Kfds, f, h, k) /\ f[k] = fds[k].obj /\ h[k] = fds'[k].obj
  BY Zenon DEF AgreeBut, ObjOf
<1>2. \A o \in Objs : ref[o] = Cardinality(Users(Kfds, f, o))
  BY Zenon DEF Objects
<1>3. Objects' <=> \A o \in Objs : ref'[o] = Cardinality(Users(Kfds, h, o))
  BY Zenon DEF Objects
<1> HIDE DEF f, h
<1>4. ASSUME NEW o \in Objs PROVE ref'[o] = Cardinality(Users(Kfds, h, o))
  <2> DEFINE a == Cardinality(Users(Kfds, f, o))
             b == Cardinality(Users(Kfds, h, o))
  <2>1. Change(a, b, f[k] = o, h[k] = o)
    BY <1>1, Consts, CountChange, Zenon
  <2>2. ref'[o] = a + D(f[k] = o, h[k] = o)
    BY <1>1, <1>2, SMTT(60)
  <2> HIDE DEF a, b
  <2>3. b = a + D(f[k] = o, h[k] = o)
    BY <2>1 DEF Change, D
  <2> QED
    BY <2>2, <2>3, Zenon DEF b
<1> QED
  BY <1>3, <1>4, Zenon

LEMMA FreeZeroStep ==
    ASSUME IInv, NEW p \in Procs, FreeZero(p)
    PROVE  IInv'
<1>1. /\ job' = [job EXCEPT ![p].at = "bit"] /\ job[p].at = "zero"
      /\ UNCHANGED <<fdList, alive, fdBitMap, fds, ref>>
  <2>1. fds[job[p].kfd] = ZeroFd /\ job[p].kfd \in Kfds
    BY Zenon DEF IInv, Owned, Gone, FreeZero, Calling, Returns, Freeing
  <2>2. fds' = fds
    BY <2>1, Zenon DEF IInv, Types, FreeZero
  <2> QED
    BY <2>2, Zenon DEF FreeZero, Goto
<1>2. /\ job' \in [Procs -> JOB] /\ job'[p].at = "bit" /\ job'[p].kfd = job[p].kfd /\ job'[p].ufds = job[p].ufds
      /\ job'[p].next = job[p].next /\ job'[p].arg = job[p].arg
      /\ \A q \in Procs : q # p => job'[q] = job[q]
  BY <1>1, Zenon DEF IInv, Types, JOB, Freeing
<1>3. MyCall(p)
  <2>1. Types'
    BY <1>1, <1>2, Zenon DEF IInv, Types
  <2>2. Returns(p)' /\ Takes(p)' /\ Gives(p)'
    BY <1>1, <1>2 DEF IInv, Calling, Returns, Takes, Gives, Opening, Freeing
  <2> QED
    BY <2>1, <2>2, Zenon DEF MyCall
<1>4. Frame(p)
  BY <1>1, <1>2, Zenon DEF Frame
<1>5. \A j \in Ufds : Val(p, j)' = Val(p, j)
  BY <1>1, <1>2, Zenon DEF Val, Refers, Given
<1>6. Hold(p)' = Hold(p)
  BY <1>1, <1>2, Zenon DEF Hold, InFlight
<1>7. Owned'
  BY <1>1, <1>2 DEF IInv, Owned, New, Gone
<1>8. Objects'
  BY <1>1, Zenon DEF IInv, Objects, ObjOf
<1>9. PICK i \in Ufds : TRUE
  BY FdAssumption DEF Ufds
<1>10. ASSUME NEW k \in Kfds PROVE Entry1(p, i, k)
  <2>1. fds'[k].refcnt = fds[k].refcnt /\ fds[k].refcnt \in Nat
    BY <1>1, Zenon DEF IInv, Types
  <2> QED
    BY <1>5, <1>6, <1>9, <2>1 DEF Entry1, D
<1> QED
  BY <1>3, <1>4, <1>5, <1>7, <1>8, <1>9, <1>10, Counted, Zenon

LEMMA FreeBitStep ==
    ASSUME IInv, NEW p \in Procs, FreeBit(p)
    PROVE  IInv'
<1>1. /\ job' = [job EXCEPT ![p].at = job[p].next] /\ job[p].at = "bit"
      /\ fdBitMap' = fdBitMap \ {job[p].kfd}
      /\ UNCHANGED <<fdList, alive, fds, ref>>
  BY Zenon DEF FreeBit, Goto
<1>2. /\ job' \in [Procs -> JOB] /\ job'[p].at = job[p].next /\ job'[p].kfd = job[p].kfd /\ job'[p].ufds = job[p].ufds
      /\ job'[p].next = job[p].next /\ job'[p].arg = job[p].arg
      /\ job[p].next \in {"user", "closed", "dup3", "exit"}
      /\ \A q \in Procs : q # p => job'[q] = job[q]
  BY <1>1, Zenon DEF IInv, Types, JOB
<1>3. MyCall(p)
  <2>1. Types'
    BY <1>1, <1>2, Zenon DEF IInv, Types
  <2>2. Returns(p)' /\ Takes(p)' /\ Gives(p)'
    BY <1>1, <1>2 DEF IInv, Calling, Returns, Takes, Gives, Opening, Freeing
  <2> QED
    BY <2>1, <2>2, Zenon DEF MyCall
<1>4. Frame(p)
  BY <1>1, <1>2, Zenon DEF Frame
<1>5. \A j \in Ufds : Val(p, j)' = Val(p, j)
  BY <1>1, <1>2, Zenon DEF IInv, Calling, Returns, Takes, Freeing, Val, Refers, Given
<1>6. Hold(p)' = Hold(p)
  BY <1>1, <1>2, Zenon DEF Hold, InFlight
<1>7. Owned'
  BY <1>1, <1>2 DEF IInv, Owned, New, Gone
<1>8. Objects'
  BY <1>1, Zenon DEF IInv, Objects, ObjOf
<1>9. PICK i \in Ufds : TRUE
  BY FdAssumption DEF Ufds
<1>10. ASSUME NEW k \in Kfds PROVE Entry1(p, i, k)
  <2>1. fds'[k].refcnt = fds[k].refcnt /\ fds[k].refcnt \in Nat
    BY <1>1, Zenon DEF IInv, Types
  <2> QED
    BY <1>5, <1>6, <1>9, <2>1 DEF Entry1, D
<1> QED
  BY <1>3, <1>4, <1>5, <1>7, <1>8, <1>9, <1>10, Counted, Zenon

LEMMA FreeDecStep ==
    ASSUME IInv, NEW p \in Procs, FreeDec(p)
    PROVE  IInv'
<1> DEFINE k == job[p].kfd
           o == fds[k].obj
<1>1. /\ job[p].at = "dec" /\ k \in Kfds /\ p \in alive
      /\ fds[k].refcnt \in Nat /\ o \in Objs \cup {NULL}
      /\ job[p].next \in {"user", "closed", "dup3", "exit"}
      /\ UNCHANGED <<fdList, alive, fdBitMap>>
  BY Zenon DEF FreeDec, IInv, Types, JOB, Calling, Returns, Freeing
<1>2. /\ job' \in [Procs -> JOB] /\ job'[p].kfd = k /\ job'[p].ufds = job[p].ufds
      /\ job'[p].next = job[p].next /\ job'[p].arg = job[p].arg
      /\ job'[p].at = IF fds[k].refcnt = 1 THEN "zero" ELSE job[p].next
      /\ \A q \in Procs : q # p => job'[q] = job[q]
  <2> DEFINE w == IF fds[k].refcnt = 1 THEN "zero" ELSE job[p].next
  <2>1. job' = [job EXCEPT ![p].at = w] /\ w \in {"zero", "user", "closed", "dup3", "exit"}
    BY <1>1, Zenon DEF FreeDec, Goto
  <2> HIDE DEF w
  <2>2. /\ job' \in [Procs -> JOB] /\ job'[p].kfd = k /\ job'[p].ufds = job[p].ufds
        /\ job'[p].next = job[p].next /\ job'[p].arg = job[p].arg
        /\ job'[p].at = w
        /\ \A q \in Procs : q # p => job'[q] = job[q]
    BY <2>1, Zenon DEF IInv, Types, JOB, Freeing
  <2> QED
    BY <2>2, Zenon DEF w
<1>3. PICK i \in Ufds :
         /\ \/ Val(p, i) = k /\ Val(p, i)' = -1 /\ Hold(p) = -1 /\ Hold(p)' = -1
            \/ Val(p, i)' = Val(p, i) /\ Hold(p) = k /\ Hold(p)' = -1
         /\ \A j \in Ufds : j # i => Val(p, j)' = Val(p, j)
  <2>1. CASE job[p].next = "user"
    <3>1. Hold(p) = k /\ Hold(p)' = -1
      BY <1>1, <1>2, <2>1, Zenon DEF Hold, InFlight
    <3>2. \A j \in Ufds : Val(p, j)' = Val(p, j)
      BY <1>1, <1>2, <2>1, Zenon DEF Val, Refers, Given, IInv, Calling, Takes, Freeing
    <3>3. \E i \in Ufds : TRUE
      BY FdAssumption DEF Ufds
    <3> QED
      BY <3>1, <3>2, <3>3, Zenon
  <2>2. CASE job[p].next \in {"closed", "dup3"}
    <3>1. PICK i \in Ufds : job[p].ufds = {i} /\ fdList[p][i] = k
      BY <1>1, <2>2, Zenon DEF IInv, Calling, Gives
    <3>2. Hold(p) = -1 /\ Hold(p)' = -1
      BY <1>1, <1>2, <2>2, Zenon DEF Hold, InFlight
    <3>3. Val(p, i) = k /\ Val(p, i)' = -1
      BY <1>1, <1>2, <2>2, <3>1, Zenon DEF Val, Refers, Given
    <3>4. \A j \in Ufds : j # i => Val(p, j)' = Val(p, j)
      BY <1>1, <1>2, <2>2, <3>1, Zenon DEF Val, Refers, Given
    <3> QED
      BY <3>2, <3>3, <3>4, Zenon
  <2>3. CASE job[p].next = "exit"
    <3>0. PICK i \in Ufds : i = job[p].arg - 1
      BY <1>1, <2>3, Zenon DEF IInv, Calling, Gives
    <3>1. i = job[p].arg - 1 /\ fdList[p][i] = k /\ job[p].arg \in Nat /\ i < job[p].arg /\ job[p].ufds = {}
      BY <1>1, <2>3, <3>0, SMTT(60) DEF IInv, Types, JOB, Calling, Gives, Takes, Freeing
    <3>2. Hold(p) = -1 /\ Hold(p)' = -1
      BY <1>1, <1>2, <2>3, Zenon DEF Hold, InFlight
    <3>3. Val(p, i) = k /\ Val(p, i)' = -1
      BY <1>1, <1>2, <2>3, <3>1, Consts, SMTT(60) DEF Val, Refers, Given
    <3>4. \A j \in Ufds : j # i => Val(p, j)' = Val(p, j)
      BY <1>1, <1>2, <2>3, <3>1, Consts, Zenon DEF Val, Refers, Given
    <3> QED
      BY <3>1, <3>2, <3>3, <3>4, Zenon
  <2> QED
    BY <1>1, <2>1, <2>2, <2>3, Zenon
<1>4. fds[k].refcnt # 0
  BY <1>1, <1>3, Referred, Zenon DEF IInv
<1>5. /\ fds' \in [Kfds -> [refcnt : Nat, obj : Objs \cup {NULL}]]
      /\ \A m \in Kfds : m # k => fds'[m] = fds[m]
      /\ fds'[k].refcnt = fds[k].refcnt - 1
      /\ fds[k].refcnt = 1 => fds'[k] = ZeroFd
      /\ fds'[k].obj = IF fds[k].refcnt = 1 THEN NULL ELSE o
  <2>1. CASE fds[k].refcnt = 1
    BY <1>1, <2>1 DEF FreeDec, IInv, Types, ZeroFd
  <2>2. CASE fds[k].refcnt # 1
    <3>1. fds' = [fds EXCEPT ![k].refcnt = @ - 1] /\ fds[k].refcnt - 1 \in Nat
      BY <1>1, <1>4, <2>2 DEF FreeDec
    <3> QED
      BY <1>1, <2>2, <3>1, ZenonT(30) DEF IInv, Types
  <2> QED
    BY <2>1, <2>2, Zenon
<1>6. ref' \in [Objs -> Nat] /\ Objects'
  <2>1. CASE fds[k].refcnt = 1 /\ o # NULL
    <3>1. ref' = [ref EXCEPT ![o] = @ - 1] /\ ref \in [Objs -> Nat] /\ o \in Objs
      BY <1>1, <2>1, Zenon DEF FreeDec, DevClose, IInv, Types
    <3>2. ref[o] # 0
      <4>1. ref[o] = Cardinality(Users(Kfds, ObjOf, o)) /\ ObjOf[k] = o
        BY <1>1, <3>1, Zenon DEF IInv, Objects, ObjOf
      <4> QED
        BY <1>1, <4>1, CountType, Consts, SMTT(60)
    <3>3. ref' \in [Objs -> Nat]
      BY <3>1, <3>2, SMTT(60)
    <3>4. ASSUME NEW b \in Objs PROVE ref'[b] = ref[b] + D(fds[k].obj = b, fds'[k].obj = b)
      BY <1>5, <2>1, <3>1, Consts, SMTT(60) DEF D
    <3> QED
      BY <1>1, <1>5, <3>1, <3>3, <3>4, OneObject, ZenonT(30) DEF IInv
  <2>2. CASE ~(fds[k].refcnt = 1 /\ o # NULL)
    <3>1. ref' = ref /\ ref \in [Objs -> Nat] /\ fds'[k].obj = fds[k].obj
      BY <1>1, <1>5, <2>2, Zenon DEF FreeDec, DevClose, IInv, Types
    <3>2. ASSUME NEW b \in Objs PROVE ref'[b] = ref[b] + D(fds[k].obj = b, fds'[k].obj = b)
      BY <3>1 DEF D
    <3> QED
      BY <1>1, <1>5, <3>1, <3>2, OneObject, Zenon DEF IInv
  <2> QED
    BY <2>1, <2>2, Zenon
<1>7. MyCall(p)
  <2>1. Types'
    BY <1>1, <1>2, <1>5, <1>6, Zenon DEF IInv, Types
  <2>2. Returns(p)'
    BY <1>1, <1>2, Zenon DEF IInv, Calling, Returns, Opening, Freeing
  <2>3. Takes(p)'
    BY <1>1, <1>2, Zenon DEF IInv, Calling, Takes, Opening, Freeing
  <2>4. Gives(p)'
    BY <1>1, <1>2, Zenon DEF IInv, Calling, Gives, Freeing
  <2> QED
    BY <2>1, <2>2, <2>3, <2>4, Zenon DEF MyCall
<1>8. Frame(p)
  BY <1>1, <1>2, Zenon DEF Frame
<1>9. Owned'
  <2>1. k \in fdBitMap /\ \A q \in Procs : Gone(q) => job[q].kfd # k
    BY <1>1, <1>4 DEF IInv, Owned, ZeroFd
  <2>2. \A q \in Procs : New(q)' => fds'[job'[q].kfd].obj = NULL
    <3> SUFFICES ASSUME NEW q \in Procs, New(q)' PROVE fds'[job'[q].kfd].obj = NULL
      BY Zenon
    <3>1. q # p /\ job'[q] = job[q] /\ New(q) /\ job[q].kfd \in Kfds
      BY <1>1, <1>2, Zenon DEF New, IInv, Calling, Returns
    <3> QED
      BY <1>5, <3>1, SMTT(60) DEF IInv, Owned
  <2>3. \A q \in Procs : Gone(q)' => job'[q].kfd \in fdBitMap' /\ fds'[job'[q].kfd] = ZeroFd
    <3> SUFFICES ASSUME NEW q \in Procs, Gone(q)'
                 PROVE  job'[q].kfd \in fdBitMap' /\ fds'[job'[q].kfd] = ZeroFd
      BY Zenon
    <3>1. CASE q = p
      BY <1>1, <1>2, <1>5, <2>1, <3>1, Zenon DEF Gone
    <3>2. CASE q # p
      <4>1. job'[q] = job[q] /\ Gone(q) /\ job[q].kfd \in Kfds /\ job[q].kfd # k
        BY <1>2, <2>1, <3>2, Zenon DEF Gone, IInv, Calling, Returns, Freeing
      <4> QED
        BY <1>1, <1>5, <4>1, SMTT(60) DEF IInv, Owned
    <3> QED
      BY <3>1, <3>2, Zenon
  <2>4. \A q, r \in Procs : q # r /\ New(q)' /\ New(r)' => job'[q].kfd # job'[r].kfd
    BY <1>1, <1>2, SMTT(60) DEF IInv, Owned, New
  <2>5. \A q, r \in Procs : q # r /\ Gone(q)' /\ Gone(r)' => job'[q].kfd # job'[r].kfd
    BY <1>2, <2>1, SMTT(60) DEF IInv, Owned, Gone
  <2>6. \A m \in Kfds \ fdBitMap' : fds'[m] = ZeroFd
    BY <1>1, <1>5, <2>1, Zenon DEF IInv, Owned
  <2> QED
    BY <2>2, <2>3, <2>4, <2>5, <2>6, Zenon DEF Owned
<1>10. ASSUME NEW m \in Kfds PROVE Entry1(p, i, m)
  <2>1. fds'[m].refcnt = (IF m = k THEN fds[m].refcnt - 1 ELSE fds[m].refcnt) /\ fds[m].refcnt \in Nat /\ m # -1
    BY <1>5, Consts, Zenon DEF IInv, Types
  <2> QED
    BY <1>3, <2>1 DEF Entry1, D
<1> QED
  BY <1>3, <1>6, <1>7, <1>8, <1>9, <1>10, Counted, Zenon

-----------------------------------------------------------------------------
(***************************************************************************)
(* The calls that make new references                                      *)
(***************************************************************************)
LEMMA AllocStep ==
    ASSUME IInv, NEW p \in Procs, Alloc(p)
    PROVE  IInv'
<1>1. PICK k \in FreeKfds :
        /\ FdAlloc(k)
        /\ job' = [job EXCEPT ![p].at = IF @ = "open" THEN "getFile" ELSE "pipe2", ![p].kfd = k]
  BY Zenon DEF Alloc
<1>2. /\ k \in Kfds /\ k \notin fdBitMap /\ fds[k] = ZeroFd
      /\ job[p].at \in {"open", "pipe"} /\ UNCHANGED <<fdList, alive, ref>>
      /\ fdBitMap' = fdBitMap \cup {k}
      /\ fds' = [fds EXCEPT ![k] = [refcnt |-> 1, obj |-> NULL]]
  BY <1>1, Zenon DEF Alloc, FreeKfds, FdAlloc, IInv, Owned
<1>3. /\ job' \in [Procs -> JOB] /\ job'[p].kfd = k /\ job'[p].ufds = job[p].ufds
      /\ job'[p].next = job[p].next /\ job'[p].arg = job[p].arg
      /\ job'[p].at = IF job[p].at = "open" THEN "getFile" ELSE "pipe2"
      /\ \A q \in Procs : q # p => job'[q] = job[q]
  BY <1>1, <1>2, ZenonT(30) DEF IInv, Types, JOB, Opening
<1>4. /\ fds' \in [Kfds -> [refcnt : Nat, obj : Objs \cup {NULL}]]
      /\ \A m \in Kfds : m # k => fds'[m] = fds[m]
      /\ fds'[k].refcnt = 1 /\ fds[k].refcnt = 0 /\ fds'[k].obj = NULL /\ fds[k].obj = NULL
  BY <1>2 DEF IInv, Types, ZeroFd
<1>5. MyCall(p)
  <2>1. Types'
    BY <1>2, <1>3, <1>4, Zenon DEF IInv, Types
  <2>2. Returns(p)' /\ Takes(p)' /\ Gives(p)'
    BY <1>2, <1>3, SMTT(60) DEF IInv, Calling, Returns, Takes, Gives, Opening, Freeing
  <2> QED
    BY <2>1, <2>2, Zenon DEF MyCall
<1>6. Frame(p)
  BY <1>2, <1>3, Zenon DEF Frame
<1>7. \A j \in Ufds : Val(p, j)' = Val(p, j)
  BY <1>2, <1>3, Zenon DEF IInv, Calling, Returns, Opening, Val, Refers, Given
<1>8. Hold(p) = -1 /\ Hold(p)' = k
  BY <1>2, <1>3, Zenon DEF Hold, InFlight
<1>9. Objects'
  <2>1. \A m \in Kfds : fds'[m].obj = fds[m].obj
    BY <1>4, Zenon
  <2>2. ObjOf' = ObjOf
    BY <2>1, Zenon DEF ObjOf
  <2> QED
    BY <1>2, <2>2, Zenon DEF IInv, Objects
<1>10. Owned'
  <2>1. \A q \in Procs : New(q) => job[q].kfd # k /\ job[q].kfd \in Kfds
    <3> SUFFICES ASSUME NEW q \in Procs, New(q) PROVE job[q].kfd # k /\ job[q].kfd \in Kfds
      BY Zenon
    <3>1. job[q].kfd \in Kfds /\ Hold(q) = job[q].kfd
      BY Zenon DEF New, IInv, Calling, Returns, Hold, InFlight
    <3>2. fds[job[q].kfd].refcnt # 0
      BY <3>1, Referred, Zenon DEF IInv
    <3> QED
      BY <1>4, <3>1, <3>2, Zenon
  <2>2. \A q \in Procs : Gone(q) => job[q].kfd # k /\ job[q].kfd \in Kfds
    BY <1>2, Zenon DEF IInv, Owned, Types
  <2> QED
    BY <1>2, <1>3, <1>4, <2>1, <2>2, SMTT(60) DEF IInv, Owned, New, Gone
<1>11. PICK i \in Ufds : TRUE
  BY FdAssumption DEF Ufds
<1>12. ASSUME NEW m \in Kfds PROVE Entry1(p, i, m)
  <2>1. fds'[m].refcnt = (IF m = k THEN fds[m].refcnt + 1 ELSE fds[m].refcnt) /\ fds[m].refcnt \in Nat /\ m # -1
    BY <1>4, Consts DEF IInv, Types
  <2> QED
    BY <1>7, <1>8, <1>11, <2>1 DEF Entry1, D
<1> QED
  BY <1>5, <1>6, <1>7, <1>9, <1>10, <1>11, <1>12, Counted, Zenon

\* The descriptors nobody else may touch: free ones, and those freeFd() has cleared.
LEMMA Untouched ==
    ASSUME IInv, NEW k \in Kfds, fds[k].refcnt # 0
    PROVE  k \in fdBitMap /\ \A q \in Procs : Gone(q) => job[q].kfd # k
  BY DEF IInv, Owned, ZeroFd

LEMMA OpenFileStep ==
    ASSUME IInv, NEW p \in Procs, NEW f \in Files, OpenFile(p, f)
    PROVE  IInv'
<1>1. PICK i \in Ufds : job[p].ufds = {i}
  BY Zenon DEF OpenFile, IInv, Calling, Takes
<1>2. PICK k \in Kfds : k = job[p].kfd
  BY Zenon DEF OpenFile, IInv, Calling, Returns
<1>3. /\ job' = [job EXCEPT ![p] = [at |-> "user", kfd |-> -1, ufds |-> {}, next |-> "user", arg |-> 0]]
      /\ fdList' = [fdList EXCEPT ![p] = [j \in Ufds |-> IF j \in {i} THEN k ELSE fdList[p][j]]]
      /\ fds' = [fds EXCEPT ![k].obj = f] /\ ref' = [ref EXCEPT ![f] = @ + 1]
      /\ job[p].at = "getFile" /\ UNCHANGED <<alive, fdBitMap>>
  BY <1>1, <1>2, Zenon DEF OpenFile, SetTable, Call, Idle
<1>4. /\ p \in alive /\ fds[k].obj = NULL /\ fdList[p][i] = Reserved /\ f \in Objs /\ f # NULL
      /\ \A j \in Ufds : fdList[p][j] = Reserved => j = i
  BY <1>1, <1>2, <1>3, Consts, Zenon DEF IInv, Calling, Returns, Takes, Owned, New, Opening, Objs
<1>5. /\ fds' \in [Kfds -> [refcnt : Nat, obj : Objs \cup {NULL}]]
      /\ \A m \in Kfds : m # k => fds'[m] = fds[m]
      /\ fds'[k].refcnt = fds[k].refcnt /\ fds'[k].obj = f
  BY <1>3, <1>4, Zenon DEF IInv, Types
<1>6. Hold(p) = k /\ Hold(p)' = -1
  BY <1>2, <1>3, Zenon DEF IInv, Types, Hold, InFlight
<1>7. Val(p, i) = -1 /\ Val(p, i)' = k /\ \A j \in Ufds : j # i => Val(p, j)' = Val(p, j)
  BY <1>3, <1>4, Consts, Zenon DEF IInv, Types, Calling, Returns, Opening, Val, Refers, Given
<1>8. fds[k].refcnt # 0
  BY <1>6, Referred, Zenon DEF IInv
<1>9. MyCall(p)
  <2>1. Types'
    BY <1>3, <1>4, <1>5, FdAssumption DEF IInv, Types, JOB
  <2>2. Returns(p)' /\ Takes(p)' /\ Gives(p)'
    BY <1>3, <1>4, Consts, Zenon DEF IInv, Types, Calling, Returns, Takes, Gives, Opening, Freeing
  <2> QED
    BY <2>1, <2>2, Zenon DEF MyCall
<1>10. Frame(p)
  BY <1>3, Zenon DEF IInv, Types, Frame
<1>11. Objects'
  <2>1. ref \in [Objs -> Nat] /\ \A m \in Kfds : m # k => fds'[m].obj = fds[m].obj
    BY <1>5, Zenon DEF IInv, Types
  <2>2. ASSUME NEW b \in Objs PROVE ref'[b] = ref[b] + D(fds[k].obj = b, fds'[k].obj = b)
    BY <1>3, <1>4, <1>5, <2>1, Consts DEF D
  <2> QED
    BY <2>1, <2>2, OneObject, Zenon DEF IInv
<1>12. Owned'
  <2>1. k \in fdBitMap /\ \A q \in Procs : Gone(q) => job[q].kfd # k
    BY <1>8, Untouched, Zenon
  <2>2. \A q \in Procs : q # p => job'[q] = job[q]
    BY <1>3, Zenon DEF IInv, Types
  <2>3. \A q \in Procs : (New(q) \/ Gone(q) => job[q].kfd \in Kfds)
    BY Zenon DEF IInv, Calling, Returns, New, Gone, Freeing
  <2>4. \A q \in Procs : (New(q)' => q # p /\ New(q) /\ job[q].kfd # k) /\ (Gone(q)' => q # p /\ Gone(q))
    BY <1>2, <1>3, <2>2, Zenon DEF IInv, Types, Owned, New, Gone
  <2> QED
    BY <1>3, <1>5, <2>1, <2>2, <2>3, <2>4 DEF IInv, Owned
<1>13. ASSUME NEW m \in Kfds PROVE Entry1(p, i, m)
  <2>1. fds'[m].refcnt = fds[m].refcnt /\ fds[m].refcnt \in Nat /\ m # -1
    BY <1>5, Consts, Zenon DEF IInv, Types
  <2> QED
    BY <1>6, <1>7, <2>1 DEF Entry1, D
<1> QED
  BY <1>7, <1>9, <1>10, <1>11, <1>12, <1>13, Counted, Zenon

LEMMA CiteType ==
    ASSUME Types, NEW k \in Kfds, fds' = [fds EXCEPT ![k].refcnt = @ + 1]
    PROVE  fds' \in [Kfds -> [refcnt : Nat, obj : Objs \cup {NULL}]]
<1>1. fds[k].refcnt \in Nat /\ fds[k].refcnt + 1 \in Nat
  BY DEF Types
<1> QED
  BY <1>1, Zenon DEF Types

\* cloneAddCite() of a descriptor that is in the table already.
LEMMA CiteStep ==
    ASSUME IInv, NEW p \in Procs, NEW i \in Ufds, NEW k \in Kfds, MyCall(p), Frame(p),
           fds' = [fds EXCEPT ![k].refcnt = @ + 1], UNCHANGED <<fdBitMap, ref>>,
           fds[k].refcnt # 0, ~New(p)', ~Gone(p)', Hold(p)' = Hold(p),
           Val(p, i) = -1, Val(p, i)' = k, \A j \in Ufds : j # i => Val(p, j)' = Val(p, j)
    PROVE  IInv'
<1>1. /\ \A m \in Kfds : m # k => fds'[m] = fds[m]
      /\ fds'[k].refcnt = fds[k].refcnt + 1 /\ fds'[k].obj = fds[k].obj
  BY Zenon DEF IInv, Types
<1>2. Objects'
  <2>1. \A m \in Kfds : fds'[m].obj = fds[m].obj
    BY <1>1, Zenon
  <2>2. ObjOf' = ObjOf
    BY <2>1, Zenon DEF ObjOf
  <2> QED
    BY <2>2, Zenon DEF IInv, Objects
<1>3. Owned'
  <2>1. k \in fdBitMap /\ \A q \in Procs : Gone(q) => job[q].kfd # k
    BY Untouched, Zenon
  <2>2. \A q \in Procs : q # p => job'[q] = job[q]
    BY Zenon DEF Frame
  <2>3. \A q \in Procs : (New(q) \/ Gone(q) => job[q].kfd \in Kfds)
    BY Zenon DEF IInv, Calling, Returns, New, Gone, Freeing
  <2>4. \A q \in Procs : (New(q)' => q # p /\ New(q)) /\ (Gone(q)' => q # p /\ Gone(q))
    BY <2>2, Zenon DEF New, Gone
  <2> QED
    BY <1>1, <2>1, <2>2, <2>3, <2>4 DEF IInv, Owned
<1>4. ASSUME NEW m \in Kfds PROVE Entry1(p, i, m)
  <2>1. fds'[m].refcnt = (IF m = k THEN fds[m].refcnt + 1 ELSE fds[m].refcnt) /\ fds[m].refcnt \in Nat /\ m # -1
    BY <1>1, Consts, Zenon DEF IInv, Types
  <2> QED
    BY <2>1 DEF Entry1, D
<1> QED
  BY <1>2, <1>3, <1>4, Counted, Zenon

LEMMA DupStep ==
    ASSUME IInv, NEW p \in Procs, NEW old \in Ufds, Dup(p, old)
    PROVE  IInv'
<1>1. PICK i \in Ufds : i = Lowest(FreeUfds(p)) /\ fdList[p][i] = -1
  <2>1. FreeUfds(p) \in SUBSET Nat /\ FreeUfds(p) # {}
    BY Consts, Zenon DEF FreeUfds, Dup
  <2>2. Lowest(FreeUfds(p)) \in FreeUfds(p)
    BY <2>1, LowestIn, Zenon
  <2> QED
    BY <2>2, Zenon DEF FreeUfds
<1>2. PICK k \in Kfds : k = fdList[p][old]
  BY Zenon DEF Dup, IsOpen
<1>3. /\ p \in alive /\ job[p].at = "user" /\ UNCHANGED <<alive, fdBitMap, ref, job>>
      /\ fdList' = [fdList EXCEPT ![p] = [j \in Ufds |-> IF j \in {i} THEN k ELSE fdList[p][j]]]
      /\ fds' = [fds EXCEPT ![k].refcnt = @ + 1]
  BY <1>1, <1>2, Zenon DEF Dup, Calls, SetTable, AddCite
<1>4. job[p].next = "user"
  BY <1>3, Zenon DEF IInv, Calling, Returns
<1>5. Val(p, old) = k /\ Val(p, i) = -1 /\ Val(p, i)' = k /\ \A j \in Ufds : j # i => Val(p, j)' = Val(p, j)
  BY <1>1, <1>2, <1>3, <1>4, Consts, Zenon DEF IInv, Types, Val, Refers, Given
<1>6. fds[k].refcnt # 0
  BY <1>5, Referred, Zenon DEF IInv
<1>7. MyCall(p)
  <2>1. Types'
    <3>1. fds' \in [Kfds -> [refcnt : Nat, obj : Objs \cup {NULL}]]
      BY <1>3, CiteType, Zenon DEF IInv
    <3> QED
      BY <1>3, <3>1 DEF IInv, Types
  <2>2. Returns(p)' /\ Takes(p)' /\ Gives(p)'
    BY <1>1, <1>2, <1>3, <1>4, Consts, Zenon DEF IInv, Types, Calling, Returns, Takes, Gives, Opening, Freeing
  <2> QED
    BY <2>1, <2>2, Zenon DEF MyCall
<1>8. Frame(p) /\ ~New(p)' /\ ~Gone(p)' /\ Hold(p)' = Hold(p)
  BY <1>3, Zenon DEF IInv, Types, Frame, New, Gone, Hold, InFlight
<1> QED
  BY <1>3, <1>5, <1>6, <1>7, <1>8, CiteStep, Zenon

LEMMA Dup3DoneStep ==
    ASSUME IInv, NEW p \in Procs, Dup3Done(p)
    PROVE  IInv'
<1>1. job[p].at = "dup3" /\ p \in alive /\ job[p].next \in {"user", "dup3"}
  BY Zenon DEF Dup3Done, IInv, Calling, Returns
<1>2. PICK old \in Ufds, i \in Ufds : old = job[p].arg /\ i # old /\ job[p].ufds = {i} /\ fdList[p][old] \in Kfds
  BY <1>1, Zenon DEF IInv, Calling, Gives
<1>3. PICK k \in Kfds : k = fdList[p][old]
  BY <1>2, Zenon
<1>4. /\ job' = [job EXCEPT ![p] = [at |-> "user", kfd |-> -1, ufds |-> {}, next |-> "user", arg |-> 0]]
      /\ fdList' = [fdList EXCEPT ![p] = [j \in Ufds |-> IF j \in {i} THEN k ELSE fdList[p][j]]]
      /\ fds' = [fds EXCEPT ![k].refcnt = @ + 1] /\ UNCHANGED <<alive, fdBitMap, ref>>
  BY <1>2, <1>3, Zenon DEF Dup3Done, SetTable, AddCite, Call, Idle
<1>5. Val(p, old) = k /\ Val(p, i) = -1 /\ Val(p, i)' = k /\ \A j \in Ufds : j # i => Val(p, j)' = Val(p, j)
  BY <1>1, <1>2, <1>3, <1>4, Consts, Zenon DEF IInv, Types, Val, Refers, Given
<1>6. fds[k].refcnt # 0
  BY <1>5, Referred, Zenon DEF IInv
<1>7. MyCall(p)
  <2>1. Types'
    <3>1. job' \in [Procs -> JOB]
      BY <1>4, FdAssumption DEF IInv, Types, JOB
    <3>2. fds' \in [Kfds -> [refcnt : Nat, obj : Objs \cup {NULL}]]
      BY <1>4, CiteType, Zenon DEF IInv
    <3> QED
      BY <1>4, <3>1, <3>2 DEF IInv, Types
  <2>2. Returns(p)' /\ Takes(p)' /\ Gives(p)'
    BY <1>1, <1>2, <1>3, <1>4, Consts, Zenon DEF IInv, Types, Calling, Returns, Takes, Gives, Opening, Freeing
  <2> QED
    BY <2>1, <2>2, Zenon DEF MyCall
<1>8. Frame(p) /\ ~New(p)' /\ ~Gone(p)' /\ Hold(p)' = Hold(p)
  BY <1>1, <1>4, Zenon DEF IInv, Types, Frame, New, Gone, Hold, InFlight
<1> QED
  BY <1>4, <1>5, <1>6, <1>7, <1>8, CiteStep, Zenon

LEMMA PipeDoneStep ==
    ASSUME IInv, NEW p \in Procs, NEW x \in Pipes, PipeDone(p, x)
    PROVE  IInv'
<1>1. PICK n \in Ufds, l \in Ufds : n # l /\ job[p].ufds = {n, l}
  BY Zenon DEF PipeDone, IInv, Calling, Takes
<1>2. PICK a \in Ufds, b \in Ufds : a # b /\ job[p].ufds = {a, b} /\ a = Lowest(job[p].ufds)
  <2>1. job[p].ufds \in SUBSET Nat /\ job[p].ufds # {}
    BY <1>1, Consts, Zenon
  <2>2. Lowest(job[p].ufds) \in {n, l}
    BY <1>1, <2>1, LowestIn, Zenon
  <2> QED
    BY <1>1, <2>2, Zenon
<1>3. PICK c \in Kfds : c = job[p].kfd
  BY Zenon DEF PipeDone, IInv, Calling, Returns
<1>4. PICK k \in FreeKfds :
        /\ fdBitMap' = fdBitMap \cup {k}
        /\ fds' = [fds EXCEPT ![k] = [refcnt |-> 1, obj |-> x], ![c].obj = x]
        /\ fdList' = [fdList EXCEPT ![p] = [i \in Ufds |->
              CASE i = a -> c [] i \in {a, b} \ {a} -> k [] OTHER -> fdList[p][i]]]
  BY <1>2, <1>3, ZenonT(30) DEF PipeDone
<1>5. /\ job' = [job EXCEPT ![p] = [at |-> "user", kfd |-> -1, ufds |-> {}, next |-> "user", arg |-> 0]]
      /\ ref' = [ref EXCEPT ![x] = 2] /\ ref[x] = 0
      /\ job[p].at = "pipe2" /\ UNCHANGED alive
  BY Zenon DEF PipeDone, Call, Idle
<1>6. /\ p \in alive /\ fds[c].obj = NULL /\ fdList[p][a] = Reserved /\ fdList[p][b] = Reserved
      /\ x \in Objs /\ x # NULL /\ k \in Kfds /\ k \notin fdBitMap /\ fds[k] = ZeroFd
      /\ \A j \in Ufds : fdList[p][j] = Reserved => j \in {a, b}
  BY <1>2, <1>3, <1>4, <1>5, Consts, ZenonT(30) DEF IInv, Calling, Returns, Takes, Owned, New, Opening, Objs, FreeKfds
<1>7. Hold(p) = c /\ Hold(p)' = -1
  BY <1>3, <1>5, Zenon DEF IInv, Types, Hold, InFlight
<1>8. c # k /\ c \in fdBitMap /\ \A q \in Procs : Gone(q) => job[q].kfd # c
  <2>1. fds[c].refcnt # 0
    BY <1>7, Referred, Zenon DEF IInv
  <2> QED
    BY <1>6, <2>1, Untouched, Zenon
<1>9. /\ fdList'[p][a] = c /\ fdList'[p][b] = k
      /\ \A j \in Ufds : j # a /\ j # b => fdList'[p][j] = fdList[p][j]
      /\ \A q \in Procs : q # p => fdList'[q] = fdList[q]
      /\ fdList' \in [Procs -> [Ufds -> Kfds \cup {-1, Reserved}]]
  <2> DEFINE row == [i \in Ufds |-> CASE i = a -> c [] i \in {a, b} \ {a} -> k [] OTHER -> fdList[p][i]]
  <2>1. ASSUME NEW i \in Ufds
        PROVE  /\ i = a => row[i] = c
               /\ i = b => row[i] = k
               /\ i # a /\ i # b => row[i] = fdList[p][i]
    BY <1>2, Zenon
  <2>2. row \in [Ufds -> Kfds \cup {-1, Reserved}]
    <3>1. ASSUME NEW i \in Ufds PROVE row[i] \in Kfds \cup {-1, Reserved}
      <4>1. fdList[p][i] \in Kfds \cup {-1, Reserved}
        BY DEF IInv, Types
      <4> HIDE DEF row
      <4> QED
        BY <1>6, <2>1, <4>1, Zenon
    <3> QED
      BY <3>1, Zenon
  <2>3. fdList' = [fdList EXCEPT ![p] = row]
    BY <1>4, Zenon
  <2> HIDE DEF row
  <2> QED
    BY <2>1, <2>2, <2>3, Zenon DEF IInv, Types
<1>10. /\ Val(p, a) = -1 /\ Val(p, a)' = c /\ Val(p, b) = -1 /\ Val(p, b)' = k
       /\ \A j \in Ufds : j # a /\ j # b => Val(p, j)' = Val(p, j)
  <2>1. /\ job'[p].at = "user" /\ job'[p].next = "user" /\ job[p].next = "user"
        /\ job[p].at = "pipe2" /\ p \in alive /\ p \in alive'
    BY <1>5, <1>6, Zenon DEF IInv, Types, Calling, Returns, Opening
  <2>2. Val(p, a) = -1 /\ Val(p, b) = -1
    BY <1>6, Consts, Zenon DEF Val
  <2>3. Val(p, a)' = c /\ Val(p, b)' = k
    BY <1>6, <1>9, <2>1, Zenon DEF Val, Refers, Given
  <2>4. \A j \in Ufds : j # a /\ j # b => Val(p, j)' = Val(p, j)
    BY <1>9, <2>1, Zenon DEF Val, Refers, Given
  <2> QED
    BY <2>2, <2>3, <2>4, Zenon
<1>11. /\ fds' \in [Kfds -> [refcnt : Nat, obj : Objs \cup {NULL}]]
       /\ \A m \in Kfds : m # k /\ m # c => fds'[m] = fds[m]
       /\ fds'[k].refcnt = 1 /\ fds'[k].obj = x
       /\ fds'[c].refcnt = fds[c].refcnt /\ fds'[c].obj = x
  <2> DEFINE g == [fds EXCEPT ![k] = [refcnt |-> 1, obj |-> x]]
  <2>1. /\ g \in [Kfds -> [refcnt : Nat, obj : Objs \cup {NULL}]]
        /\ g[k].refcnt = 1 /\ g[k].obj = x /\ \A m \in Kfds : m # k => g[m] = fds[m]
    BY <1>6, Zenon DEF IInv, Types
  <2>2. fds' = [g EXCEPT ![c].obj = x]
    BY <1>4, Zenon
  <2> HIDE DEF g
  <2> QED
    BY <1>6, <1>8, <2>1, <2>2
<1>12. Frame(p)
  BY <1>5, <1>9, Zenon DEF IInv, Types, Frame
<1>13. MyCall(p)
  <2>1. job' \in [Procs -> JOB] /\ fdBitMap' \in SUBSET Kfds /\ ref' \in [Objs -> Nat]
    BY <1>4, <1>5, <1>6, FdAssumption DEF IInv, Types, JOB
  <2>2. Types'
    BY <1>5, <1>9, <1>11, <2>1, Zenon DEF IInv, Types
  <2>3. /\ job'[p].at = "user" /\ job'[p].next = "user" /\ job[p].at = "pipe2"
        /\ \A j \in Ufds : fdList'[p][j] # Reserved
    BY <1>5, <1>6, <1>9, Consts, SMTT(60) DEF IInv, Types
  <2>4. Returns(p)' /\ Takes(p)' /\ Gives(p)'
    BY <1>5, <1>6, <2>3, Zenon DEF Returns, Takes, Gives, Opening, Freeing
  <2> QED
    BY <2>2, <2>4, Zenon DEF MyCall
<1>14. Calling'
  BY <1>12, <1>13, Others, Zenon DEF IInv, Calling, MyCall
<1>15. Owned'
  <2>1. \A q \in Procs : q # p => job'[q] = job[q]
    BY <1>12, Zenon DEF Frame
  <2>2. \A q \in Procs : (New(q) \/ Gone(q) => job[q].kfd \in Kfds)
    BY Zenon DEF IInv, Calling, Returns, New, Gone, Freeing
  <2>3. \A q \in Procs : New(q) => job[q].kfd # k
    <3> SUFFICES ASSUME NEW q \in Procs, New(q), job[q].kfd = k PROVE FALSE
      BY Zenon
    <3>1. Hold(q) = k
      BY Zenon DEF Hold, InFlight, New
    <3>2. fds[k].refcnt # 0
      BY <1>6, <3>1, Referred, Zenon DEF IInv
    <3> QED
      BY <1>6, <3>2 DEF ZeroFd
  <2>4. \A q \in Procs : Gone(q) => job[q].kfd # k
    BY <1>6, Zenon DEF IInv, Owned
  <2>5. \A q \in Procs : (New(q)' => q # p /\ New(q) /\ job[q].kfd # c) /\ (Gone(q)' => q # p /\ Gone(q))
    BY <1>3, <1>5, <2>1, Zenon DEF IInv, Types, Owned, New, Gone
  <2> QED
    BY <1>4, <1>8, <1>11, <2>1, <2>2, <2>3, <2>4, <2>5, SMTT(60) DEF IInv, Owned
<1>16. Counts'
  <2> SUFFICES ASSUME NEW m \in Kfds PROVE RefAt(m)'
    BY Zenon DEF Counts
  <2> DEFINE t == Table
             u == Table'
             v == [e \in Entries |-> IF e = <<p, a>> THEN c ELSE Table[e]]
             g == Holds
             h == Holds'
             y == <<p, a>>
             z == <<p, b>>
             n0 == Cardinality(Users(Entries, t, m))
             n1 == Cardinality(Users(Entries, v, m))
             n2 == Cardinality(Users(Entries, u, m))
             s0 == Cardinality(Users(Procs, g, m))
             s1 == Cardinality(Users(Procs, h, m))
  <2>1. AgreeBut(Entries, t, v, y)
    BY Zenon DEF AgreeBut
  <2>2. AgreeBut(Entries, v, u, z)
    <3> SUFFICES ASSUME NEW q \in Procs, NEW j \in Ufds, <<q, j>> # <<p, b>>
                 PROVE  Val(q, j)' = IF q = p /\ j = a THEN c ELSE Val(q, j)
      BY DEF AgreeBut, Entries, Table
    <3>1. CASE q = p
      BY <1>10, <3>1, Zenon
    <3>2. CASE q # p
      BY <1>12, <3>2, Others, Zenon DEF IInv
    <3> QED
      BY <3>1, <3>2, Zenon
  <2>3. AgreeBut(Procs, g, h, p)
    BY <1>12, Others, Zenon DEF IInv, AgreeBut, Holds
  <2>4. /\ y \in Entries /\ z \in Entries /\ t[y] = -1 /\ v[y] = c /\ v[z] = -1 /\ u[z] = k
        /\ g[p] = c /\ h[p] = -1
    BY <1>2, <1>7, <1>10, Zenon DEF Table, Entries, Holds
  <2>5. fds[m].refcnt = n0 + s0 /\ (RefAt(m)' <=> fds'[m].refcnt = n2 + s1)
    BY Zenon DEF RefAt, IInv, Counts
  <2> HIDE DEF t, u, v, g, h, y, z
  <2>6. Change(n0, n1, t[y] = m, v[y] = m)
    BY <2>1, <2>4, Consts, CountChange, Zenon
  <2>7. Change(n1, n2, v[z] = m, u[z] = m)
    BY <2>2, <2>4, Consts, CountChange, Zenon
  <2>8. Change(s0, s1, g[p] = m, h[p] = m)
    BY <2>3, Consts, CountChange, Zenon
  <2> HIDE DEF n0, n1, n2, s0, s1
  <2>9. /\ fds'[m].refcnt = (IF m = k THEN 1 ELSE fds[m].refcnt) /\ (m = k => fds[m].refcnt = 0)
        /\ m # -1
    BY <1>6, <1>11, Consts, SMTT(60) DEF ZeroFd
  <2>10. Change(n0, n1, FALSE, m = c) /\ Change(n1, n2, FALSE, m = k) /\ Change(s0, s1, m = c, FALSE)
    BY <2>4, <2>6, <2>7, <2>8, <2>9, ZenonT(30)
  <2>11. fds'[m].refcnt = n2 + s1
    BY <1>8, <2>5, <2>9, <2>10, SMTT(60) DEF Change
  <2> QED
    BY <2>5, <2>11, Zenon
<1>17. Objects'
  <2> SUFFICES ASSUME NEW o \in Objs PROVE ref'[o] = Cardinality(Users(Kfds, ObjOf', o))
    BY Zenon DEF Objects
  <2> DEFINE f == ObjOf
             u == ObjOf'
             h == [m \in Kfds |-> IF m = k THEN x ELSE fds[m].obj]
             n0 == Cardinality(Users(Kfds, f, o))
             n1 == Cardinality(Users(Kfds, h, o))
             n2 == Cardinality(Users(Kfds, u, o))
  <2>1. AgreeBut(Kfds, f, h, k) /\ AgreeBut(Kfds, h, u, c)
    BY <1>11, Zenon DEF AgreeBut, ObjOf
  <2>2. f[k] = NULL /\ h[k] = x /\ h[c] = NULL /\ u[c] = x
    <3>1. f[k] = NULL /\ h[c] = NULL
      BY <1>6, <1>8, SMTT(60) DEF ObjOf, ZeroFd
    <3>2. h[k] = x
      BY <1>6, Zenon
    <3>3. u[c] = x
      BY <1>8, <1>11, Zenon DEF ObjOf
    <3> QED
      BY <3>1, <3>2, <3>3, Zenon
  <2>3. ref[o] = n0
    BY Zenon DEF IInv, Objects
  <2> HIDE DEF f, u, h
  <2>4. Change(n0, n1, f[k] = o, h[k] = o) /\ Change(n1, n2, h[c] = o, u[c] = o)
    BY <1>6, <2>1, Consts, CountChange, Zenon
  <2> HIDE DEF n0, n1, n2
  <2>5. ref'[o] = IF o = x THEN 2 ELSE ref[o]
    BY <1>5, Zenon DEF IInv, Types
  <2>6. Change(n0, n1, FALSE, x = o) /\ Change(n1, n2, FALSE, x = o)
    BY <2>2, <2>4, Consts, Zenon
  <2>7. ref'[o] = n2
    BY <1>5, <2>3, <2>5, <2>6 DEF Change
  <2> QED
    BY <2>7, Zenon DEF n2, u
<1> QED
  BY <1>13, <1>14, <1>15, <1>16, <1>17, Zenon DEF IInv, MyCall

\* fork_thread_fs(): one more reference for every entry of the parent.
LEMMA ForkStep ==
    ASSUME IInv, NEW p \in Procs, NEW q \in Procs, Fork(p, q)
    PROVE  IInv'
<1>1. /\ p \in alive /\ job[p].at = "user" /\ q \notin alive /\ q # p
      /\ fdList' = [fdList EXCEPT ![q] = fdList[p]]
      /\ fds' = [k \in Kfds |-> [fds[k] EXCEPT !.refcnt = @ + Copies(p, k)]]
      /\ alive' = alive \cup {q} /\ UNCHANGED <<fdBitMap, ref, job>>
  BY Zenon DEF Fork, Calls, Cited
<1>2. job[p].next = "user" /\ job[q].at = "user" /\ job[q].next = "user"
  BY <1>1, Zenon DEF IInv, Calling, Returns
<1>3. /\ fdList' \in [Procs -> [Ufds -> Kfds \cup {-1, Reserved}]]
      /\ fdList'[q] = fdList[p] /\ \A r \in Procs : r # q => fdList'[r] = fdList[r]
  BY <1>1, Zenon DEF IInv, Types
<1>4. \A i \in Ufds : /\ Val(p, i) = IF fdList[p][i] \in Kfds THEN fdList[p][i] ELSE -1
                      /\ Val(q, i)' = Val(p, i) /\ Val(q, i) = -1
  BY <1>1, <1>2, <1>3, Zenon DEF Val, Refers, Given
<1>5. Frame(q)
  BY <1>1, <1>3, Zenon DEF Frame
<1>6. Hold(q)' = Hold(q)
  BY <1>1, Zenon DEF Hold, InFlight
<1>7. ASSUME NEW k \in Kfds
      PROVE  /\ Copies(p, k) \in Nat
             /\ IsFiniteSet({i \in Ufds : fdList[p][i] = k})
             /\ fds[k].refcnt = 0 => Copies(p, k) = 0
  <2> DEFINE S == {i \in Ufds : fdList[p][i] = k}
  <2>1. IsFiniteSet(S)
    <3>1. S \subseteq Ufds
      BY Zenon
    <3> QED
      BY <3>1, Consts, FS_Subset, Zenon
  <2>2. Cardinality(S) \in Nat
    BY <2>1, FS_CardinalityType, Zenon
  <2>3. fds[k].refcnt = 0 => S = {}
    <3> SUFFICES ASSUME fds[k].refcnt = 0, NEW i \in S PROVE FALSE
      BY Zenon
    <3>1. Val(p, i) = k
      BY <1>4, Zenon
    <3> QED
      BY <3>1, Referred, Zenon DEF IInv
  <2>4. fds[k].refcnt = 0 => Cardinality(S) = 0
    BY <2>3, FS_EmptySet, Zenon
  <2> QED
    BY <2>1, <2>2, <2>4, Zenon DEF Copies
<1>8. ASSUME NEW k \in Kfds
      PROVE  /\ fds'[k] \in [refcnt : Nat, obj : Objs \cup {NULL}]
             /\ fds'[k].refcnt = fds[k].refcnt + Copies(p, k) /\ fds'[k].obj = fds[k].obj
             /\ fds[k] = ZeroFd => fds'[k] = ZeroFd
  <2>0. Copies(p, k) \in Nat /\ (fds[k].refcnt = 0 => Copies(p, k) = 0)
    BY <1>7, Zenon
  <2>1. fds[k] \in [refcnt : Nat, obj : Objs \cup {NULL}] /\ fds[k].refcnt + Copies(p, k) \in Nat
    BY <2>0 DEF IInv, Types
  <2>2. fds'[k] = [fds[k] EXCEPT !.refcnt = fds[k].refcnt + Copies(p, k)]
    BY <1>1, Zenon
  <2>3. /\ fds'[k] \in [refcnt : Nat, obj : Objs \cup {NULL}]
        /\ fds'[k].refcnt = fds[k].refcnt + Copies(p, k) /\ fds'[k].obj = fds[k].obj
    BY <2>1, <2>2, Zenon
  <2>4. fds[k] = ZeroFd => fds'[k] = ZeroFd
    <3> SUFFICES ASSUME fds[k] = ZeroFd PROVE fds'[k] = ZeroFd
      BY Zenon
    <3>1. fds'[k].refcnt = 0 /\ fds'[k].obj = NULL
      BY <2>0, <2>3 DEF ZeroFd
    <3> QED
      BY <2>3, <3>1, Zenon DEF ZeroFd
  <2> QED
    BY <2>3, <2>4, Zenon
<1>9. MyCall(q)
  <2>1. fds' \in [Kfds -> [refcnt : Nat, obj : Objs \cup {NULL}]]
    BY <1>1, <1>8, Zenon
  <2>2. Types'
    BY <1>1, <1>3, <2>1, Zenon DEF IInv, Types
  <2>3. \A i \in Ufds : fdList'[q][i] # Reserved
    BY <1>1, <1>3, Zenon DEF IInv, Calling, Takes, Opening
  <2>4. Returns(q)' /\ Takes(q)' /\ Gives(q)'
    BY <1>1, <1>2, <2>3, Zenon DEF Returns, Takes, Gives, Opening, Freeing
  <2> QED
    BY <2>2, <2>4, Zenon DEF MyCall
<1>10. Calling'
  BY <1>5, <1>9, Others, Zenon DEF IInv, Calling, MyCall
<1>11. Owned'
  <2>1. \A r \in Procs : (New(r) \/ Gone(r) => job[r].kfd \in Kfds)
    BY Zenon DEF IInv, Calling, Returns, New, Gone, Freeing
  <2> QED
    BY <1>1, <1>8, <2>1 DEF IInv, Owned, New, Gone
<1>12. Objects'
  <2>1. ObjOf' = ObjOf
    BY <1>8, Zenon DEF ObjOf
  <2> QED
    BY <1>1, <2>1, Zenon DEF IInv, Objects
<1>13. Counts'
  <2> SUFFICES ASSUME NEW k \in Kfds PROVE RefAt(k)'
    BY Zenon DEF Counts
  <2> DEFINE S == {i \in Ufds : fdList[p][i] = k}
             Q == {x \in Entries : x[1] = q /\ fdList[p][x[2]] = k}
             A == Users(Entries, Table, k)
             B == Users(Entries, Table', k)
  <2>1. IsFiniteSet(S) /\ Cardinality(S) \in Nat /\ Copies(p, k) = Cardinality(S)
    BY <1>7, Zenon DEF Copies
  <2>2. IsFiniteSet(Q) /\ Cardinality(Q) = Cardinality(S)
    <3> DEFINE pair == [i \in S |-> <<q, i>>]
    <3>1. pair \in [S -> Q]
      BY Zenon DEF Entries
    <3>2. \A i, j \in S : pair[i] = pair[j] => i = j
      BY Zenon
    <3>3. \A x \in Q : \E i \in S : pair[i] = x
      BY DEF Entries
    <3>4. pair \in Bijection(S, Q)
      BY <3>1, <3>2, <3>3, Zenon DEF Bijection, Injection, Surjection, IsInjective
    <3>5. ExistsBijection(S, Q)
      BY <3>4, Zenon DEF ExistsBijection
    <3> QED
      BY <2>1, <3>5, FS_Bijection, Zenon
  <2>3. IsFiniteSet(A) /\ Cardinality(A) \in Nat
    <3>1. A \subseteq Entries
      BY Zenon DEF Users
    <3> QED
      BY <3>1, Consts, FS_Subset, FS_CardinalityType, Zenon
  <2>4. k # -1
    BY Consts, Zenon
  <2>5. A \cap Q = {}
    <3> SUFFICES ASSUME NEW x \in Entries, Table[x] = k, x[1] = q PROVE FALSE
      BY Zenon DEF Users
    <3>1. x[2] \in Ufds /\ Table[x] = Val(q, x[2])
      BY Zenon DEF Entries, Table
    <3> QED
      BY <1>4, <2>4, <3>1, Zenon
  <2>6. B = A \cup Q
    <3>1. ASSUME NEW r \in Procs, NEW i \in Ufds
          PROVE  Val(r, i)' = k <=> Val(r, i) = k \/ (r = q /\ fdList[p][i] = k)
      <4>1. CASE r = q
        BY <1>4, <2>4, <4>1
      <4>2. CASE r # q
        BY <1>5, <4>2, Others, Zenon DEF IInv
      <4> QED
        BY <4>1, <4>2, Zenon
    <3>2. ASSUME NEW x \in Entries PROVE x \in B <=> x \in A \/ x \in Q
      BY <3>1, Zenon DEF Users, Entries, Table
    <3>3. B \subseteq Entries /\ A \subseteq Entries /\ Q \subseteq Entries
      BY Zenon DEF Users
    <3> HIDE DEF A, B, Q
    <3> QED
      BY <3>2, <3>3, Zenon
  <2>7. Cardinality(B) = Cardinality(A) + Cardinality(S)
    <3> HIDE DEF A, B, Q, S
    <3>1. Cardinality(A \cup Q) = Cardinality(A) + Cardinality(Q) - Cardinality(A \cap Q)
      BY <2>2, <2>3, FS_Union, Zenon
    <3>2. Cardinality(A \cap Q) = 0
      BY <2>5, FS_EmptySet, Zenon
    <3> QED
      BY <2>1, <2>2, <2>3, <2>6, <3>1, <3>2
  <2>8. Holds' = Holds
    <3>1. \A r \in Procs : Hold(r)' = Hold(r)
      BY <1>5, <1>6, Others, Zenon DEF IInv
    <3> QED
      BY <3>1, Zenon DEF Holds
  <2>9. /\ fds[k].refcnt = Cardinality(A) + Cardinality(Users(Procs, Holds, k))
        /\ RefAt(k)' <=> fds'[k].refcnt = Cardinality(B) + Cardinality(Users(Procs, Holds, k))
    BY <2>8, Zenon DEF IInv, Counts, RefAt
  <2>10. Cardinality(Users(Procs, Holds, k)) \in Nat
    BY Consts, CountType, Zenon
  <2>11. fds'[k].refcnt = fds[k].refcnt + Cardinality(S)
    BY <1>8, <2>1, Zenon
  <2> HIDE DEF A, B, Q, S
  <2> QED
    BY <2>1, <2>3, <2>7, <2>9, <2>10, <2>11, SMTT(60)
<1> QED
  BY <1>9, <1>10, <1>11, <1>12, <1>13, Zenon DEF IInv, MyCall

-----------------------------------------------------------------------------
LEMMA InitStep == Init => IInv
<1> SUFFICES ASSUME Init PROVE IInv
  BY Zenon
<1>1. 0 \in Kfds /\ 0 \in Ufds /\ First \in Procs
  BY FdAssumption DEF Kfds, Ufds
<1>2. /\ \A p \in Procs : job[p] = [at |-> "user", kfd |-> -1, ufds |-> {}, next |-> "user", arg |-> 0]
      /\ \A p \in Procs : \A i \in Ufds : fdList[p][i] = IF p = First /\ i = 0 THEN 0 ELSE -1
      /\ \A k \in Kfds : fds[k].refcnt = (IF k = 0 THEN 1 ELSE 0) /\ fds[k].obj = NULL
      /\ \A k \in Kfds : k # 0 => fds[k] = ZeroFd
  BY Zenon DEF Init, Idle, Call, ZeroFd
<1>3. Types
  <2>1. job \in [Procs -> JOB]
    BY FdAssumption DEF Init, Idle, Call, JOB
  <2>2. fds \in [Kfds -> [refcnt : Nat, obj : Objs \cup {NULL}]]
    BY Zenon DEF Init, ZeroFd
  <2>3. fdList \in [Procs -> [Ufds -> Kfds \cup {-1, Reserved}]]
    BY <1>1, Zenon DEF Init
  <2> QED
    BY <1>1, <2>1, <2>2, <2>3, Zenon DEF Init, Types, Objs
<1>4. Calling
  BY <1>1, <1>2, Consts, SMTT(60) DEF Calling, Returns, Takes, Gives, Opening, Freeing
<1>5. Owned
  BY <1>2 DEF Owned, New, Gone, Init
<1>6. Counts
  <2> SUFFICES ASSUME NEW k \in Kfds PROVE RefAt(k)
    BY Zenon DEF Counts
  <2>1. ASSUME NEW p \in Procs PROVE Hold(p) = -1
    BY <1>2 DEF Hold, InFlight
  <2>2. ASSUME NEW p \in Procs, NEW i \in Ufds PROVE Val(p, i) = IF p = First /\ i = 0 THEN 0 ELSE -1
    <3>1. p = First => p \in alive
      BY Zenon DEF Init
    <3> QED
      BY <1>1, <1>2, <3>1, Consts, SMTT(60) DEF Val, Refers, Given
  <2>3. k # -1
    BY Consts, Zenon
  <2>4. Users(Procs, Holds, k) = {}
    BY <2>1, <2>3, Zenon DEF Users, Holds
  <2>5. Users(Entries, Table, k) = IF k = 0 THEN {<<First, 0>>} ELSE {}
    <3>1. <<First, 0>> \in Entries
      BY <1>1, Zenon DEF Entries
    <3>2. ASSUME NEW x \in Entries PROVE Table[x] = k <=> k = 0 /\ x = <<First, 0>>
      BY <2>2, <2>3 DEF Table, Entries
    <3> QED
      BY <3>1, <3>2, Zenon DEF Users
  <2>6. Cardinality(Users(Procs, Holds, k)) = 0
    BY <2>4, FS_EmptySet, Zenon
  <2>7. Cardinality(Users(Entries, Table, k)) = IF k = 0 THEN 1 ELSE 0
    BY <2>5, FS_EmptySet, FS_Singleton, Zenon
  <2> QED
    BY <1>2, <2>6, <2>7, SMTT(60) DEF RefAt
<1>7. Objects
  <2> SUFFICES ASSUME NEW o \in Objs PROVE ref[o] = Cardinality(Users(Kfds, ObjOf, o))
    BY Zenon DEF Objects
  <2>1. Users(Kfds, ObjOf, o) = {}
    BY <1>2, Consts, ZenonT(30) DEF Users, ObjOf
  <2>2. ref[o] = 0
    BY Zenon DEF Init, Objs
  <2> QED
    BY <2>1, <2>2, FS_EmptySet, Zenon
<1> QED
  BY <1>3, <1>4, <1>5, <1>6, <1>7, Zenon DEF IInv

LEMMA NextStep ==
    ASSUME IInv, ~BadOld, [Next]_vars
    PROVE  IInv'
<1>1. CASE UNCHANGED vars
  <2> USE <1>1 DEF vars
  <2>1. Types'
    BY Zenon DEF IInv, Types
  <2>2. Calling'
    BY DEF IInv, Calling, Returns, Takes, Gives
  <2>3. Owned'
    BY Zenon DEF IInv, Owned, New, Gone
  <2>4. Counts'
    <3>1. \A p \in Procs : Hold(p)' = Hold(p)
      BY Zenon DEF Hold, InFlight
    <3>2. \A p \in Procs : \A i \in Ufds : Val(p, i)' = Val(p, i)
      BY DEF Val, Refers, Given
    <3> QED
      BY <3>1, <3>2, Zenon DEF IInv, Counts, RefAt, Table, Holds, Entries
  <2>5. Objects'
    BY Zenon DEF IInv, Objects, ObjOf
  <2> QED
    BY <2>1, <2>2, <2>3, <2>4, <2>5, Zenon DEF IInv
<1>2. CASE Next
  <2> PICK p \in Procs :
        \/ FreeDec(p) \/ FreeZero(p) \/ FreeBit(p)
        \/ OpenStart(p) \/ AllocFails(p) \/ Alloc(p) \/ OpenFails(p) \/ \E f \in Files : OpenFile(p, f)
        \/ PipeStart(p) \/ Pipe2Fails(p) \/ \E x \in Pipes : PipeDone(p, x)
        \/ \E i \in Ufds : Close(p, i) \/ Dup(p, i)
        \/ Closed(p) \/ Dup3Done(p) \/ \E i, j \in Ufds : Dup3(p, i, j)
        \/ \E q \in Procs : Fork(p, q)
        \/ Exit(p) \/ Recycle(p) \/ Exited(p)
    BY <1>2, Zenon DEF Next
  <2> QED
    BY Zenon, FreeDecStep, FreeZeroStep, FreeBitStep, OpenStartStep, AllocFailsStep, AllocStep, GiveUpStep,
       OpenFileStep, PipeStartStep, PipeDoneStep, CloseStep, DupStep, ClosedStep, Dup3DoneStep,
       Dup3Step, ForkStep, ExitStep, RecycleStep, ExitedStep
<1> QED
  BY <1>1, <1>2, Zenon

LEMMA Always == ~BadOld => (Spec => []IInv)
<1> SUFFICES ASSUME ~BadOld PROVE Spec => []IInv
  BY Zenon
<1>1. IInv /\ [Next]_vars => IInv'
  BY NextStep, Zenon
<1> QED
  BY <1>1, InitStep, PTL DEF Spec

\* fdAlloc(), cloneAddCite() and freeFd(): with any number of processes the
\* count of a kernel descriptor is the number of entries and calls that have it.
THEOREM DescriptorCountsExact == ~BadOld => (Spec => []RefcountExact)
<1> SUFFICES ASSUME ~BadOld PROVE Spec => []RefcountExact
  BY Zenon
<1>1. IInv => RefcountExact
  BY CountsAreRefcounts, Zenon DEF IInv
<1> QED
  BY <1>1, Always, PTL

\* dev_close(): a file or pipe is closed once for each descriptor opened on it.
THEOREM ObjectCountsExact == ~BadOld => (Spec => []ObjectsExact)
<1> SUFFICES ASSUME ~BadOld PROVE Spec => []ObjectsExact
  BY Zenon
<1>1. IInv => ObjectsExact
  BY ObjectsAreExact, Zenon DEF IInv
<1> QED
  BY <1>1, Always, PTL

\* freeFd(): a descriptor whose bit is given back is in no table any more.
THEOREM FreedDescriptorsUnreachable == ~BadOld => (Spec => []FreedIsUnreachable)
<1> SUFFICES ASSUME ~BadOld PROVE Spec => []FreedIsUnreachable
  BY Zenon
<1>1. IInv => FreedIsUnreachable
  <2> SUFFICES ASSUME IInv, NEW p \in alive, NEW i \in Ufds, IsOpen(p, i), Refers(p, i, fdList[p][i])
               PROVE  fdList[p][i] \in fdBitMap
    BY Zenon DEF FreedIsUnreachable
  <2>1. p \in Procs /\ fdList[p][i] \in Kfds /\ Val(p, i) = fdList[p][i]
    BY Zenon DEF IInv, Types, IsOpen, Val
  <2>2. fds[fdList[p][i]].refcnt # 0
    BY <2>1, Referred, Zenon DEF IInv
  <2> QED
    BY <2>1, <2>2, Untouched, Zenon
<1> QED
  BY <1>1, Always, PTL
=============================================================================
