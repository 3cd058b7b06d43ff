---------------------------- MODULE SchedPlaces ----------------------------
(***************************************************************************)
(* Proofs about the thread layer, part 2: where the threads are            *)
(* (the inductive invariant PlaceInv, on top of LockInv).                  *)
(***************************************************************************)
EXTENDS SchedLocks

\* CPU c runs thread t, or has it in its hands on the way to or from a queue.
On(c, t) == running[c] = t \/ td[c] = t
OnCpu(t) == \E c \in Cpus : On(c, t)

\* A thread is in the hands of one CPU at most.
Alone ==
    /\ \A c \in Cpus : td[c] # None => pc[c] \in {"sr_enter", "fk_runq"} /\ td[c] # running[c]
    /\ \A c, d \in Cpus : \A t \in Threads : On(c, t) /\ On(d, t) => c = d

\* A thread is RUNNING while its CPU is not yet leaving it.
Runs ==
    \A c \in Cpus, t \in Threads :
        /\ running[c] = t /\ pc[c] \notin {"schedule", "ex_free"} => status[t] = "RUNNING"
        /\ td[c] = t /\ pc[c] = "fk_runq" => status[t] = "RUNNABLE"

\* No RUNNING or RUNNABLE thread is forgotten.
Reached ==
    \A t \in Threads :
        /\ status[t] = "RUNNING" => \E c \in Cpus : running[c] = t
        /\ status[t] = "RUNNABLE" => InSeq(t, runq) \/ \E c \in Cpus : On(c, t) \/ InSeq(t, ready[c])

\* Threads that are ready to run have been left by their CPU and are linked once.
InRunq == NoDup(runq) /\ \A t \in Threads : InSeq(t, runq) => status[t] = "RUNNABLE" /\ ~OnCpu(t)
InReady ==
    \A c \in Cpus :
        /\ pc[c] # "wk_scan" => ready[c] = <<>>
        /\ NoDup(ready[c])
        /\ \A t \in Threads : InSeq(t, ready[c]) => status[t] = "RUNNABLE" /\ ~OnCpu(t) /\ ~InSeq(t, runq)

InSleepq == NoDup(sleepq) /\ \A t \in Threads : InSeq(t, sleepq) <=> status[t] = "SLEEPING"
InFreeq ==
    /\ NoDup(freeq) /\ \A t \in Threads : InSeq(t, freeq) => status[t] = "UNUSED"
    /\ \A c \in Cpus : pc[c] = "ex_free" => ~InSeq(running[c], freeq)

\* A thread that can be switched to has a context.
Saved ==
    \A t \in Threads : status[t] \in {"RUNNABLE", "SLEEPING"} /\ (\A c \in Cpus : running[c] # t) =>
        ctx[t].pc # "dead"

\* An idle CPU has no thread.
Idles == \A c \in Cpus : idle[c] => running[c] = None /\ td[c] = None

PlaceInv ==
    Alone /\ Runs /\ Reached /\ InRunq /\ InReady /\ InSleepq /\ InFreeq /\ Saved /\ Idles

-----------------------------------------------------------------------------
(***************************************************************************)
(* Members of queues                                                       *)
(***************************************************************************)
LEMMA InEmpty == NoDup(<<>>) /\ \A t : ~InSeq(t, <<>>)
  BY DEF NoDup, InSeq

LEMMA InAppend ==
  ASSUME NEW S, NEW s \in Seq(S), NEW x \in S
  PROVE  /\ \A t : InSeq(t, Append(s, x)) <=> InSeq(t, s) \/ t = x
         /\ NoDup(s) /\ ~InSeq(x, s) => NoDup(Append(s, x))
<1>1. /\ Len(Append(s, x)) = Len(s) + 1 /\ Len(s) \in Nat
      /\ \A i \in 1..Len(s) : Append(s, x)[i] = s[i]
      /\ Append(s, x)[Len(s) + 1] = x
  OBVIOUS
<1>2. ASSUME NEW t PROVE InSeq(t, Append(s, x)) <=> InSeq(t, s) \/ t = x
  BY <1>1 DEF InSeq
<1>3. NoDup(s) /\ ~InSeq(x, s) => NoDup(Append(s, x))
  BY <1>1 DEF InSeq, NoDup
<1> QED BY <1>2, <1>3, Zenon

LEMMA InTail ==
  ASSUME NEW S, NEW s \in Seq(S), s # <<>>
  PROVE  /\ InSeq(Head(s), s)
         /\ NoDup(s) => NoDup(Tail(s)) /\ \A t : InSeq(t, Tail(s)) <=> InSeq(t, s) /\ t # Head(s)
<1>1. /\ Len(s) \in Nat /\ Len(s) # 0 /\ Head(s) = s[1] /\ Len(Tail(s)) = Len(s) - 1
      /\ \A i \in 1..Len(s) - 1 : Tail(s)[i] = s[i + 1]
  OBVIOUS
<1>2. InSeq(Head(s), s)
  BY <1>1 DEF InSeq
<1>3. ASSUME NoDup(s) PROVE NoDup(Tail(s))
  BY <1>1, <1>3 DEF NoDup
<1>4. ASSUME NoDup(s), NEW t PROVE InSeq(t, Tail(s)) <=> InSeq(t, s) /\ t # Head(s)
  <2>1. ASSUME NEW i \in 1..Len(s), s[i] = t, t # Head(s) PROVE InSeq(t, Tail(s))
    <3>1. i - 1 \in 1..Len(s) - 1 /\ Tail(s)[i - 1] = s[i]
      BY <1>1, <2>1
    <3> QED BY <1>1, <2>1, <3>1, Zenon DEF InSeq
  <2>2. ASSUME NEW i \in 1..Len(s) - 1, Tail(s)[i] = t PROVE InSeq(t, s) /\ t # Head(s)
    BY <1>1, <1>4, <2>2 DEF InSeq, NoDup
  <2> QED BY <1>1, <2>1, <2>2, Zenon DEF InSeq
<1> QED BY <1>2, <1>3, <1>4, Zenon

LEMMA InConcat ==
  ASSUME NEW S, NEW s \in Seq(S), NEW r \in Seq(S)
  PROVE  /\ \A t : InSeq(t, s \o r) <=> InSeq(t, s) \/ InSeq(t, r)
         /\ NoDup(s) /\ NoDup(r) /\ (\A t \in S : ~(InSeq(t, s) /\ InSeq(t, r))) => NoDup(s \o r)
<1>1. /\ Len(s) \in Nat /\ Len(r) \in Nat /\ Len(s \o r) = Len(s) + Len(r)
      /\ \A i \in 1..Len(s) : (s \o r)[i] = s[i] /\ s[i] \in S
      /\ \A i \in 1..Len(s) + Len(r) : i > Len(s) => (s \o r)[i] = r[i - Len(s)] /\ i - Len(s) \in 1..Len(r)
  OBVIOUS
<1>2. \A j \in 1..Len(r) : (s \o r)[Len(s) + j] = r[j] /\ Len(s) + j \in 1..Len(s) + Len(r)
  BY <1>1
<1>3. ASSUME NEW t PROVE InSeq(t, s \o r) <=> InSeq(t, s) \/ InSeq(t, r)
  BY <1>1, <1>2, SMTT(60) DEF InSeq
<1>4. ASSUME NoDup(s), NoDup(r), \A t \in S : ~(InSeq(t, s) /\ InSeq(t, r)) PROVE NoDup(s \o r)
  <2> SUFFICES ASSUME NEW i \in 1..Len(s) + Len(r), NEW j \in 1..Len(s) + Len(r), (s \o r)[i] = (s \o r)[j] PROVE i = j
    BY <1>1, Zenon DEF NoDup
  <2>1. CASE i <= Len(s) /\ j <= Len(s)
    BY <1>1, <1>4, <2>1 DEF NoDup
  <2>2. CASE i > Len(s) /\ j > Len(s)
    BY <1>1, <1>4, <2>2 DEF NoDup
  <2>0. ASSUME NEW k \in 1..Len(s), NEW l \in 1..Len(r) PROVE s[k] # r[l]
    <3>1. s[k] \in S /\ InSeq(s[k], s)
      BY <1>1, Zenon DEF InSeq
    <3>2. InSeq(r[l], r)
      BY Zenon DEF InSeq
    <3> QED BY <3>1, <3>2, <1>4, Zenon
  <2>3. CASE i <= Len(s) /\ j > Len(s)
    <3>1. i \in 1..Len(s)
      BY <1>1, <2>3
    <3>2. (s \o r)[i] = s[i] /\ (s \o r)[j] = r[j - Len(s)] /\ j - Len(s) \in 1..Len(r)
      BY <1>1, <3>1, <2>3, Zenon
    <3> QED BY <2>0, <3>1, <3>2, Zenon
  <2>4. CASE i > Len(s) /\ j <= Len(s)
    <3>1. j \in 1..Len(s)
      BY <1>1, <2>4
    <3>2. (s \o r)[j] = s[j] /\ (s \o r)[i] = r[i - Len(s)] /\ i - Len(s) \in 1..Len(r)
      BY <1>1, <3>1, <2>4, Zenon
    <3> QED BY <2>0, <3>1, <3>2, Zenon
  <2>5. (i <= Len(s) \/ i > Len(s)) /\ (j <= Len(s) \/ j > Len(s))
    BY <1>1
  <2> QED BY <2>1, <2>2, <2>3, <2>4, <2>5, Zenon
<1> QED BY <1>3, <1>4, Zenon

LEMMA InPush ==
  ASSUME NEW S, NEW s \in Seq(S), NEW x \in S
  PROVE  /\ \A t : InSeq(t, <<x>> \o s) <=> InSeq(t, s) \/ t = x
         /\ NoDup(s) /\ ~InSeq(x, s) => NoDup(<<x>> \o s)
<1>1. <<x>> \in Seq(S) /\ Len(<<x>>) = 1 /\ <<x>>[1] = x
  OBVIOUS
<1>2. NoDup(<<x>>) /\ \A t : InSeq(t, <<x>>) <=> t = x
  BY <1>1 DEF NoDup, InSeq
<1>3. /\ \A t : InSeq(t, <<x>> \o s) <=> InSeq(t, <<x>>) \/ InSeq(t, s)
      /\ NoDup(<<x>>) /\ NoDup(s) /\ (\A t \in S : ~(InSeq(t, <<x>>) /\ InSeq(t, s))) => NoDup(<<x>> \o s)
  BY <1>1, InConcat, Zenon
<1>4. ASSUME NEW t PROVE InSeq(t, <<x>> \o s) <=> InSeq(t, s) \/ t = x
  BY <1>2, <1>3, Zenon
<1>5. NoDup(s) /\ ~InSeq(x, s) => NoDup(<<x>> \o s)
  BY <1>2, <1>3
<1> QED BY <1>4, <1>5, Zenon

LEMMA InUnlink ==
  ASSUME NEW S, NEW s \in Seq(S), NEW i \in Nat \ {0}, i <= Len(s), NoDup(s)
  PROVE  /\ \A t : InSeq(t, Unlink(s, i)) <=> InSeq(t, s) /\ t # s[i]
         /\ NoDup(Unlink(s, i))
         /\ \A j \in 1..Len(Unlink(s, i)) : j < i => j \in 1..Len(s) /\ Unlink(s, i)[j] = s[j]
<1>0. PICK a \in Seq(S), b \in Seq(S) :
         /\ Unlink(s, i) = a \o b
         /\ Len(s) \in Nat /\ i \in 1..Len(s)
         /\ Len(a) = i - 1 /\ \A j \in 1..i - 1 : a[j] = s[j]
         /\ Len(b) = Len(s) - i /\ \A j \in 1..Len(s) - i : b[j] = s[i + j]
  <2>1. /\ SubSeq(s, 1, i - 1) \in Seq(S) /\ Len(SubSeq(s, 1, i - 1)) = i - 1
        /\ \A j \in 1..i - 1 : SubSeq(s, 1, i - 1)[j] = s[j]
    OBVIOUS
  <2>2. /\ SubSeq(s, i + 1, Len(s)) \in Seq(S) /\ Len(SubSeq(s, i + 1, Len(s))) = Len(s) - i
        /\ \A j \in 1..Len(s) - i : SubSeq(s, i + 1, Len(s))[j] = s[i + j]
    OBVIOUS
  <2>3. Len(s) \in Nat /\ i \in 1..Len(s)
    OBVIOUS
  <2> WITNESS SubSeq(s, 1, i - 1) \in Seq(S), SubSeq(s, i + 1, Len(s)) \in Seq(S)
  <2> QED BY <2>1, <2>2, <2>3, Zenon DEF Unlink
<1> DEFINE u == Unlink(s, i)
<1> HIDE DEF u
<1>b. /\ u \in Seq(S) /\ Len(u) = Len(a) + Len(b)
      /\ \A j \in 1..Len(a) : u[j] = a[j]
      /\ \A j \in 1..Len(b) : u[Len(a) + j] = b[j]
  <2>1. /\ a \o b \in Seq(S) /\ Len(a \o b) = Len(a) + Len(b)
        /\ \A j \in 1..Len(a) : (a \o b)[j] = a[j]
        /\ \A j \in 1..Len(b) : (a \o b)[Len(a) + j] = b[j]
    OBVIOUS
  <2> QED BY <1>0, <2>1, Zenon DEF u
<1>c. ASSUME NEW j \in 1..Len(s) - 1, j >= i PROVE u[j] = s[j + 1]
  <2>1. j - (i - 1) \in 1..Len(s) - i
    BY <1>0, <1>c
  <2>2. u[i - 1 + (j - (i - 1))] = s[i + (j - (i - 1))]
    BY <1>0, <1>b, <2>1, Zenon
  <2>3. i - 1 + (j - (i - 1)) = j /\ i + (j - (i - 1)) = j + 1
    BY <1>0
  <2> QED BY <2>2, <2>3, Zenon
<1>1. /\ Len(s) \in Nat /\ i \in 1..Len(s) /\ u \in Seq(S) /\ Len(u) = Len(s) - 1
      /\ \A j \in 1..Len(s) - 1 : u[j] = IF j < i THEN s[j] ELSE s[j + 1]
  BY <1>0, <1>b, <1>c, SMTT(60)
<1>2. ASSUME NEW t PROVE InSeq(t, u) <=> InSeq(t, s) /\ t # s[i]
  <2>1. ASSUME NEW j \in 1..Len(s), s[j] = t, t # s[i] PROVE InSeq(t, u)
    <3>1. CASE j < i
      BY <1>1, <2>1, <3>1, SMTT(60) DEF InSeq
    <3>2. CASE j > i
      <4>1. j - 1 \in 1..Len(s) - 1 /\ u[j - 1] = s[j]
        BY <1>1, <3>2
      <4> QED BY <1>1, <2>1, <4>1, Zenon DEF InSeq
    <3> QED BY <1>1, <2>1, <3>1, <3>2
  <2>2. ASSUME NEW j \in 1..Len(s) - 1, u[j] = t PROVE InSeq(t, s) /\ t # s[i]
    BY <1>1, <2>2, SMTT(60) DEF InSeq, NoDup
  <2> QED BY <1>1, <2>1, <2>2, Zenon DEF InSeq
<1>3. NoDup(u)
  BY <1>1, SMTT(60) DEF NoDup
<1>4. ASSUME NEW j \in 1..Len(u), j < i PROVE j \in 1..Len(s) /\ u[j] = s[j]
  BY <1>1, <1>4
<1> QED BY <1>2, <1>3, <1>4, Zenon DEF u

LEMMA InLink ==
  ASSUME NEW S, NEW s \in Seq(S), NEW x \in S, NEW i \in 1..Len(s) + 1, NoDup(s), ~InSeq(x, s)
  PROVE  /\ \A t : InSeq(t, LinkAt(s, i, x)) <=> InSeq(t, s) \/ t = x
         /\ NoDup(LinkAt(s, i, x))
<1>0. PICK a \in Seq(S), b \in Seq(S) :
         /\ LinkAt(s, i, x) = a \o <<x>> \o b
         /\ Len(s) \in Nat
         /\ Len(a) = i - 1 /\ \A j \in 1..i - 1 : a[j] = s[j]
         /\ Len(b) = Len(s) - i + 1 /\ \A j \in 1..Len(s) - i + 1 : b[j] = s[i + j - 1]
  <2>1. /\ SubSeq(s, 1, i - 1) \in Seq(S) /\ Len(SubSeq(s, 1, i - 1)) = i - 1
        /\ \A j \in 1..i - 1 : SubSeq(s, 1, i - 1)[j] = s[j]
    OBVIOUS
  <2>2. /\ SubSeq(s, i, Len(s)) \in Seq(S) /\ Len(SubSeq(s, i, Len(s))) = Len(s) - i + 1
        /\ \A j \in 1..Len(s) - i + 1 : SubSeq(s, i, Len(s))[j] = s[i + j - 1]
    OBVIOUS
  <2>3. Len(s) \in Nat
    OBVIOUS
  <2> WITNESS SubSeq(s, 1, i - 1) \in Seq(S), SubSeq(s, i, Len(s)) \in Seq(S)
  <2> QED BY <2>1, <2>2, <2>3, Zenon DEF LinkAt
<1> DEFINE u == LinkAt(s, i, x)
<1> HIDE DEF u
<1>b. PICK e \in Seq(S) :
         /\ e = a \o <<x>> /\ Len(e) = i
         /\ \A j \in 1..i - 1 : e[j] = s[j]
         /\ e[i] = x
  <2>1. /\ a \o <<x>> \in Seq(S) /\ Len(a \o <<x>>) = i
        /\ \A j \in 1..i - 1 : (a \o <<x>>)[j] = s[j]
        /\ (a \o <<x>>)[i] = x
    <3>1. /\ a \o <<x>> \in Seq(S) /\ Len(a \o <<x>>) = Len(a) + 1
          /\ \A j \in 1..Len(a) : (a \o <<x>>)[j] = a[j]
          /\ (a \o <<x>>)[Len(a) + 1] = x
      OBVIOUS
    <3>2. i - 1 + 1 = i
      BY <1>0
    <3> QED BY <1>0, <3>1, <3>2, Zenon
  <2> WITNESS a \o <<x>> \in Seq(S)
  <2> QED BY <2>1, Zenon
<1>c. /\ u \in Seq(S) /\ Len(u) = Len(e) + Len(b)
      /\ \A j \in 1..Len(e) : u[j] = e[j]
      /\ \A j \in 1..Len(b) : u[Len(e) + j] = b[j]
  <2>1. /\ e \o b \in Seq(S) /\ Len(e \o b) = Len(e) + Len(b)
        /\ \A j \in 1..Len(e) : (e \o b)[j] = e[j]
        /\ \A j \in 1..Len(b) : (e \o b)[Len(e) + j] = b[j]
    OBVIOUS
  <2> QED BY <1>0, <1>b, <2>1, Zenon DEF u
<1>d. ASSUME NEW j \in 1..Len(s) + 1, j > i PROVE u[j] = s[j - 1]
  <2>1. j - i \in 1..Len(s) - i + 1
    BY <1>0, <1>d
  <2>2. u[i + (j - i)] = s[i + (j - i) - 1]
    <3>1. b[j - i] = s[i + (j - i) - 1] /\ j - i \in 1..Len(b)
      BY <1>0, <2>1, Zenon
    <3>2. u[Len(e) + (j - i)] = b[j - i]
      BY <1>c, <3>1, Zenon
    <3> QED BY <1>b, <3>1, <3>2, Zenon
  <2>3. i + (j - i) = j
    BY <1>0
  <2> QED BY <2>2, <2>3
<1>1. /\ Len(s) \in Nat /\ u \in Seq(S) /\ Len(u) = Len(s) + 1
      /\ \A j \in 1..Len(s) + 1 : j < i => u[j] = s[j] /\ j \in 1..Len(s)
      /\ u[i] = x
      /\ \A j \in 1..Len(s) + 1 : j > i => u[j] = s[j - 1] /\ j - 1 \in 1..Len(s)
  <2>1. Len(s) \in Nat /\ u \in Seq(S) /\ Len(u) = Len(s) + 1
    BY <1>0, <1>b, <1>c
  <2>2. ASSUME NEW j \in 1..Len(s) + 1, j < i PROVE u[j] = s[j] /\ j \in 1..Len(s)
    <3>1. j \in 1..i /\ j \in 1..i - 1 /\ j \in 1..Len(s)
      BY <1>0, <2>2
    <3> QED BY <1>b, <1>c, <3>1, Zenon
  <2>3. u[i] = x
    <3>1. i \in 1..i
      BY <1>0, SMTT(60)
    <3> QED BY <1>b, <1>c, <3>1, Zenon
  <2>4. \A j \in 1..Len(s) + 1 : j > i => u[j] = s[j - 1] /\ j - 1 \in 1..Len(s)
    BY <1>0, <1>d, SMTT(60)
  <2> QED BY <2>1, <2>2, <2>3, <2>4, Zenon
<1>2. ASSUME NEW t PROVE InSeq(t, u) <=> InSeq(t, s) \/ t = x
  <2>1. ASSUME NEW j \in 1..Len(s), s[j] = t PROVE InSeq(t, u)
    <3>1. CASE j < i
      <4>1. j \in 1..Len(s) + 1 /\ u[j] = s[j]
        BY <1>1, <3>1
      <4> QED BY <1>1, <2>1, <4>1, Zenon DEF InSeq
    <3>2. CASE j >= i
      <4>1. j + 1 \in 1..Len(s) + 1 /\ j + 1 > i /\ (j + 1) - 1 = j
        BY <1>1, <3>2
      <4>2. u[j + 1] = s[j]
        BY <1>1, <4>1, Zenon
      <4> QED BY <1>1, <2>1, <4>1, <4>2, Zenon DEF InSeq
    <3> QED BY <1>1, <2>1, <3>1, <3>2, SMTT(60)
  <2>2. ASSUME NEW j \in 1..Len(s) + 1, u[j] = t, t # x PROVE InSeq(t, s)
    <3>1. j < i \/ j = i \/ j > i
      BY <1>1
    <3>2. j # i
      BY <1>1, <2>2, Zenon
    <3>3. CASE j < i
      BY <1>1, <2>2, <3>3, Zenon DEF InSeq
    <3>4. CASE j > i
      BY <1>1, <2>2, <3>4, Zenon DEF InSeq
    <3> QED BY <3>1, <3>2, <3>3, <3>4, Zenon
  <2>3. InSeq(x, u)
    BY <1>1, Zenon DEF InSeq
  <2> QED BY <1>1, <2>1, <2>2, <2>3, Zenon DEF InSeq
<1>3. NoDup(u)
  <2> SUFFICES ASSUME NEW j \in 1..Len(s) + 1, NEW k \in 1..Len(s) + 1, u[j] = u[k] PROVE j = k
    BY <1>1, Zenon DEF NoDup
  <2>1. \A l \in 1..Len(s) : s[l] # x
    BY Zenon DEF InSeq
  <2>2. ASSUME NEW l \in 1..Len(s) + 1, l # i PROVE u[l] # x
    <3>1. CASE l < i
      BY <1>1, <2>1, <3>1, Zenon
    <3>2. CASE l > i
      BY <1>1, <2>1, <3>2, Zenon
    <3> QED BY <1>1, <2>2, <3>1, <3>2, SMTT(60)
  <2>3. CASE j = i \/ k = i
    BY <1>1, <2>2, <2>3, Zenon
  <2>4. CASE j < i /\ k < i
    BY <1>1, <2>4, Zenon DEF NoDup
  <2>5. CASE j > i /\ k > i
    <3>1. j - 1 \in 1..Len(s) /\ k - 1 \in 1..Len(s) /\ s[j - 1] = s[k - 1]
      BY <1>1, <2>5, Zenon
    <3>2. j - 1 = k - 1
      BY <3>1, Zenon DEF NoDup
    <3> QED BY <1>1, <3>2
  <2>6. CASE j < i /\ k > i
    <3>1. j \in 1..Len(s) /\ k - 1 \in 1..Len(s) /\ s[j] = s[k - 1]
      BY <1>1, <2>6, Zenon
    <3> QED BY <2>6, <3>1 DEF NoDup
  <2>7. CASE j > i /\ k < i
    <3>1. j - 1 \in 1..Len(s) /\ k \in 1..Len(s) /\ s[j - 1] = s[k]
      BY <1>1, <2>7, Zenon
    <3> QED BY <2>7, <3>1 DEF NoDup
  <2> QED BY <2>3, <2>4, <2>5, <2>6, <2>7, SMTT(60)
<1> QED BY <1>2, <1>3, Zenon DEF u

-----------------------------------------------------------------------------
(***************************************************************************)
(* Steps that move no thread                                               *)
(***************************************************************************)
USE DEF Goto, At, InUser, cpuVars, threadVars, lockVars, mutexVars, queueVars

\* Where a CPU has a thread in its hands or is leaving one.
Passing == {"schedule", "ex_free", "sr_enter", "fk_runq"}

\* A step of CPU c that moves no thread.
Stays(c) ==
    /\ UNCHANGED <<running, td, ready, status, ctx, runq, sleepq, freeq>>
    /\ pc[c] \notin Passing /\ pc'[c] \notin Passing
    /\ pc[c] = "wk_scan" => pc'[c] = "wk_scan"
    /\ \/ idle' = idle
       \/ running[c] = None /\ td[c] = None

\* The actions that move none.
StillStep(c) ==
    \/ SrHalt(c) \/ SrIdle(c) \/ IdleLeave(c) \/ Resume(c) \/ SleepEnter(c) \/ SleepReturn(c)
    \/ RelockClaim(c) \/ RelockSleep(c) \/ RelockTimed(c) \/ WakeEnter(c) \/ WakeSkip(c) \/ NanoSleep(c)
    \/ TimerInt(c) \/ TcExpire(c) \/ TcDone(c) \/ TdAllocFail(c) \/ TdAlloc(c)
    \/ \E m \in Mutexes : MtxReenter(c, m) \/ MtxClaim(c, m) \/ MtxBlock(c, m) \/ MtxReleave(c, m) \/ MtxRelease(c, m)

LEMMA StaysStep ==
  ASSUME LockInv, PlaceInv, NEW c \in Cpus, StillStep(c)
  PROVE  Stays(c)
<1> /\ pc \in [Cpus -> Locations] /\ running \in [Cpus -> Threads \cup {None}]
    /\ idle \in [Cpus -> BOOLEAN] /\ td \in [Cpus -> Threads \cup {None}]
    /\ ready \in [Cpus -> Seq(Threads)]
  BY Zenon DEF LockInv, TypeOK, CpuTypes
<1>0. pc[c] = "sr_loop" => running[c] = None /\ td[c] = None
  BY Zenon DEF LockInv, CpuInv, LocalsSet, PlaceInv, Alone
<1>1. CASE SrHalt(c)
  BY <1>1, <1>0, Zenon DEF SrHalt, Stays, Passing
<1>2. CASE SrIdle(c)
  BY <1>2, <1>0, Zenon DEF SrIdle, Stays, Passing
<1>3. CASE IdleLeave(c)
  BY <1>3, Zenon DEF IdleLeave, Stays, Passing
<1>4. CASE Resume(c)
  BY <1>4, Zenon DEF Resume, Stays, Passing
<1>5. CASE SleepEnter(c)
  BY <1>5, Zenon DEF SleepEnter, Stays, Passing
<1>6. CASE SleepReturn(c)
  BY <1>6, Zenon DEF SleepReturn, Stays, Passing
<1>7. CASE RelockClaim(c)
  BY <1>7, Zenon DEF RelockClaim, Stays, Passing
<1>8. CASE RelockSleep(c)
  BY <1>8, Zenon DEF RelockSleep, Stays, Passing
<1>9. CASE RelockTimed(c)
  BY <1>9, Zenon DEF RelockTimed, Stays, Passing
<1>10. CASE WakeEnter(c)
  <2>1. ready[c] = <<>>
    BY <1>10, Zenon DEF WakeEnter, PlaceInv, InReady
  <2>2. ready' = ready
    BY <1>10, <2>1, Zenon DEF WakeEnter
  <2> QED BY <1>10, <2>2, Zenon DEF WakeEnter, Stays, Passing
<1>11. CASE WakeSkip(c)
  BY <1>11, Zenon DEF WakeSkip, Stays, Passing
<1>12. CASE NanoSleep(c)
  BY <1>12, Zenon DEF NanoSleep, Stays, Passing
<1>13. CASE TimerInt(c)
  BY <1>13, Zenon DEF TimerInt, Stays, Passing
<1>14. CASE TcExpire(c)
  BY <1>14, Zenon DEF TcExpire, Stays, Passing
<1>15. CASE TcDone(c)
  BY <1>15, Zenon DEF TcDone, Stays, Passing
<1>16. CASE TdAllocFail(c)
  BY <1>16, Zenon DEF TdAllocFail, Stays, Passing
<1>17. CASE TdAlloc(c)
  BY <1>17, Zenon DEF TdAlloc, Stays, Passing
<1>18. ASSUME NEW m \in Mutexes, MtxReenter(c, m) PROVE Stays(c)
  BY <1>18, Zenon DEF MtxReenter, Stays, Passing
<1>19. ASSUME NEW m \in Mutexes, MtxClaim(c, m) PROVE Stays(c)
  BY <1>19, Zenon DEF MtxClaim, Stays, Passing
<1>20. ASSUME NEW m \in Mutexes, MtxBlock(c, m) PROVE Stays(c)
  BY <1>20, Zenon DEF MtxBlock, Stays, Passing
<1>21. ASSUME NEW m \in Mutexes, MtxReleave(c, m) PROVE Stays(c)
  BY <1>21, Zenon DEF MtxReleave, Stays, Passing
<1>22. ASSUME NEW m \in Mutexes, MtxRelease(c, m) PROVE Stays(c)
  BY <1>22, Zenon DEF MtxRelease, Stays, Passing
<1> QED
  BY <1>1, <1>2, <1>3, <1>4, <1>5, <1>6, <1>7, <1>8, <1>9, <1>10, <1>11, <1>12, <1>13, <1>14, <1>15, <1>16, <1>17, <1>18, <1>19, <1>20, <1>21, <1>22, Zenon
     DEF StillStep

\* A CPU takes into its hands only a thread that no other has in its.
LEMMA AloneStep ==
  ASSUME Alone, NEW c \in Cpus, \A d \in Cpus : d # c => Kept(d),
         td'[c] # None => pc'[c] \in {"sr_enter", "fk_runq"} /\ td'[c] # running'[c],
         \A d \in Cpus, t \in Threads : d # c /\ On(c, t)' => ~On(d, t)
  PROVE  Alone'
<1>1. \A d \in Cpus : td'[d] # None => pc'[d] \in {"sr_enter", "fk_runq"} /\ td'[d] # running'[d]
  BY Zenon DEF Alone, Kept
<1>2. \A d \in Cpus, t \in Threads : d # c => (On(d, t)' <=> On(d, t))
  BY Zenon DEF Kept, On
<1>3. ASSUME NEW d \in Cpus, NEW e \in Cpus, NEW t \in Threads, On(d, t)', On(e, t)' PROVE d = e
  BY <1>2, <1>3, Zenon DEF Alone
<1> QED BY <1>1, <1>3, Zenon DEF Alone

LEMMA RunsStep ==
  ASSUME Runs, NEW c \in Cpus, \A d \in Cpus : d # c => Kept(d),
         \A t \in Threads : /\ running'[c] = t /\ pc'[c] \notin {"schedule", "ex_free"} => status'[t] = "RUNNING"
                            /\ td'[c] = t /\ pc'[c] = "fk_runq" => status'[t] = "RUNNABLE",
         \A d \in Cpus, t \in Threads : d # c /\ On(d, t) => status'[t] = status[t]
  PROVE  Runs'
<1> SUFFICES ASSUME NEW d \in Cpus, NEW t \in Threads, d # c
             PROVE  /\ running'[d] = t /\ pc'[d] \notin {"schedule", "ex_free"} => status'[t] = "RUNNING"
                    /\ td'[d] = t /\ pc'[d] = "fk_runq" => status'[t] = "RUNNABLE"
  BY Zenon DEF Runs
<1>1. pc'[d] = pc[d] /\ running'[d] = running[d] /\ td'[d] = td[d]
  BY Zenon DEF Kept
<1>2. running[d] = t \/ td[d] = t => status'[t] = status[t]
  BY Zenon DEF On
<1>3. /\ running[d] = t /\ pc[d] \notin {"schedule", "ex_free"} => status[t] = "RUNNING"
      /\ td[d] = t /\ pc[d] = "fk_runq" => status[t] = "RUNNABLE"
  BY Zenon DEF Runs
<1> QED BY <1>1, <1>2, <1>3, Zenon

\* A thread that leaves the hands of a CPU or a queue enters another.
LEMMA ReachedStep ==
  ASSUME Reached, NEW c \in Cpus, \A d \in Cpus : d # c => Kept(d),
         \A t \in Threads : status'[t] = "RUNNING" =>
            running'[c] = t \/ (status[t] = "RUNNING" /\ running[c] # t),
         \A t \in Threads : status'[t] = "RUNNABLE" =>
            \/ InSeq(t, runq') \/ On(c, t)' \/ InSeq(t, ready'[c])
            \/ status[t] = "RUNNABLE" /\ ~InSeq(t, runq) /\ ~On(c, t) /\ ~InSeq(t, ready[c])
  PROVE  Reached'
<1>1. ASSUME NEW t \in Threads, status'[t] = "RUNNING" PROVE \E d \in Cpus : running'[d] = t
  <2>1. CASE running'[c] = t
    BY <2>1, Zenon
  <2>2. CASE status[t] = "RUNNING" /\ running[c] # t
    <3>1. PICK d \in Cpus : running[d] = t
      BY <2>2, Zenon DEF Reached
    <3> QED BY <2>2, <3>1, Zenon DEF Kept
  <2> QED BY <1>1, <2>1, <2>2, Zenon
<1>2. ASSUME NEW t \in Threads, status'[t] = "RUNNABLE"
      PROVE  InSeq(t, runq') \/ \E d \in Cpus : On(d, t)' \/ InSeq(t, ready'[d])
  <2>1. CASE InSeq(t, runq') \/ On(c, t)' \/ InSeq(t, ready'[c])
    BY <2>1, Zenon
  <2>2. CASE status[t] = "RUNNABLE" /\ ~InSeq(t, runq) /\ ~On(c, t) /\ ~InSeq(t, ready[c])
    <3>1. PICK d \in Cpus : On(d, t) \/ InSeq(t, ready[d])
      BY <2>2, Zenon DEF Reached
    <3>2. Kept(d)
      BY <2>2, <3>1, Zenon
    <3>3. On(d, t)' \/ InSeq(t, ready'[d])
      BY <3>1, <3>2, Zenon DEF Kept, On
    <3> QED BY <3>3, Zenon
  <2> QED BY <1>2, <2>1, <2>2, Zenon
<1> QED BY <1>1, <1>2, Zenon DEF Reached

\* A thread that is ready to run stays in its queue until its CPU takes it.
LEMMA RunqStep ==
  ASSUME InRunq, NEW c \in Cpus, \A d \in Cpus : d # c => Kept(d), NoDup(runq'),
         \A t \in Threads : InSeq(t, runq') =>
            InSeq(t, runq) /\ status'[t] = status[t] /\ ~On(c, t)'
  PROVE  InRunq'
<1>1. ASSUME NEW t \in Threads, InSeq(t, runq') PROVE status'[t] = "RUNNABLE" /\ ~OnCpu(t)'
  <2>1. status[t] = "RUNNABLE" /\ ~OnCpu(t) /\ status'[t] = status[t] /\ ~On(c, t)'
    BY <1>1, Zenon DEF InRunq
  <2>2. \A d \in Cpus : d # c => ~On(d, t)'
    BY <2>1, Zenon DEF OnCpu, On, Kept
  <2> QED BY <2>1, <2>2, Zenon DEF OnCpu
<1> QED BY <1>1, Zenon DEF InRunq

LEMMA ReadyStep ==
  ASSUME InReady, NEW c \in Cpus, \A d \in Cpus : d # c => Kept(d),
         ready'[c] = ready[c], pc'[c] # "wk_scan" => pc[c] # "wk_scan",
         \A t \in Threads : status[t] = "RUNNABLE" /\ ~OnCpu(t) /\ ~InSeq(t, runq) =>
            status'[t] = "RUNNABLE" /\ ~On(c, t)' /\ ~InSeq(t, runq')
  PROVE  InReady'
<1> SUFFICES ASSUME NEW d \in Cpus
             PROVE  /\ pc'[d] # "wk_scan" => ready'[d] = <<>>
                    /\ NoDup(ready'[d])
                    /\ \A t \in Threads : InSeq(t, ready'[d]) => status'[t] = "RUNNABLE" /\ ~OnCpu(t)' /\ ~InSeq(t, runq')
  BY Zenon DEF InReady
<1>1. ready'[d] = ready[d] /\ (pc'[d] # "wk_scan" => pc[d] # "wk_scan")
  BY Zenon DEF Kept
<1>2. ASSUME NEW t \in Threads, InSeq(t, ready[d]) PROVE status'[t] = "RUNNABLE" /\ ~OnCpu(t)' /\ ~InSeq(t, runq')
  <2>1. status[t] = "RUNNABLE" /\ ~OnCpu(t) /\ ~InSeq(t, runq)
    BY <1>2, Zenon DEF InReady
  <2>2. \A e \in Cpus : e # c => ~On(e, t)'
    BY <2>1, Zenon DEF OnCpu, On, Kept
  <2> QED BY <2>1, <2>2, Zenon DEF OnCpu
<1> QED BY <1>1, <1>2, Zenon DEF InReady

LEMMA FreeStep ==
  ASSUME InFreeq, NEW c \in Cpus, \A d \in Cpus : d # c => Kept(d), NoDup(freeq'),
         \A t \in Threads : InSeq(t, freeq') => status'[t] = "UNUSED",
         pc'[c] = "ex_free" => ~InSeq(running'[c], freeq'),
         \A d \in Cpus : d # c /\ InSeq(running[d], freeq') => InSeq(running[d], freeq)
  PROVE  InFreeq'
<1>1. ASSUME NEW d \in Cpus, d # c, pc'[d] = "ex_free" PROVE ~InSeq(running'[d], freeq')
  BY <1>1, Zenon DEF InFreeq, Kept
<1> QED BY <1>1, Zenon DEF InFreeq

LEMMA PlacesStay ==
  ASSUME LockInv, PlaceInv, NEW c \in Cpus, Stays(c),
         \A d \in Cpus : d # c => pc'[d] = pc[d] /\ idle'[d] = idle[d]
  PROVE  PlaceInv'
<1> USE DEF Stays, Passing
<1>1. Alone'
  BY Zenon DEF PlaceInv, Alone, On
<1>2. Runs'
  BY Zenon DEF PlaceInv, Runs
<1>3. Reached'
  BY Zenon DEF PlaceInv, Reached, On
<1>4. InRunq'
  BY Zenon DEF PlaceInv, InRunq, OnCpu, On
<1>5. InReady'
  BY Zenon DEF PlaceInv, InReady, OnCpu, On
<1>6. InSleepq'
  BY Zenon DEF PlaceInv, InSleepq
<1>7. InFreeq'
  BY Zenon DEF PlaceInv, InFreeq
<1>8. Saved'
  BY Zenon DEF PlaceInv, Saved
<1>9. Idles'
  BY Zenon DEF PlaceInv, Idles
<1> QED
  BY <1>1, <1>2, <1>3, <1>4, <1>5, <1>6, <1>7, <1>8, <1>9, Zenon DEF PlaceInv

-----------------------------------------------------------------------------
(***************************************************************************)
(* Steps that move a thread                                               *)
(***************************************************************************)

LEMMA PlacesYield ==
  ASSUME LockInv, PlaceInv, NEW c \in Cpus, Yield(c)
  PROVE  PlaceInv'
<1> USE NoneAssumption
<1>0. /\ pc \in [Cpus -> Locations] /\ running \in [Cpus -> Threads \cup {None}]
      /\ idle \in [Cpus -> BOOLEAN] /\ td \in [Cpus -> Threads \cup {None}]
      /\ ready \in [Cpus -> Seq(Threads)] /\ status \in [Threads -> Statuses]
      /\ ctx \in [Threads -> [pc : ResumePoints, chan : Chans \cup {None}]]
  BY Zenon DEF LockInv, TypeOK, CpuTypes, ThreadTypes
<1>1. \A d \in Cpus : d # c => Kept(d)
  BY OthersStill, Zenon DEF CpuStep
<1>2. running[c] \in Threads /\ status[running[c]] = "RUNNING" /\ td[c] = None
  BY RunningThread, Zenon DEF Yield, ThreadLocs, PlaceInv, Runs, Alone
<1>3. \A d \in Cpus : d # c => running[d] # running[c] /\ td[d] # running[c]
  BY <1>2, Zenon DEF PlaceInv, Alone, On
<1>4. pc[c] # "wk_scan" /\ pc'[c] = "schedule" /\ UNCHANGED <<running, idle, td, ready, ctx, runq, sleepq, freeq>>
  BY <1>0, Zenon DEF Yield
<1>5. status'[running[c]] = "RUNNABLE" /\ \A u \in Threads : u # running[c] => status'[u] = status[u]
  BY <1>0, <1>2, Zenon DEF Yield
<1>11. Alone'
  <2>1. td'[c] # None => pc'[c] \in {"sr_enter", "fk_runq"} /\ td'[c] # running'[c]
    BY <1>1, <1>2, <1>3, <1>4, <1>5, Zenon DEF PlaceInv, Alone
  <2>2. \A d \in Cpus, t \in Threads : d # c /\ On(c, t)' => ~On(d, t)
    BY <1>1, <1>2, <1>3, <1>4, <1>5, Zenon DEF PlaceInv, Alone, OnCpu, On
  <2> QED BY <1>1, <2>1, <2>2, AloneStep, Zenon DEF PlaceInv
<1>12. Runs'
  <2>1. \A t \in Threads : /\ running'[c] = t /\ pc'[c] \notin {"schedule", "ex_free"} => status'[t] = "RUNNING"
                           /\ td'[c] = t /\ pc'[c] = "fk_runq" => status'[t] = "RUNNABLE"
    BY <1>2, <1>3, <1>4, <1>5, Zenon DEF PlaceInv, Runs, ResumePoints
  <2>2. \A d \in Cpus, t \in Threads : d # c /\ On(d, t) => status'[t] = status[t]
    BY <1>2, <1>3, <1>4, <1>5, Zenon DEF OnCpu, On
  <2> QED BY <1>1, <2>1, <2>2, RunsStep, Zenon DEF PlaceInv
<1>13. Reached'
  <2>1. \A t \in Threads : status'[t] = "RUNNING" => running'[c] = t \/ (status[t] = "RUNNING" /\ running[c] # t)
    BY <1>2, <1>3, <1>4, <1>5, Zenon
  <2>2. \A t \in Threads : status'[t] = "RUNNABLE" =>
           \/ InSeq(t, runq') \/ On(c, t)' \/ InSeq(t, ready'[c])
           \/ status[t] = "RUNNABLE" /\ ~InSeq(t, runq) /\ ~On(c, t) /\ ~InSeq(t, ready[c])
    BY <1>2, <1>3, <1>4, <1>5, Zenon DEF On
  <2> QED BY <1>1, <2>1, <2>2, ReachedStep, Zenon DEF PlaceInv
<1>14. InRunq'
  <2>1. NoDup(runq')
    BY <1>2, <1>3, <1>4, <1>5, Zenon DEF PlaceInv, InRunq
  <2>2. \A t \in Threads : InSeq(t, runq') => InSeq(t, runq) /\ status'[t] = status[t] /\ ~On(c, t)'
    BY <1>2, <1>3, <1>4, <1>5, Zenon DEF PlaceInv, InRunq, OnCpu, On
  <2> QED BY <1>1, <2>1, <2>2, RunqStep, Zenon DEF PlaceInv
<1>15. InReady'
  <2>1. ready'[c] = ready[c] /\ (pc'[c] # "wk_scan" => pc[c] # "wk_scan")
    BY <1>2, <1>3, <1>4, <1>5, Zenon DEF ResumePoints
  <2>2. \A t \in Threads : status[t] = "RUNNABLE" /\ ~OnCpu(t) /\ ~InSeq(t, runq) =>
           status'[t] = "RUNNABLE" /\ ~On(c, t)' /\ ~InSeq(t, runq')
    BY <1>2, <1>3, <1>4, <1>5, Zenon DEF OnCpu, On
  <2> QED BY <1>1, <2>1, <2>2, ReadyStep, Zenon DEF PlaceInv
<1>16. InSleepq'
  BY <1>2, <1>3, <1>4, <1>5, Zenon DEF PlaceInv, InSleepq
<1>17. InFreeq'
  <2>1. NoDup(freeq') /\ \A t \in Threads : InSeq(t, freeq') => status'[t] = "UNUSED"
    BY <1>2, <1>3, <1>4, <1>5, Zenon DEF PlaceInv, InFreeq
  <2>2. /\ pc'[c] = "ex_free" => ~InSeq(running'[c], freeq')
        /\ \A d \in Cpus : d # c /\ InSeq(running[d], freeq') => InSeq(running[d], freeq)
    BY <1>2, <1>3, <1>4, <1>5, Zenon DEF PlaceInv, InFreeq, ResumePoints
  <2> QED BY <1>1, <2>1, <2>2, FreeStep, Zenon DEF PlaceInv
<1>18. Saved'
  BY <1>1, <1>2, <1>3, <1>4, <1>5, Zenon DEF PlaceInv, Saved, Kept
<1>19. Idles'
  BY <1>1, <1>2, <1>3, <1>4, <1>5, Zenon DEF PlaceInv, Idles, Kept
<1> QED
  BY <1>11, <1>12, <1>13, <1>14, <1>15, <1>16, <1>17, <1>18, <1>19, Zenon DEF PlaceInv

LEMMA PlacesSchedule ==
  ASSUME LockInv, PlaceInv, NEW c \in Cpus, Schedule(c)
  PROVE  PlaceInv'
<1> USE NoneAssumption
<1>0. /\ pc \in [Cpus -> Locations] /\ running \in [Cpus -> Threads \cup {None}]
      /\ idle \in [Cpus -> BOOLEAN] /\ td \in [Cpus -> Threads \cup {None}]
      /\ ready \in [Cpus -> Seq(Threads)] /\ status \in [Threads -> Statuses]
      /\ ctx \in [Threads -> [pc : ResumePoints, chan : Chans \cup {None}]]
  BY Zenon DEF LockInv, TypeOK, CpuTypes, ThreadTypes
<1>1. \A d \in Cpus : d # c => Kept(d)
  BY OthersStill, Zenon DEF CpuStep
<1>2. running[c] \in Threads /\ status[running[c]] # "RUNNING" /\ td[c] = None
  BY RunningThread, Zenon DEF Schedule, ThreadLocs, LockInv, CpuInv, Leaving, PlaceInv, Alone
<1>3. \A d \in Cpus : d # c => running[d] # running[c] /\ td[d] # running[c]
  BY <1>2, Zenon DEF PlaceInv, Alone, On
<1>4. /\ pc[c] = "schedule" /\ pc'[c] = "sr_enter" /\ running'[c] = None /\ td'[c] = running[c]
      /\ UNCHANGED <<idle, ready, status, runq, sleepq, freeq>>
  BY <1>0, Zenon DEF Schedule
<1>5. /\ status[running[c]] \in {"RUNNABLE", "SLEEPING"} => ctx'[running[c]].pc # "dead"
      /\ \A u \in Threads : u # running[c] => ctx'[u] = ctx[u]
  BY <1>0, <1>2, Zenon DEF Schedule, ResumePoint
<1>11. Alone'
  <2>1. td'[c] # None => pc'[c] \in {"sr_enter", "fk_runq"} /\ td'[c] # running'[c]
    BY <1>1, <1>2, <1>3, <1>4, <1>5, Zenon DEF PlaceInv, Alone
  <2>2. \A d \in Cpus, t \in Threads : d # c /\ On(c, t)' => ~On(d, t)
    BY <1>1, <1>2, <1>3, <1>4, <1>5, Zenon DEF PlaceInv, Alone, OnCpu, On
  <2> QED BY <1>1, <2>1, <2>2, AloneStep, Zenon DEF PlaceInv
<1>12. Runs'
  <2>1. \A t \in Threads : /\ running'[c] = t /\ pc'[c] \notin {"schedule", "ex_free"} => status'[t] = "RUNNING"
                           /\ td'[c] = t /\ pc'[c] = "fk_runq" => status'[t] = "RUNNABLE"
    BY <1>2, <1>3, <1>4, <1>5, Zenon DEF PlaceInv, Runs, ResumePoints
  <2>2. \A d \in Cpus, t \in Threads : d # c /\ On(d, t) => status'[t] = status[t]
    BY <1>2, <1>3, <1>4, <1>5, Zenon DEF OnCpu, On
  <2> QED BY <1>1, <2>1, <2>2, RunsStep, Zenon DEF PlaceInv
<1>13. Reached'
  <2>1. \A t \in Threads : status'[t] = "RUNNING" => running'[c] = t \/ (status[t] = "RUNNING" /\ running[c] # t)
    BY <1>2, <1>3, <1>4, <1>5, Zenon
  <2>2. \A t \in Threads : status'[t] = "RUNNABLE" =>
           \/ InSeq(t, runq') \/ On(c, t)' \/ InSeq(t, ready'[c])
           \/ status[t] = "RUNNABLE" /\ ~InSeq(t, runq) /\ ~On(c, t) /\ ~InSeq(t, ready[c])
    BY <1>2, <1>3, <1>4, <1>5, Zenon DEF On
  <2> QED BY <1>1, <2>1, <2>2, ReachedStep, Zenon DEF PlaceInv
<1>14. InRunq'
  <2>1. NoDup(runq')
    BY <1>2, <1>3, <1>4, <1>5, Zenon DEF PlaceInv, InRunq
  <2>2. \A t \in Threads : InSeq(t, runq') => InSeq(t, runq) /\ status'[t] = status[t] /\ ~On(c, t)'
    BY <1>2, <1>3, <1>4, <1>5, ZenonT(60) DEF PlaceInv, InRunq, OnCpu, On
  <2> QED BY <1>1, <2>1, <2>2, RunqStep, Zenon DEF PlaceInv
<1>15. InReady'
  <2>1. ready'[c] = ready[c] /\ (pc'[c] # "wk_scan" => pc[c] # "wk_scan")
    BY <1>2, <1>3, <1>4, <1>5, Zenon DEF ResumePoints
  <2>2. \A t \in Threads : status[t] = "RUNNABLE" /\ ~OnCpu(t) /\ ~InSeq(t, runq) =>
           status'[t] = "RUNNABLE" /\ ~On(c, t)' /\ ~InSeq(t, runq')
    BY <1>2, <1>3, <1>4, <1>5, Zenon DEF OnCpu, On
  <2> QED BY <1>1, <2>1, <2>2, ReadyStep, Zenon DEF PlaceInv
<1>16. InSleepq'
  BY <1>1, <1>2, <1>3, <1>4, <1>5, Zenon DEF PlaceInv, InSleepq, Kept
<1>17. InFreeq'
  <2>1. NoDup(freeq') /\ \A t \in Threads : InSeq(t, freeq') => status'[t] = "UNUSED"
    BY <1>2, <1>3, <1>4, <1>5, Zenon DEF PlaceInv, InFreeq
  <2>2. /\ pc'[c] = "ex_free" => ~InSeq(running'[c], freeq')
        /\ \A d \in Cpus : d # c /\ InSeq(running[d], freeq') => InSeq(running[d], freeq)
    BY <1>2, <1>3, <1>4, <1>5, Zenon DEF PlaceInv, InFreeq, ResumePoints
  <2> QED BY <1>1, <2>1, <2>2, FreeStep, Zenon DEF PlaceInv
<1>18. Saved'
  <2> SUFFICES ASSUME NEW u \in Threads, status[u] \in {"RUNNABLE", "SLEEPING"}, \A d \in Cpus : running'[d] # u
               PROVE  ctx'[u].pc # "dead"
    BY <1>4, Zenon DEF Saved
  <2>1. CASE u = running[c]
    BY <1>5, <2>1, Zenon
  <2>2. CASE u # running[c]
    <3>1. \A d \in Cpus : running[d] # u
      BY <1>1, <2>2, Zenon DEF Kept
    <3>2. ctx[u].pc # "dead"
      BY <3>1, Zenon DEF PlaceInv, Saved
    <3> QED BY <1>5, <2>2, <3>2, Zenon
  <2> QED BY <2>1, <2>2, Zenon
<1>19. Idles'
  BY <1>1, <1>2, <1>3, <1>4, <1>5, Zenon DEF PlaceInv, Idles, Kept
<1> QED
  BY <1>11, <1>12, <1>13, <1>14, <1>15, <1>16, <1>17, <1>18, <1>19, Zenon DEF PlaceInv

LEMMA PlacesEnter ==
  ASSUME LockInv, PlaceInv, NEW c \in Cpus, SrEnter(c)
  PROVE  PlaceInv'
<1> USE NoneAssumption
<1>0. /\ pc \in [Cpus -> Locations] /\ running \in [Cpus -> Threads \cup {None}]
      /\ idle \in [Cpus -> BOOLEAN] /\ td \in [Cpus -> Threads \cup {None}]
      /\ ready \in [Cpus -> Seq(Threads)] /\ status \in [Threads -> Statuses]
      /\ ctx \in [Threads -> [pc : ResumePoints, chan : Chans \cup {None}]]
  BY Zenon DEF LockInv, TypeOK, CpuTypes, ThreadTypes
<1>1. \A d \in Cpus : d # c => Kept(d)
  BY OthersStill, Zenon DEF CpuStep
<1>2. td[c] # None => td[c] \in Threads /\ OnCpu(td[c]) /\ running[c] # td[c]
  BY <1>0, Zenon DEF PlaceInv, Alone, OnCpu, On
<1>3. td[c] # None => \A d \in Cpus : d # c => running[d] # td[c] /\ td[d] # td[c]
  BY <1>2, Zenon DEF PlaceInv, Alone, On
<1>4. /\ pc[c] = "sr_enter" /\ pc'[c] = "sr_loop" /\ td'[c] = None
      /\ UNCHANGED <<running, idle, ready, status, ctx, sleepq, freeq>>
  BY <1>0, Zenon DEF SrEnter
<1>5. /\ \A u \in Threads : InSeq(u, runq') <=> InSeq(u, runq) \/ (u = td[c] /\ status[u] = "RUNNABLE")
      /\ NoDup(runq')
  <2>1. CASE td[c] = None \/ status[td[c]] # "RUNNABLE"
    BY <2>1, Zenon DEF SrEnter, PlaceInv, InRunq
  <2>2. CASE td[c] # None /\ status[td[c]] = "RUNNABLE"
    <3>1. runq' = Append(runq, td[c]) /\ ~InSeq(td[c], runq) /\ NoDup(runq)
      BY <1>2, <2>2, Zenon DEF SrEnter, PlaceInv, InRunq
    <3>2. runq \in Seq(Threads)
      BY Zenon DEF LockInv, TypeOK, QueueTypes
    <3>3. /\ \A u : InSeq(u, Append(runq, td[c])) <=> InSeq(u, runq) \/ u = td[c]
          /\ NoDup(Append(runq, td[c]))
      BY <1>2, <2>2, <3>1, <3>2, InAppend, ZenonT(60)
    <3> QED BY <2>2, <3>1, <3>3, Zenon
  <2> QED BY <2>1, <2>2, Zenon
<1>11. Alone'
  <2>1. td'[c] # None => pc'[c] \in {"sr_enter", "fk_runq"} /\ td'[c] # running'[c]
    BY <1>1, <1>2, <1>3, <1>4, <1>5, Zenon DEF PlaceInv, Alone
  <2>2. \A d \in Cpus, t \in Threads : d # c /\ On(c, t)' => ~On(d, t)
    BY <1>1, <1>2, <1>3, <1>4, <1>5, Zenon DEF PlaceInv, Alone, OnCpu, On
  <2> QED BY <1>1, <2>1, <2>2, AloneStep, Zenon DEF PlaceInv
<1>12. Runs'
  <2>1. \A t \in Threads : /\ running'[c] = t /\ pc'[c] \notin {"schedule", "ex_free"} => status'[t] = "RUNNING"
                           /\ td'[c] = t /\ pc'[c] = "fk_runq" => status'[t] = "RUNNABLE"
    BY <1>2, <1>3, <1>4, <1>5, Zenon DEF PlaceInv, Runs, ResumePoints
  <2>2. \A d \in Cpus, t \in Threads : d # c /\ On(d, t) => status'[t] = status[t]
    BY <1>2, <1>3, <1>4, <1>5, Zenon DEF OnCpu, On
  <2> QED BY <1>1, <2>1, <2>2, RunsStep, Zenon DEF PlaceInv
<1>13. Reached'
  <2>1. \A u \in Threads, d \in Cpus : On(d, u) => On(d, u)' \/ u = td[c]
    BY <1>1, <1>4, Zenon DEF On, Kept
  <2> QED BY <1>4, <1>5, <2>1, Zenon DEF PlaceInv, Reached
<1>14. InRunq'
  <2>1. \A u \in Threads, d \in Cpus : On(d, u)' => On(d, u) /\ u # td[c]
    <3> SUFFICES ASSUME NEW u \in Threads, NEW d \in Cpus, On(d, u)' PROVE On(d, u) /\ u # td[c]
      BY Zenon
    <3>1. CASE d = c
      BY <1>2, <1>4, <3>1, Zenon DEF On
    <3>2. CASE d # c
      BY <1>1, <1>3, <1>4, <3>2, Zenon DEF On, Kept
    <3> QED BY <3>1, <3>2, Zenon
  <2> QED BY <1>4, <1>5, <2>1, Zenon DEF PlaceInv, InRunq, OnCpu
<1>15. InReady'
  <2>1. ready'[c] = ready[c] /\ (pc'[c] # "wk_scan" => pc[c] # "wk_scan")
    BY <1>2, <1>3, <1>4, <1>5, Zenon DEF ResumePoints
  <2>2. \A t \in Threads : status[t] = "RUNNABLE" /\ ~OnCpu(t) /\ ~InSeq(t, runq) =>
           status'[t] = "RUNNABLE" /\ ~On(c, t)' /\ ~InSeq(t, runq')
    BY <1>2, <1>3, <1>4, <1>5, Zenon DEF OnCpu, On
  <2> QED BY <1>1, <2>1, <2>2, ReadyStep, Zenon DEF PlaceInv
<1>16. InSleepq'
  BY <1>1, <1>2, <1>3, <1>4, <1>5, Zenon DEF PlaceInv, InSleepq, Kept
<1>17. InFreeq'
  <2>1. NoDup(freeq') /\ \A t \in Threads : InSeq(t, freeq') => status'[t] = "UNUSED"
    BY <1>2, <1>3, <1>4, <1>5, Zenon DEF PlaceInv, InFreeq
  <2>2. /\ pc'[c] = "ex_free" => ~InSeq(running'[c], freeq')
        /\ \A d \in Cpus : d # c /\ InSeq(running[d], freeq') => InSeq(running[d], freeq)
    BY <1>2, <1>3, <1>4, <1>5, Zenon DEF PlaceInv, InFreeq, ResumePoints
  <2> QED BY <1>1, <2>1, <2>2, FreeStep, Zenon DEF PlaceInv
<1>18. Saved'
  BY <1>1, <1>2, <1>3, <1>4, <1>5, Zenon DEF PlaceInv, Saved, Kept
<1>19. Idles'
  BY <1>1, <1>2, <1>3, <1>4, <1>5, Zenon DEF PlaceInv, Idles, Kept
<1> QED
  BY <1>11, <1>12, <1>13, <1>14, <1>15, <1>16, <1>17, <1>18, <1>19, Zenon DEF PlaceInv

LEMMA PlacesPick ==
  ASSUME LockInv, PlaceInv, NEW c \in Cpus, Pick(c)
  PROVE  PlaceInv'
<1> USE NoneAssumption
<1>0. /\ pc \in [Cpus -> Locations] /\ running \in [Cpus -> Threads \cup {None}]
      /\ idle \in [Cpus -> BOOLEAN] /\ td \in [Cpus -> Threads \cup {None}]
      /\ ready \in [Cpus -> Seq(Threads)] /\ status \in [Threads -> Statuses]
      /\ ctx \in [Threads -> [pc : ResumePoints, chan : Chans \cup {None}]]
  BY Zenon DEF LockInv, TypeOK, CpuTypes, ThreadTypes
<1>1. \A d \in Cpus : d # c => Kept(d)
  BY OthersStill, Zenon DEF CpuStep
<1>2. Head(runq) \in Threads /\ InSeq(Head(runq), runq) /\ runq # <<>> /\ runq \in Seq(Threads)
  BY PickedThread, InTail, Zenon DEF Pick, LockInv, TypeOK, QueueTypes
<1>3. status[Head(runq)] = "RUNNABLE" /\ ~OnCpu(Head(runq)) /\ running[c] = None /\ td[c] = None
  BY <1>2, Zenon DEF Pick, PlaceInv, InRunq, Alone, LockInv, CpuInv, LocalsSet
<1>4. /\ pc[c] = "sr_loop" /\ pc'[c] \in ResumePoints /\ running'[c] = Head(runq) /\ idle'[c] = FALSE
      /\ UNCHANGED <<td, ready, ctx, sleepq, freeq>>
  BY <1>0, PickedThread, Zenon DEF Pick
<1>5. status'[Head(runq)] = "RUNNING" /\ \A u \in Threads : u # Head(runq) => status'[u] = status[u]
  BY <1>0, <1>2, Zenon DEF Pick
<1>6. NoDup(runq') /\ \A u : InSeq(u, runq') <=> InSeq(u, runq) /\ u # Head(runq)
  BY <1>2, InTail, Zenon DEF Pick, PlaceInv, InRunq
<1>11. Alone'
  <2>1. td'[c] # None => pc'[c] \in {"sr_enter", "fk_runq"} /\ td'[c] # running'[c]
    BY <1>1, <1>2, <1>3, <1>4, Zenon DEF PlaceInv, Alone
  <2>2. \A d \in Cpus, t \in Threads : d # c /\ On(c, t)' => ~On(d, t)
    BY <1>1, <1>2, <1>3, <1>4, Zenon DEF PlaceInv, Alone, OnCpu, On
  <2> QED BY <1>1, <2>1, <2>2, AloneStep, Zenon DEF PlaceInv
<1>12. Runs'
  <2>1. \A t \in Threads : /\ running'[c] = t /\ pc'[c] \notin {"schedule", "ex_free"} => status'[t] = "RUNNING"
                           /\ td'[c] = t /\ pc'[c] = "fk_runq" => status'[t] = "RUNNABLE"
    BY <1>2, <1>3, <1>4, <1>5, Zenon DEF PlaceInv, Runs, ResumePoints
  <2>2. \A d \in Cpus, t \in Threads : d # c /\ On(d, t) => status'[t] = status[t]
    BY <1>2, <1>3, <1>4, <1>5, Zenon DEF OnCpu, On
  <2> QED BY <1>1, <2>1, <2>2, RunsStep, Zenon DEF PlaceInv
<1>13. Reached'
  <2>1. \A t \in Threads : status'[t] = "RUNNING" => running'[c] = t \/ (status[t] = "RUNNING" /\ running[c] # t)
    BY <1>2, <1>3, <1>4, <1>5, <1>6, Zenon
  <2>2. \A t \in Threads : status'[t] = "RUNNABLE" =>
           \/ InSeq(t, runq') \/ On(c, t)' \/ InSeq(t, ready'[c])
           \/ status[t] = "RUNNABLE" /\ ~InSeq(t, runq) /\ ~On(c, t) /\ ~InSeq(t, ready[c])
    BY <1>2, <1>3, <1>4, <1>5, <1>6, Zenon DEF On
  <2> QED BY <1>1, <2>1, <2>2, ReachedStep, Zenon DEF PlaceInv
<1>14. InRunq'
  <2>1. NoDup(runq')
    BY <1>2, <1>3, <1>4, <1>5, <1>6, Zenon DEF PlaceInv, InRunq
  <2>2. \A t \in Threads : InSeq(t, runq') => InSeq(t, runq) /\ status'[t] = status[t] /\ ~On(c, t)'
    BY <1>2, <1>3, <1>4, <1>5, <1>6, Zenon DEF PlaceInv, InRunq, OnCpu, On
  <2> QED BY <1>1, <2>1, <2>2, RunqStep, Zenon DEF PlaceInv
<1>15. InReady'
  <2>1. ready'[c] = ready[c] /\ (pc'[c] # "wk_scan" => pc[c] # "wk_scan")
    BY <1>2, <1>3, <1>4, <1>5, <1>6, Zenon DEF ResumePoints
  <2>2. \A t \in Threads : status[t] = "RUNNABLE" /\ ~OnCpu(t) /\ ~InSeq(t, runq) =>
           status'[t] = "RUNNABLE" /\ ~On(c, t)' /\ ~InSeq(t, runq')
    BY <1>2, <1>3, <1>4, <1>5, <1>6, Zenon DEF OnCpu, On
  <2> QED BY <1>1, <2>1, <2>2, ReadyStep, Zenon DEF PlaceInv
<1>16. InSleepq'
  BY <1>1, <1>2, <1>3, <1>4, <1>5, <1>6, ZenonT(60) DEF PlaceInv, InSleepq, Kept
<1>17. InFreeq'
  <2>1. NoDup(freeq') /\ \A t \in Threads : InSeq(t, freeq') => status'[t] = "UNUSED"
    BY <1>2, <1>3, <1>4, <1>5, Zenon DEF PlaceInv, InFreeq
  <2>2. /\ pc'[c] = "ex_free" => ~InSeq(running'[c], freeq')
        /\ \A d \in Cpus : d # c /\ InSeq(running[d], freeq') => InSeq(running[d], freeq)
    BY <1>2, <1>3, <1>4, <1>5, Zenon DEF PlaceInv, InFreeq, ResumePoints
  <2> QED BY <1>1, <2>1, <2>2, FreeStep, Zenon DEF PlaceInv
<1>18. Saved'
  BY <1>1, <1>2, <1>3, <1>4, <1>5, <1>6, SMTT(60) DEF PlaceInv, Saved, Kept
<1>19. Idles'
  BY <1>1, <1>2, <1>3, <1>4, <1>5, <1>6, Zenon DEF PlaceInv, Idles, Kept
<1> QED
  BY <1>11, <1>12, <1>13, <1>14, <1>15, <1>16, <1>17, <1>18, <1>19, Zenon DEF PlaceInv

LEMMA PlacesSleep ==
  ASSUME LockInv, PlaceInv, NEW c \in Cpus, SleepTd(c)
  PROVE  PlaceInv'
<1> USE NoneAssumption
<1>0. /\ pc \in [Cpus -> Locations] /\ running \in [Cpus -> Threads \cup {None}]
      /\ idle \in [Cpus -> BOOLEAN] /\ td \in [Cpus -> Threads \cup {None}]
      /\ ready \in [Cpus -> Seq(Threads)] /\ status \in [Threads -> Statuses]
      /\ ctx \in [Threads -> [pc : ResumePoints, chan : Chans \cup {None}]]
  BY Zenon DEF LockInv, TypeOK, CpuTypes, ThreadTypes
<1>1. \A d \in Cpus : d # c => Kept(d)
  BY OthersStill, Zenon DEF CpuStep
<1>2. running[c] \in Threads /\ status[running[c]] = "RUNNING" /\ td[c] = None
  BY RunningThread, Zenon DEF SleepTd, ThreadLocs, PlaceInv, Runs, Alone
<1>3. \A d \in Cpus : d # c => running[d] # running[c] /\ td[d] # running[c]
  BY <1>2, Zenon DEF PlaceInv, Alone, On
<1>4. pc[c] = "sl_td" /\ pc'[c] = "schedule" /\ UNCHANGED <<running, idle, td, ready, ctx, runq, freeq>>
  BY <1>0, Zenon DEF SleepTd
<1>5. status'[running[c]] = "SLEEPING" /\ \A u \in Threads : u # running[c] => status'[u] = status[u]
  BY <1>0, <1>2, Zenon DEF SleepTd
<1>6. NoDup(sleepq') /\ \A u : InSeq(u, sleepq') <=> InSeq(u, sleepq) \/ u = running[c]
  <2>1. sleepq' = <<running[c]>> \o sleepq /\ ~InSeq(running[c], sleepq) /\ NoDup(sleepq)
    BY <1>2, Zenon DEF SleepTd, PlaceInv, InSleepq
  <2>2. sleepq \in Seq(Threads)
    BY Zenon DEF LockInv, TypeOK, QueueTypes
  <2>3. /\ \A u : InSeq(u, <<running[c]>> \o sleepq) <=> InSeq(u, sleepq) \/ u = running[c]
        /\ NoDup(<<running[c]>> \o sleepq)
    BY <1>2, <2>1, <2>2, InPush, Zenon
  <2> QED BY <2>1, <2>3, Zenon
<1>11. Alone'
  <2>1. td'[c] # None => pc'[c] \in {"sr_enter", "fk_runq"} /\ td'[c] # running'[c]
    BY <1>1, <1>2, <1>3, <1>4, <1>5, <1>6, Zenon DEF PlaceInv, Alone
  <2>2. \A d \in Cpus, t \in Threads : d # c /\ On(c, t)' => ~On(d, t)
    BY <1>1, <1>2, <1>3, <1>4, <1>5, <1>6, Zenon DEF PlaceInv, Alone, OnCpu, On
  <2> QED BY <1>1, <2>1, <2>2, AloneStep, Zenon DEF PlaceInv
<1>12. Runs'
  <2>1. \A t \in Threads : /\ running'[c] = t /\ pc'[c] \notin {"schedule", "ex_free"} => status'[t] = "RUNNING"
                           /\ td'[c] = t /\ pc'[c] = "fk_runq" => status'[t] = "RUNNABLE"
    BY <1>2, <1>3, <1>4, <1>5, <1>6, Zenon DEF PlaceInv, Runs, ResumePoints
  <2>2. \A d \in Cpus, t \in Threads : d # c /\ On(d, t) => status'[t] = status[t]
    BY <1>2, <1>3, <1>4, <1>5, <1>6, Zenon DEF OnCpu, On
  <2> QED BY <1>1, <2>1, <2>2, RunsStep, Zenon DEF PlaceInv
<1>13. Reached'
  <2>1. \A t \in Threads : status'[t] = "RUNNING" => running'[c] = t \/ (status[t] = "RUNNING" /\ running[c] # t)
    BY <1>2, <1>3, <1>4, <1>5, <1>6, Zenon
  <2>2. \A t \in Threads : status'[t] = "RUNNABLE" =>
           \/ InSeq(t, runq') \/ On(c, t)' \/ InSeq(t, ready'[c])
           \/ status[t] = "RUNNABLE" /\ ~InSeq(t, runq) /\ ~On(c, t) /\ ~InSeq(t, ready[c])
    BY <1>2, <1>3, <1>4, <1>5, <1>6, Zenon DEF On
  <2> QED BY <1>1, <2>1, <2>2, ReachedStep, Zenon DEF PlaceInv
<1>14. InRunq'
  <2>1. NoDup(runq')
    BY <1>2, <1>3, <1>4, <1>5, <1>6, Zenon DEF PlaceInv, InRunq
  <2>2. \A t \in Threads : InSeq(t, runq') => InSeq(t, runq) /\ status'[t] = status[t] /\ ~On(c, t)'
    BY <1>2, <1>3, <1>4, <1>5, <1>6, Zenon DEF PlaceInv, InRunq, OnCpu, On
  <2> QED BY <1>1, <2>1, <2>2, RunqStep, Zenon DEF PlaceInv
<1>15. InReady'
  <2>1. ready'[c] = ready[c] /\ (pc'[c] # "wk_scan" => pc[c] # "wk_scan")
    BY <1>2, <1>3, <1>4, <1>5, <1>6, Zenon DEF ResumePoints
  <2>2. \A t \in Threads : status[t] = "RUNNABLE" /\ ~OnCpu(t) /\ ~InSeq(t, runq) =>
           status'[t] = "RUNNABLE" /\ ~On(c, t)' /\ ~InSeq(t, runq')
    BY <1>2, <1>3, <1>4, <1>5, <1>6, Zenon DEF OnCpu, On
  <2> QED BY <1>1, <2>1, <2>2, ReadyStep, Zenon DEF PlaceInv
<1>16. InSleepq'
  BY <1>2, <1>3, <1>4, <1>5, <1>6, Zenon DEF PlaceInv, InSleepq
<1>17. InFreeq'
  <2>1. NoDup(freeq') /\ \A t \in Threads : InSeq(t, freeq') => status'[t] = "UNUSED"
    BY <1>2, <1>3, <1>4, <1>5, <1>6, Zenon DEF PlaceInv, InFreeq
  <2>2. /\ pc'[c] = "ex_free" => ~InSeq(running'[c], freeq')
        /\ \A d \in Cpus : d # c /\ InSeq(running[d], freeq') => InSeq(running[d], freeq)
    BY <1>2, <1>3, <1>4, <1>5, <1>6, Zenon DEF PlaceInv, InFreeq, ResumePoints
  <2> QED BY <1>1, <2>1, <2>2, FreeStep, Zenon DEF PlaceInv
<1>18. Saved'
  BY <1>1, <1>2, <1>3, <1>4, <1>5, <1>6, Zenon DEF PlaceInv, Saved, Kept
<1>19. Idles'
  BY <1>1, <1>2, <1>3, <1>4, <1>5, <1>6, Zenon DEF PlaceInv, Idles, Kept
<1> QED
  BY <1>11, <1>12, <1>13, <1>14, <1>15, <1>16, <1>17, <1>18, <1>19, Zenon DEF PlaceInv

\* A thread that does not run and whose td_lock is free has been left by its CPU.
LEMMA LeftThread ==
  ASSUME LockInv, PlaceInv, NEW t \in Threads, tdLock[t] = None, status[t] # "RUNNING"
  PROVE  ~OnCpu(t)
<1> SUFFICES ASSUME NEW c \in Cpus, On(c, t) PROVE FALSE
  BY Zenon DEF OnCpu
<1>0. c # None
  BY NoneAssumption, Zenon
<1>1. tdLock[t] = c <=> InThread(c, t)
  BY Zenon DEF LockInv, LockDiscipline, ThreadLocks
<1>2. CASE running[c] = t
  <2>1. pc[c] \in {"schedule", "ex_free"}
    BY <1>2, Zenon DEF PlaceInv, Runs
  <2> QED BY <1>0, <1>1, <1>2, <2>1, Zenon DEF InThread
<1>3. CASE td[c] = t
  <2>1. t # None
    BY NoneAssumption, Zenon
  <2>2. pc[c] \in {"sr_enter", "fk_runq"}
    BY <1>3, <2>1, Zenon DEF PlaceInv, Alone
  <2> QED BY <1>0, <1>1, <1>3, <2>2, Zenon DEF InThread
<1> QED BY <1>2, <1>3, Zenon DEF On

LEMMA PlacesTake ==
  ASSUME LockInv, PlaceInv, NEW c \in Cpus, WakeTake(c)
  PROVE  PlaceInv'
<1> USE NoneAssumption
<1>0. /\ pc \in [Cpus -> Locations] /\ running \in [Cpus -> Threads \cup {None}]
      /\ idle \in [Cpus -> BOOLEAN] /\ td \in [Cpus -> Threads \cup {None}]
      /\ ready \in [Cpus -> Seq(Threads)] /\ status \in [Threads -> Statuses]
      /\ ctx \in [Threads -> [pc : ResumePoints, chan : Chans \cup {None}]]
  BY Zenon DEF LockInv, TypeOK, CpuTypes, ThreadTypes
<1>1. \A d \in Cpus : d # c => Kept(d)
  BY OthersStill, Zenon DEF CpuStep
<1>2. sleepq[pos[c]] \in Threads /\ InSeq(sleepq[pos[c]], sleepq) /\ sleepq \in Seq(Threads) /\ pos[c] \in Nat \ {0} /\ pos[c] <= Len(sleepq)
  <2>1. sleepq \in Seq(Threads) /\ pos[c] \in Nat \ {0} /\ pos[c] <= Len(sleepq)
    BY Zenon DEF WakeTake, LockInv, TypeOK, QueueTypes, CpuTypes
  <2>2. InSeq(sleepq[pos[c]], sleepq)
    BY <2>1 DEF InSeq
  <2> QED BY <2>1, <2>2, ScannedThread, Zenon
<1>3. status[sleepq[pos[c]]] = "SLEEPING" /\ ~OnCpu(sleepq[pos[c]])
  <2>1. status[sleepq[pos[c]]] = "SLEEPING"
    BY <1>2, Zenon DEF PlaceInv, InSleepq
  <2> QED BY <1>2, <2>1, LeftThread, Zenon DEF WakeTake
<1>4. pc[c] = "wk_scan" /\ UNCHANGED <<pc, running, idle, td, ctx, runq, freeq>>
  BY <1>0, Zenon DEF WakeTake
<1>5. status'[sleepq[pos[c]]] = "RUNNABLE" /\ \A u \in Threads : u # sleepq[pos[c]] => status'[u] = status[u]
  BY <1>0, <1>2, Zenon DEF WakeTake
<1>6. NoDup(sleepq') /\ \A u : InSeq(u, sleepq') <=> InSeq(u, sleepq) /\ u # sleepq[pos[c]]
  <2>1. sleepq' = Unlink(sleepq, pos[c]) /\ NoDup(sleepq)
    BY Zenon DEF WakeTake, PlaceInv, InSleepq
  <2>2. /\ \A u : InSeq(u, Unlink(sleepq, pos[c])) <=> InSeq(u, sleepq) /\ u # sleepq[pos[c]]
        /\ NoDup(Unlink(sleepq, pos[c]))
    BY <1>2, <2>1, InUnlink, Zenon
  <2> QED BY <2>1, <2>2, Zenon
<1>7. NoDup(ready'[c]) /\ \A u : InSeq(u, ready'[c]) <=> InSeq(u, ready[c]) \/ u = sleepq[pos[c]]
  <2>1. ready'[c] = Append(ready[c], sleepq[pos[c]]) /\ NoDup(ready[c]) /\ ~InSeq(sleepq[pos[c]], ready[c])
    BY <1>0, <1>2, <1>3, Zenon DEF WakeTake, PlaceInv, InReady
  <2>2. /\ \A u : InSeq(u, Append(ready[c], sleepq[pos[c]])) <=> InSeq(u, ready[c]) \/ u = sleepq[pos[c]]
        /\ NoDup(Append(ready[c], sleepq[pos[c]]))
    BY <1>0, <1>2, <2>1, InAppend, SMTT(60)
  <2> QED BY <2>1, <2>2, Zenon
<1>11. Alone'
  BY <1>4, Zenon DEF PlaceInv, Alone, On
<1>12. Runs'
  <2>1. \A d \in Cpus : running[d] # sleepq[pos[c]] /\ td[d] # sleepq[pos[c]]
    BY <1>3, Zenon DEF OnCpu, On
  <2>2. Runs /\ pc' = pc /\ running' = running /\ td' = td
    BY <1>4, Zenon DEF PlaceInv
  <2>3. ASSUME NEW d \in Cpus, NEW t \in Threads
        PROVE  /\ running[d] = t /\ pc[d] \notin {"schedule", "ex_free"} => status'[t] = "RUNNING"
               /\ td[d] = t /\ pc[d] = "fk_runq" => status'[t] = "RUNNABLE"
    <3>1. CASE t = sleepq[pos[c]]
      BY <2>1, <3>1, Zenon
    <3>2. CASE t # sleepq[pos[c]]
      <4>1. status'[t] = status[t]
        BY <1>5, <3>2, Zenon
      <4> QED BY <2>2, <4>1, Zenon DEF Runs
    <3> QED BY <3>1, <3>2, Zenon
  <2> QED BY <2>2, <2>3, Zenon DEF Runs
<1>13. Reached'
  <2>1. \A t \in Threads : status'[t] = "RUNNING" => running'[c] = t \/ (status[t] = "RUNNING" /\ running[c] # t)
    BY <1>2, <1>3, <1>4, <1>5, <1>6, <1>7, Zenon
  <2>2. \A t \in Threads : status'[t] = "RUNNABLE" =>
           \/ InSeq(t, runq') \/ On(c, t)' \/ InSeq(t, ready'[c])
           \/ status[t] = "RUNNABLE" /\ ~InSeq(t, runq) /\ ~On(c, t) /\ ~InSeq(t, ready[c])
    BY <1>2, <1>3, <1>4, <1>5, <1>6, <1>7, Zenon DEF On
  <2> QED BY <1>1, <2>1, <2>2, ReachedStep, Zenon DEF PlaceInv
<1>14. InRunq'
  <2>1. NoDup(runq')
    BY <1>2, <1>3, <1>4, <1>5, <1>6, <1>7, Zenon DEF PlaceInv, InRunq
  <2>2. \A t \in Threads : InSeq(t, runq') => InSeq(t, runq) /\ status'[t] = status[t] /\ ~On(c, t)'
    BY <1>2, <1>3, <1>4, <1>5, <1>6, <1>7, Zenon DEF PlaceInv, InRunq, OnCpu, On
  <2> QED BY <1>1, <2>1, <2>2, RunqStep, Zenon DEF PlaceInv
<1>15. InReady'
  <2> SUFFICES ASSUME NEW d \in Cpus
               PROVE  /\ pc'[d] # "wk_scan" => ready'[d] = <<>>
                      /\ NoDup(ready'[d])
                      /\ \A t \in Threads : InSeq(t, ready'[d]) => status'[t] = "RUNNABLE" /\ ~OnCpu(t)' /\ ~InSeq(t, runq')
    BY Zenon DEF InReady
  <2>1. \A t : OnCpu(t)' <=> OnCpu(t)
    BY <1>4, Zenon DEF OnCpu, On
  <2>2. ~InSeq(sleepq[pos[c]], runq)
    BY <1>2, <1>3, Zenon DEF PlaceInv, InRunq
  <2>3. CASE d = c
    BY <1>2, <1>3, <1>4, <1>5, <1>7, <2>1, <2>2, <2>3, Zenon DEF PlaceInv, InReady
  <2>4. CASE d # c
    <3>1. ready'[d] = ready[d] /\ pc'[d] = pc[d]
      BY <1>1, <2>4, Zenon DEF Kept
    <3>2. \A t \in Threads : InSeq(t, ready[d]) => status'[t] = "RUNNABLE"
      BY <1>2, <1>3, <1>5, Zenon DEF PlaceInv, InReady
    <3> QED BY <1>4, <2>1, <3>1, <3>2, Zenon DEF PlaceInv, InReady
  <2> QED BY <2>3, <2>4, Zenon
<1>16. InSleepq'
  BY <1>2, <1>3, <1>4, <1>5, <1>6, <1>7, Zenon DEF PlaceInv, InSleepq
<1>17. InFreeq'
  <2>1. NoDup(freeq') /\ \A t \in Threads : InSeq(t, freeq') => status'[t] = "UNUSED"
    BY <1>2, <1>3, <1>4, <1>5, <1>6, <1>7, Zenon DEF PlaceInv, InFreeq
  <2>2. /\ pc'[c] = "ex_free" => ~InSeq(running'[c], freeq')
        /\ \A d \in Cpus : d # c /\ InSeq(running[d], freeq') => InSeq(running[d], freeq)
    BY <1>2, <1>3, <1>4, <1>5, <1>6, <1>7, Zenon DEF PlaceInv, InFreeq, ResumePoints
  <2> QED BY <1>1, <2>1, <2>2, FreeStep, Zenon DEF PlaceInv
<1>18. Saved'
  BY <1>1, <1>2, <1>3, <1>4, <1>5, <1>6, <1>7 DEF PlaceInv, Saved, Kept
<1>19. Idles'
  BY <1>1, <1>2, <1>3, <1>4, <1>5, <1>6, <1>7, Zenon DEF PlaceInv, Idles, Kept
<1> QED
  BY <1>11, <1>12, <1>13, <1>14, <1>15, <1>16, <1>17, <1>18, <1>19, Zenon DEF PlaceInv

LEMMA PlacesWake ==
  ASSUME LockInv, PlaceInv, NEW c \in Cpus, WakeDone(c), pc'[c] \in {"user", "tc_loop"}, \A d \in Cpus : d # c => Kept(d)
  PROVE  PlaceInv'
<1> USE NoneAssumption
<1>0. /\ pc \in [Cpus -> Locations] /\ running \in [Cpus -> Threads \cup {None}]
      /\ idle \in [Cpus -> BOOLEAN] /\ td \in [Cpus -> Threads \cup {None}]
      /\ ready \in [Cpus -> Seq(Threads)] /\ status \in [Threads -> Statuses]
      /\ ctx \in [Threads -> [pc : ResumePoints, chan : Chans \cup {None}]]
  BY Zenon DEF LockInv, TypeOK, CpuTypes, ThreadTypes
<1>2. pc[c] = "wk_scan" /\ \A d \in Cpus : d # c => ready[d] = <<>>
  <2>1. \A d \in Cpus : d # c => pc[d] # "wk_scan"
    BY DEF WakeDone, LockInv, LockDiscipline, QueueLocks, InCritical, Queues
  <2> QED BY <2>1, Zenon DEF WakeDone, PlaceInv, InReady
<1>3. ready'[c] = <<>> /\ UNCHANGED <<running, idle, td, status, ctx, sleepq, freeq>>
  BY <1>0, Zenon DEF WakeDone
<1>4. /\ \A u : InSeq(u, runq') <=> InSeq(u, runq) \/ InSeq(u, ready[c])
      /\ NoDup(runq')
  <2>1. runq' = runq \o ready[c] /\ NoDup(runq) /\ NoDup(ready[c])
    BY Zenon DEF WakeDone, PlaceInv, InRunq, InReady
  <2>2. \A u \in Threads : ~(InSeq(u, runq) /\ InSeq(u, ready[c]))
    BY Zenon DEF PlaceInv, InReady
  <2>3. runq \in Seq(Threads) /\ ready[c] \in Seq(Threads)
    BY <1>0, Zenon DEF LockInv, TypeOK, QueueTypes
  <2> QED BY <2>1, <2>2, <2>3, InConcat, Zenon
<1>11. Alone'
  BY <1>2, <1>3, <1>4, SMTT(60) DEF PlaceInv, Alone, On, Kept
<1>12. Runs'
  BY <1>2, <1>3, <1>4, SMTT(60) DEF PlaceInv, Runs, Kept
<1>13. Reached'
  <2>1. \A d \in Cpus, u \in Threads : InSeq(u, ready[d]) => InSeq(u, runq')
    BY <1>2, <1>4, InEmpty, Zenon
  <2> QED BY <1>3, <1>4, <2>1, Zenon DEF PlaceInv, Reached, On
<1>14. InRunq'
  BY <1>3, <1>4, Zenon DEF PlaceInv, InRunq, InReady, OnCpu, On
<1>15. InReady'
  <2>1. \A d \in Cpus : ready'[d] = <<>>
    BY <1>2, <1>3, Zenon DEF Kept
  <2> QED BY <2>1, InEmpty, Zenon DEF InReady
<1>16. InSleepq'
  BY <1>2, <1>3, <1>4, Zenon DEF PlaceInv, InSleepq, Kept
<1>17. InFreeq'
  BY <1>2, <1>3, <1>4, Zenon DEF PlaceInv, InFreeq, Kept
<1>18. Saved'
  BY <1>2, <1>3, <1>4, Zenon DEF PlaceInv, Saved, Kept
<1>19. Idles'
  BY <1>2, <1>3, <1>4, Zenon DEF PlaceInv, Idles, Kept
<1> QED
  BY <1>11, <1>12, <1>13, <1>14, <1>15, <1>16, <1>17, <1>18, <1>19, Zenon DEF PlaceInv

LEMMA PlacesAlloc ==
  ASSUME LockInv, PlaceInv, NEW c \in Cpus, TdAllocTd(c)
  PROVE  PlaceInv'
<1> USE NoneAssumption
<1>0. /\ pc \in [Cpus -> Locations] /\ running \in [Cpus -> Threads \cup {None}]
      /\ idle \in [Cpus -> BOOLEAN] /\ td \in [Cpus -> Threads \cup {None}]
      /\ ready \in [Cpus -> Seq(Threads)] /\ status \in [Threads -> Statuses]
      /\ ctx \in [Threads -> [pc : ResumePoints, chan : Chans \cup {None}]]
  BY Zenon DEF LockInv, TypeOK, CpuTypes, ThreadTypes
<1>1. \A d \in Cpus : d # c => Kept(d)
  BY OthersStill, Zenon DEF CpuStep
<1>2. Head(freeq) \in Threads /\ InSeq(Head(freeq), freeq) /\ freeq # <<>> /\ freeq \in Seq(Threads)
  <2>1. freeq # <<>> /\ freeq \in Seq(Threads)
    BY Zenon DEF TdAllocTd, LockInv, TypeOK, QueueTypes, FreeqInv
  <2> QED BY <2>1, NewThread, InTail, Zenon DEF TdAllocTd
<1>3. status[Head(freeq)] = "UNUSED" /\ ~OnCpu(Head(freeq)) /\ td[c] = None
  <2>1. status[Head(freeq)] = "UNUSED" /\ td[c] = None
    BY <1>2, Zenon DEF PlaceInv, InFreeq, Alone, TdAllocTd
  <2> QED BY <1>2, <2>1, LeftThread, Zenon DEF TdAllocTd
<1>4. /\ pc[c] = "ta_td" /\ pc'[c] = "fk_runq" /\ td'[c] = Head(freeq)
      /\ UNCHANGED <<running, idle, ready, runq, sleepq>>
  BY <1>0, Zenon DEF TdAllocTd
<1>5. status'[Head(freeq)] = "RUNNABLE" /\ \A u \in Threads : u # Head(freeq) => status'[u] = status[u]
  BY <1>0, <1>2, Zenon DEF TdAllocTd
<1>6. ctx'[Head(freeq)].pc = "first" /\ \A u \in Threads : u # Head(freeq) => ctx'[u] = ctx[u]
  BY <1>0, <1>2, Zenon DEF TdAllocTd
<1>7. NoDup(freeq') /\ \A u : InSeq(u, freeq') <=> InSeq(u, freeq) /\ u # Head(freeq)
  BY <1>2, InTail, Zenon DEF TdAllocTd, PlaceInv, InFreeq
<1>11. Alone'
  <2>1. td'[c] # None => pc'[c] \in {"sr_enter", "fk_runq"} /\ td'[c] # running'[c]
    BY <1>1, <1>2, <1>3, <1>4, Zenon DEF PlaceInv, Alone, OnCpu, On
  <2>2. \A d \in Cpus, t \in Threads : d # c /\ On(c, t)' => ~On(d, t)
    BY <1>1, <1>2, <1>3, <1>4, Zenon DEF PlaceInv, Alone, OnCpu, On
  <2> QED BY <1>1, <2>1, <2>2, AloneStep, Zenon DEF PlaceInv
<1>12. Runs'
  <2>1. \A t \in Threads : /\ running'[c] = t /\ pc'[c] \notin {"schedule", "ex_free"} => status'[t] = "RUNNING"
                           /\ td'[c] = t /\ pc'[c] = "fk_runq" => status'[t] = "RUNNABLE"
    BY <1>2, <1>3, <1>4, <1>5, Zenon DEF PlaceInv, Runs, ResumePoints
  <2>2. \A d \in Cpus, t \in Threads : d # c /\ On(d, t) => status'[t] = status[t]
    BY <1>2, <1>3, <1>4, <1>5, Zenon DEF OnCpu, On
  <2> QED BY <1>1, <2>1, <2>2, RunsStep, Zenon DEF PlaceInv
<1>13. Reached'
  <2>1. \A t \in Threads : status'[t] = "RUNNING" => running'[c] = t \/ (status[t] = "RUNNING" /\ running[c] # t)
    BY <1>2, <1>3, <1>4, <1>5, <1>6, <1>7, Zenon
  <2>2. \A t \in Threads : status'[t] = "RUNNABLE" =>
           \/ InSeq(t, runq') \/ On(c, t)' \/ InSeq(t, ready'[c])
           \/ status[t] = "RUNNABLE" /\ ~InSeq(t, runq) /\ ~On(c, t) /\ ~InSeq(t, ready[c])
    BY <1>2, <1>3, <1>4, <1>5, <1>6, <1>7, Zenon DEF On
  <2> QED BY <1>1, <2>1, <2>2, ReachedStep, Zenon DEF PlaceInv
<1>14. InRunq'
  <2>1. NoDup(runq')
    BY <1>2, <1>3, <1>4, <1>5, <1>6, <1>7, Zenon DEF PlaceInv, InRunq
  <2>2. \A t \in Threads : InSeq(t, runq') => InSeq(t, runq) /\ status'[t] = status[t] /\ ~On(c, t)'
    BY <1>2, <1>3, <1>4, <1>5, <1>6, <1>7, Zenon DEF PlaceInv, InRunq, OnCpu, On
  <2> QED BY <1>1, <2>1, <2>2, RunqStep, Zenon DEF PlaceInv
<1>15. InReady'
  <2>1. ready'[c] = ready[c] /\ (pc'[c] # "wk_scan" => pc[c] # "wk_scan")
    BY <1>2, <1>3, <1>4, <1>5, <1>6, <1>7, Zenon DEF ResumePoints
  <2>2. \A t \in Threads : status[t] = "RUNNABLE" /\ ~OnCpu(t) /\ ~InSeq(t, runq) =>
           status'[t] = "RUNNABLE" /\ ~On(c, t)' /\ ~InSeq(t, runq')
    BY <1>2, <1>3, <1>4, <1>5, <1>6, <1>7, Zenon DEF OnCpu, On
  <2> QED BY <1>1, <2>1, <2>2, ReadyStep, Zenon DEF PlaceInv
<1>16. InSleepq'
  BY <1>2, <1>3, <1>4, <1>5, <1>6, <1>7, Zenon DEF PlaceInv, InSleepq
<1>17. InFreeq'
  <2>1. NoDup(freeq') /\ \A t \in Threads : InSeq(t, freeq') => status'[t] = "UNUSED"
    BY <1>2, <1>3, <1>4, <1>5, <1>6, <1>7, Zenon DEF PlaceInv, InFreeq
  <2>2. /\ pc'[c] = "ex_free" => ~InSeq(running'[c], freeq')
        /\ \A d \in Cpus : d # c /\ InSeq(running[d], freeq') => InSeq(running[d], freeq)
    BY <1>2, <1>3, <1>4, <1>5, <1>6, <1>7, Zenon DEF PlaceInv, InFreeq, ResumePoints
  <2> QED BY <1>1, <2>1, <2>2, FreeStep, Zenon DEF PlaceInv
<1>18. Saved'
  BY <1>1, <1>2, <1>3, <1>4, <1>5, <1>6, <1>7, Zenon DEF PlaceInv, Saved, Kept
<1>19. Idles'
  <2>1. ~idle[c]
    BY <1>4, Zenon DEF PlaceInv, Idles, LockInv, CpuInv, LocalsSet, ThreadLocs
  <2> QED BY <1>1, <1>4, <2>1, Zenon DEF PlaceInv, Idles, Kept
<1> QED
  BY <1>11, <1>12, <1>13, <1>14, <1>15, <1>16, <1>17, <1>18, <1>19, Zenon DEF PlaceInv

LEMMA PlacesFork ==
  ASSUME LockInv, PlaceInv, NEW c \in Cpus, ForkRunq(c)
  PROVE  PlaceInv'
<1> USE NoneAssumption
<1>0. /\ pc \in [Cpus -> Locations] /\ running \in [Cpus -> Threads \cup {None}]
      /\ idle \in [Cpus -> BOOLEAN] /\ td \in [Cpus -> Threads \cup {None}]
      /\ ready \in [Cpus -> Seq(Threads)] /\ status \in [Threads -> Statuses]
      /\ ctx \in [Threads -> [pc : ResumePoints, chan : Chans \cup {None}]]
  BY Zenon DEF LockInv, TypeOK, CpuTypes, ThreadTypes
<1>1. \A d \in Cpus : d # c => Kept(d)
  BY OthersStill, Zenon DEF CpuStep
<1>2. td[c] \in Threads /\ OnCpu(td[c]) /\ running[c] # td[c] /\ status[td[c]] = "RUNNABLE"
  <2>1. pc[c] = "fk_runq" /\ td[c] # None
    BY Zenon DEF ForkRunq, LockInv, CpuInv, LocalsSet
  <2>2. td[c] \in Threads /\ running[c] # td[c]
    BY <1>0, <2>1, Zenon DEF PlaceInv, Alone
  <2>3. status[td[c]] = "RUNNABLE"
    BY <2>1, <2>2, Zenon DEF PlaceInv, Runs
  <2> QED BY <2>2, <2>3, Zenon DEF OnCpu, On
<1>3. \A d \in Cpus : d # c => running[d] # td[c] /\ td[d] # td[c]
  BY <1>2, Zenon DEF PlaceInv, Alone, On
<1>4. /\ pc[c] = "fk_runq" /\ pc'[c] = "user" /\ td'[c] = None
      /\ UNCHANGED <<running, idle, ready, status, ctx, sleepq, freeq>>
  BY <1>0, Zenon DEF ForkRunq
<1>5. /\ \A u \in Threads : InSeq(u, runq') <=> InSeq(u, runq) \/ u = td[c]
      /\ NoDup(runq')
  <2>1. runq' = Append(runq, td[c]) /\ ~InSeq(td[c], runq) /\ NoDup(runq)
    BY <1>2, Zenon DEF ForkRunq, PlaceInv, InRunq
  <2>2. runq \in Seq(Threads)
    BY Zenon DEF LockInv, TypeOK, QueueTypes
  <2>3. /\ \A u : InSeq(u, Append(runq, td[c])) <=> InSeq(u, runq) \/ u = td[c]
        /\ NoDup(Append(runq, td[c]))
    BY <1>2, <2>1, <2>2, InAppend, Zenon
  <2> QED BY <2>1, <2>3, Zenon
<1>11. Alone'
  <2>1. td'[c] # None => pc'[c] \in {"sr_enter", "fk_runq"} /\ td'[c] # running'[c]
    BY <1>1, <1>2, <1>3, <1>4, <1>5, Zenon DEF PlaceInv, Alone
  <2>2. \A d \in Cpus, t \in Threads : d # c /\ On(c, t)' => ~On(d, t)
    BY <1>1, <1>2, <1>3, <1>4, <1>5, Zenon DEF PlaceInv, Alone, OnCpu, On
  <2> QED BY <1>1, <2>1, <2>2, AloneStep, Zenon DEF PlaceInv
<1>12. Runs'
  <2>1. \A t \in Threads : /\ running'[c] = t /\ pc'[c] \notin {"schedule", "ex_free"} => status'[t] = "RUNNING"
                           /\ td'[c] = t /\ pc'[c] = "fk_runq" => status'[t] = "RUNNABLE"
    BY <1>2, <1>3, <1>4, <1>5, Zenon DEF PlaceInv, Runs, ResumePoints
  <2>2. \A d \in Cpus, t \in Threads : d # c /\ On(d, t) => status'[t] = status[t]
    BY <1>2, <1>3, <1>4, <1>5, Zenon DEF OnCpu, On
  <2> QED BY <1>1, <2>1, <2>2, RunsStep, Zenon DEF PlaceInv
<1>13. Reached'
  <2>1. \A u \in Threads, d \in Cpus : On(d, u) => On(d, u)' \/ u = td[c]
    BY <1>1, <1>4, Zenon DEF On, Kept
  <2> QED BY <1>4, <1>5, <2>1, Zenon DEF PlaceInv, Reached
<1>14. InRunq'
  <2>1. \A u \in Threads, d \in Cpus : On(d, u)' => On(d, u) /\ u # td[c]
    <3> SUFFICES ASSUME NEW u \in Threads, NEW d \in Cpus, On(d, u)' PROVE On(d, u) /\ u # td[c]
      BY Zenon
    <3>1. CASE d = c
      BY <1>2, <1>4, <3>1, Zenon DEF On
    <3>2. CASE d # c
      BY <1>1, <1>3, <1>4, <3>2, Zenon DEF On, Kept
    <3> QED BY <3>1, <3>2, Zenon
  <2> QED BY <1>2, <1>4, <1>5, <2>1, Zenon DEF PlaceInv, InRunq, OnCpu
<1>15. InReady'
  <2>1. ready'[c] = ready[c] /\ (pc'[c] # "wk_scan" => pc[c] # "wk_scan")
    BY <1>2, <1>3, <1>4, <1>5, Zenon DEF ResumePoints
  <2>2. \A t \in Threads : status[t] = "RUNNABLE" /\ ~OnCpu(t) /\ ~InSeq(t, runq) =>
           status'[t] = "RUNNABLE" /\ ~On(c, t)' /\ ~InSeq(t, runq')
    BY <1>2, <1>3, <1>4, <1>5, Zenon DEF OnCpu, On
  <2> QED BY <1>1, <2>1, <2>2, ReadyStep, Zenon DEF PlaceInv
<1>16. InSleepq'
  BY <1>1, <1>2, <1>3, <1>4, <1>5, Zenon DEF PlaceInv, InSleepq, Kept
<1>17. InFreeq'
  <2>1. NoDup(freeq') /\ \A t \in Threads : InSeq(t, freeq') => status'[t] = "UNUSED"
    BY <1>2, <1>3, <1>4, <1>5, Zenon DEF PlaceInv, InFreeq
  <2>2. /\ pc'[c] = "ex_free" => ~InSeq(running'[c], freeq')
        /\ \A d \in Cpus : d # c /\ InSeq(running[d], freeq') => InSeq(running[d], freeq)
    BY <1>2, <1>3, <1>4, <1>5, Zenon DEF PlaceInv, InFreeq, ResumePoints
  <2> QED BY <1>1, <2>1, <2>2, FreeStep, Zenon DEF PlaceInv
<1>18. Saved'
  BY <1>1, <1>2, <1>3, <1>4, <1>5, Zenon DEF PlaceInv, Saved, Kept
<1>19. Idles'
  BY <1>1, <1>2, <1>3, <1>4, <1>5, Zenon DEF PlaceInv, Idles, Kept
<1> QED
  BY <1>11, <1>12, <1>13, <1>14, <1>15, <1>16, <1>17, <1>18, <1>19, Zenon DEF PlaceInv

LEMMA PlacesExit ==
  ASSUME LockInv, PlaceInv, NEW c \in Cpus, Exit(c)
  PROVE  PlaceInv'
<1> USE NoneAssumption
<1>0. /\ pc \in [Cpus -> Locations] /\ running \in [Cpus -> Threads \cup {None}]
      /\ idle \in [Cpus -> BOOLEAN] /\ td \in [Cpus -> Threads \cup {None}]
      /\ ready \in [Cpus -> Seq(Threads)] /\ status \in [Threads -> Statuses]
      /\ ctx \in [Threads -> [pc : ResumePoints, chan : Chans \cup {None}]]
  BY Zenon DEF LockInv, TypeOK, CpuTypes, ThreadTypes
<1>1. \A d \in Cpus : d # c => Kept(d)
  BY OthersStill, Zenon DEF CpuStep
<1>2. running[c] \in Threads /\ status[running[c]] = "RUNNING" /\ td[c] = None
  BY RunningThread, Zenon DEF Exit, ThreadLocs, PlaceInv, Runs, Alone
<1>3. \A d \in Cpus : d # c => running[d] # running[c] /\ td[d] # running[c]
  BY <1>2, Zenon DEF PlaceInv, Alone, On
<1>4. pc[c] = "user" /\ pc'[c] = "ex_free" /\ UNCHANGED <<running, idle, td, ready, ctx, runq, sleepq, freeq>>
  BY <1>0, Zenon DEF Exit
<1>5. status'[running[c]] = "UNUSED" /\ \A u \in Threads : u # running[c] => status'[u] = status[u]
  BY <1>0, <1>2, Zenon DEF Exit
<1>11. Alone'
  <2>1. td'[c] # None => pc'[c] \in {"sr_enter", "fk_runq"} /\ td'[c] # running'[c]
    BY <1>1, <1>2, <1>3, <1>4, <1>5, Zenon DEF PlaceInv, Alone
  <2>2. \A d \in Cpus, t \in Threads : d # c /\ On(c, t)' => ~On(d, t)
    BY <1>1, <1>2, <1>3, <1>4, <1>5, Zenon DEF PlaceInv, Alone, OnCpu, On
  <2> QED BY <1>1, <2>1, <2>2, AloneStep, Zenon DEF PlaceInv
<1>12. Runs'
  <2>1. \A t \in Threads : /\ running'[c] = t /\ pc'[c] \notin {"schedule", "ex_free"} => status'[t] = "RUNNING"
                           /\ td'[c] = t /\ pc'[c] = "fk_runq" => status'[t] = "RUNNABLE"
    BY <1>2, <1>3, <1>4, <1>5, Zenon DEF PlaceInv, Runs, ResumePoints
  <2>2. \A d \in Cpus, t \in Threads : d # c /\ On(d, t) => status'[t] = status[t]
    BY <1>2, <1>3, <1>4, <1>5, Zenon DEF OnCpu, On
  <2> QED BY <1>1, <2>1, <2>2, RunsStep, Zenon DEF PlaceInv
<1>13. Reached'
  <2>1. \A t \in Threads : status'[t] = "RUNNING" => running'[c] = t \/ (status[t] = "RUNNING" /\ running[c] # t)
    BY <1>2, <1>3, <1>4, <1>5, Zenon
  <2>2. \A t \in Threads : status'[t] = "RUNNABLE" =>
           \/ InSeq(t, runq') \/ On(c, t)' \/ InSeq(t, ready'[c])
           \/ status[t] = "RUNNABLE" /\ ~InSeq(t, runq) /\ ~On(c, t) /\ ~InSeq(t, ready[c])
    BY <1>2, <1>3, <1>4, <1>5, Zenon DEF On
  <2> QED BY <1>1, <2>1, <2>2, ReachedStep, Zenon DEF PlaceInv
<1>14. InRunq'
  <2>1. NoDup(runq')
    BY <1>2, <1>3, <1>4, <1>5, Zenon DEF PlaceInv, InRunq
  <2>2. \A t \in Threads : InSeq(t, runq') => InSeq(t, runq) /\ status'[t] = status[t] /\ ~On(c, t)'
    BY <1>2, <1>3, <1>4, <1>5, Zenon DEF PlaceInv, InRunq, OnCpu, On
  <2> QED BY <1>1, <2>1, <2>2, RunqStep, Zenon DEF PlaceInv
<1>15. InReady'
  <2>1. ready'[c] = ready[c] /\ (pc'[c] # "wk_scan" => pc[c] # "wk_scan")
    BY <1>2, <1>3, <1>4, <1>5, Zenon DEF ResumePoints
  <2>2. \A t \in Threads : status[t] = "RUNNABLE" /\ ~OnCpu(t) /\ ~InSeq(t, runq) =>
           status'[t] = "RUNNABLE" /\ ~On(c, t)' /\ ~InSeq(t, runq')
    BY <1>2, <1>3, <1>4, <1>5, Zenon DEF OnCpu, On
  <2> QED BY <1>1, <2>1, <2>2, ReadyStep, Zenon DEF PlaceInv
<1>16. InSleepq'
  BY <1>2, <1>3, <1>4, <1>5, Zenon DEF PlaceInv, InSleepq
<1>17. InFreeq'
  <2>1. NoDup(freeq') /\ \A t \in Threads : InSeq(t, freeq') => status'[t] = "UNUSED"
    BY <1>2, <1>3, <1>4, <1>5, Zenon DEF PlaceInv, InFreeq
  <2>2. /\ pc'[c] = "ex_free" => ~InSeq(running'[c], freeq')
        /\ \A d \in Cpus : d # c /\ InSeq(running[d], freeq') => InSeq(running[d], freeq)
    BY <1>2, <1>3, <1>4, <1>5, Zenon DEF PlaceInv, InFreeq, ResumePoints
  <2> QED BY <1>1, <2>1, <2>2, FreeStep, Zenon DEF PlaceInv
<1>18. Saved'
  BY <1>1, <1>2, <1>3, <1>4, <1>5, Zenon DEF PlaceInv, Saved, Kept
<1>19. Idles'
  BY <1>1, <1>2, <1>3, <1>4, <1>5, Zenon DEF PlaceInv, Idles, Kept
<1> QED
  BY <1>11, <1>12, <1>13, <1>14, <1>15, <1>16, <1>17, <1>18, <1>19, Zenon DEF PlaceInv

LEMMA PlacesFree ==
  ASSUME LockInv, PlaceInv, NEW c \in Cpus, ExitFree(c)
  PROVE  PlaceInv'
<1> USE NoneAssumption
<1>0. /\ pc \in [Cpus -> Locations] /\ running \in [Cpus -> Threads \cup {None}]
      /\ idle \in [Cpus -> BOOLEAN] /\ td \in [Cpus -> Threads \cup {None}]
      /\ ready \in [Cpus -> Seq(Threads)] /\ status \in [Threads -> Statuses]
      /\ ctx \in [Threads -> [pc : ResumePoints, chan : Chans \cup {None}]]
  BY Zenon DEF LockInv, TypeOK, CpuTypes, ThreadTypes
<1>1. \A d \in Cpus : d # c => Kept(d)
  BY OthersStill, Zenon DEF CpuStep
<1>2. running[c] \in Threads /\ status[running[c]] = "UNUSED" /\ td[c] = None /\ ~InSeq(running[c], freeq)
  BY RunningThread, Zenon DEF ExitFree, ThreadLocs, LockInv, CpuInv, Leaving, PlaceInv, Alone, InFreeq
<1>3. \A d \in Cpus : d # c => running[d] # running[c] /\ td[d] # running[c]
  BY <1>2, Zenon DEF PlaceInv, Alone, On
<1>4. pc[c] = "ex_free" /\ pc'[c] = "schedule" /\ UNCHANGED <<running, idle, td, ready, status, ctx, runq, sleepq>>
  BY <1>0, Zenon DEF ExitFree
<1>5. NoDup(freeq') /\ \A u : InSeq(u, freeq') <=> InSeq(u, freeq) \/ u = running[c]
  <2>1. freeq' = Append(freeq, running[c]) /\ NoDup(freeq) /\ freeq \in Seq(Threads)
    BY Zenon DEF ExitFree, PlaceInv, InFreeq, LockInv, TypeOK, QueueTypes
  <2>2. /\ \A u : InSeq(u, Append(freeq, running[c])) <=> InSeq(u, freeq) \/ u = running[c]
        /\ NoDup(Append(freeq, running[c]))
    BY <1>2, <2>1, InAppend, SMTT(60)
  <2> QED BY <2>1, <2>2, Zenon
<1>11. Alone'
  <2>1. td'[c] # None => pc'[c] \in {"sr_enter", "fk_runq"} /\ td'[c] # running'[c]
    BY <1>1, <1>2, <1>3, <1>4, <1>5, Zenon DEF PlaceInv, Alone
  <2>2. \A d \in Cpus, t \in Threads : d # c /\ On(c, t)' => ~On(d, t)
    BY <1>1, <1>2, <1>3, <1>4, <1>5, Zenon DEF PlaceInv, Alone, OnCpu, On
  <2> QED BY <1>1, <2>1, <2>2, AloneStep, Zenon DEF PlaceInv
<1>12. Runs'
  <2>1. \A t \in Threads : /\ running'[c] = t /\ pc'[c] \notin {"schedule", "ex_free"} => status'[t] = "RUNNING"
                           /\ td'[c] = t /\ pc'[c] = "fk_runq" => status'[t] = "RUNNABLE"
    BY <1>2, <1>3, <1>4, <1>5, Zenon DEF PlaceInv, Runs, ResumePoints
  <2>2. \A d \in Cpus, t \in Threads : d # c /\ On(d, t) => status'[t] = status[t]
    BY <1>2, <1>3, <1>4, <1>5, Zenon DEF OnCpu, On
  <2> QED BY <1>1, <2>1, <2>2, RunsStep, Zenon DEF PlaceInv
<1>13. Reached'
  <2>1. \A t \in Threads : status'[t] = "RUNNING" => running'[c] = t \/ (status[t] = "RUNNING" /\ running[c] # t)
    BY <1>2, <1>3, <1>4, <1>5, Zenon
  <2>2. \A t \in Threads : status'[t] = "RUNNABLE" =>
           \/ InSeq(t, runq') \/ On(c, t)' \/ InSeq(t, ready'[c])
           \/ status[t] = "RUNNABLE" /\ ~InSeq(t, runq) /\ ~On(c, t) /\ ~InSeq(t, ready[c])
    BY <1>2, <1>3, <1>4, <1>5, Zenon DEF On
  <2> QED BY <1>1, <2>1, <2>2, ReachedStep, Zenon DEF PlaceInv
<1>14. InRunq'
  <2>1. NoDup(runq')
    BY <1>2, <1>3, <1>4, <1>5, Zenon DEF PlaceInv, InRunq
  <2>2. \A t \in Threads : InSeq(t, runq') => InSeq(t, runq) /\ status'[t] = status[t] /\ ~On(c, t)'
    BY <1>2, <1>3, <1>4, <1>5, Zenon DEF PlaceInv, InRunq, OnCpu, On
  <2> QED BY <1>1, <2>1, <2>2, RunqStep, Zenon DEF PlaceInv
<1>15. InReady'
  <2>1. ready'[c] = ready[c] /\ (pc'[c] # "wk_scan" => pc[c] # "wk_scan")
    BY <1>2, <1>3, <1>4, <1>5, Zenon DEF ResumePoints
  <2>2. \A t \in Threads : status[t] = "RUNNABLE" /\ ~OnCpu(t) /\ ~InSeq(t, runq) =>
           status'[t] = "RUNNABLE" /\ ~On(c, t)' /\ ~InSeq(t, runq')
    BY <1>2, <1>3, <1>4, <1>5, Zenon DEF OnCpu, On
  <2> QED BY <1>1, <2>1, <2>2, ReadyStep, Zenon DEF PlaceInv
<1>16. InSleepq'
  BY <1>1, <1>2, <1>3, <1>4, <1>5, Zenon DEF PlaceInv, InSleepq, Kept
<1>17. InFreeq'
  <2>1. NoDup(freeq') /\ \A t \in Threads : InSeq(t, freeq') => status'[t] = "UNUSED"
    BY <1>2, <1>3, <1>4, <1>5, Zenon DEF PlaceInv, InFreeq
  <2>2. /\ pc'[c] = "ex_free" => ~InSeq(running'[c], freeq')
        /\ \A d \in Cpus : d # c /\ InSeq(running[d], freeq') => InSeq(running[d], freeq)
    BY <1>2, <1>3, <1>4, <1>5, Zenon DEF PlaceInv, InFreeq, ResumePoints
  <2> QED BY <1>1, <2>1, <2>2, FreeStep, Zenon DEF PlaceInv
<1>18. Saved'
  BY <1>1, <1>2, <1>3, <1>4, <1>5, Zenon DEF PlaceInv, Saved, Kept
<1>19. Idles'
  BY <1>1, <1>2, <1>3, <1>4, <1>5, Zenon DEF PlaceInv, Idles, Kept
<1> QED
  BY <1>11, <1>12, <1>13, <1>14, <1>15, <1>16, <1>17, <1>18, <1>19, Zenon DEF PlaceInv

-----------------------------------------------------------------------------
LEMMA PlaceInit == Init => PlaceInv
<1> SUFFICES ASSUME Init PROVE PlaceInv
  BY Zenon
<1> USE NoneAssumption DEF Init
<1>1. /\ NoDup(runq) /\ \A t : InSeq(t, runq) <=> t = BootThread
      /\ NoDup(freeq) /\ \A t : InSeq(t, freeq) => t \in Threads \ {BootThread}
  <2>1. NoDup(<<BootThread>>) /\ \A t : InSeq(t, <<BootThread>>) <=> t = BootThread
    BY DEF NoDup, InSeq
  <2>2. NoDup(BootFreeq) /\ \A t : InSeq(t, BootFreeq) => t \in Threads \ {BootThread}
    BY BootAssumption, SMTT(60) DEF NoDup, InSeq
  <2> QED BY <2>1, <2>2, Zenon
<1>2. BootThread \in Threads
  BY BootAssumption, Zenon
<1>3. Alone /\ Runs /\ Reached /\ InRunq /\ Idles
  BY <1>1, <1>2, Zenon DEF Alone, Runs, Reached, InRunq, Idles, OnCpu, On
<1>4. InReady /\ InSleepq
  BY <1>1, <1>2, InEmpty, Zenon DEF InReady, InSleepq
<1>5. InFreeq
  BY <1>1, Zenon DEF InFreeq
<1>6. Saved
  BY <1>2, Zenon DEF Saved
<1> QED BY <1>3, <1>4, <1>5, <1>6, Zenon DEF PlaceInv

LEMMA PlaceStep == LockInv /\ PlaceInv /\ [Next]_vars => PlaceInv'
<1> SUFFICES ASSUME LockInv, PlaceInv, [Next]_vars PROVE PlaceInv'
  BY Zenon
<1>1. ASSUME NEW c \in Cpus, CpuStep(c) PROVE PlaceInv'
  <2>1. \A d \in Cpus : d # c => Kept(d)
    BY <1>1, OthersStill, Zenon
  <2>2. CASE StillStep(c)
    <3>1. Stays(c)
      BY <2>2, StaysStep, Zenon
    <3>2. \A d \in Cpus : d # c => pc'[d] = pc[d] /\ idle'[d] = idle[d]
      BY <2>1, Zenon DEF Kept
    <3> QED BY <3>1, <3>2, PlacesStay, Zenon
  <2>3. CASE WakeDoneMutex(c) \/ WakeDoneTimed(c)
    <3>1. WakeDone(c)
      BY <2>3, Zenon DEF WakeDoneMutex, WakeDoneTimed
    <3>2. pc'[c] \in {"user", "tc_loop"}
      BY <2>3, Zenon DEF WakeDoneMutex, WakeDoneTimed, LockInv, TypeOK, CpuTypes
    <3> QED BY <2>1, <3>1, <3>2, PlacesWake, Zenon
  <2>4. CASE \/ Yield(c) \/ Schedule(c) \/ SrEnter(c) \/ Pick(c) \/ SleepTd(c) \/ WakeTake(c)
             \/ TdAllocTd(c) \/ ForkRunq(c) \/ Exit(c) \/ ExitFree(c)
    BY Zenon, <2>4, PlacesYield, PlacesSchedule, PlacesEnter, PlacesPick, PlacesSleep, PlacesTake,
       PlacesAlloc, PlacesFork, PlacesExit, PlacesFree, Zenon
  <2> QED
    BY <1>1, <2>2, <2>3, <2>4, Zenon DEF CpuStep, StillStep, MtxLockSleep, MtxUnlockSleep
<1>2. CASE UNCHANGED vars
  <2>1. /\ pc' = pc /\ running' = running /\ td' = td /\ ready' = ready /\ idle' = idle
        /\ status' = status /\ ctx' = ctx /\ runq' = runq /\ sleepq' = sleepq /\ freeq' = freeq
    BY <1>2, Zenon DEF vars, cpuVars, threadVars, queueVars
  <2>2. \A t : OnCpu(t)' <=> OnCpu(t)
    BY <2>1, Zenon DEF OnCpu, On
  <2>3. Runs' /\ Saved' /\ Idles'
    BY <2>1, Zenon DEF PlaceInv, Runs, Saved, Idles
  <2>6. Alone'
    BY <2>1, Zenon DEF PlaceInv, Alone, On
  <2>5. Reached'
    BY <2>1, Zenon DEF PlaceInv, Reached, On
  <2>4. InRunq' /\ InReady' /\ InSleepq' /\ InFreeq'
    BY <2>1, <2>2, Zenon DEF PlaceInv, InRunq, InReady, InSleepq, InFreeq
  <2> QED BY <2>3, <2>4, <2>5, <2>6, Zenon DEF PlaceInv
<1> QED
  BY <1>1, <1>2, Zenon DEF Next, Stopped

LEMMA PlaceAlways == Spec => [](LockInv /\ PlaceInv)
  BY LockInit, LockStep, PlaceInit, PlaceStep, PTL DEF Spec

\* A thread that another CPU can take from a queue has been left by the CPU that
\* ran it, with its context saved, and no thread runs on two CPUs.
THEOREM HandOffSafe == Spec => []HandOff
<1>1. LockInv /\ PlaceInv => HandOff
  <2> SUFFICES ASSUME LockInv, PlaceInv PROVE HandOff
    BY Zenon
  <2>1. \A c, d \in Cpus : running[c] = running[d] /\ running[c] # None => c = d
    BY Zenon DEF LockInv, TypeOK, CpuTypes, PlaceInv, Alone, On
  <2>2. ASSUME NEW t \in Threads, InSeq(t, runq) \/ InSeq(t, sleepq) \/ InSeq(t, freeq), tdLock[t] = None
        PROVE  \A c \in Cpus : running[c] # t /\ td[c] # t
    <3>1. ~OnCpu(t)
      <4>1. CASE InSeq(t, runq)
        BY <4>1, Zenon DEF PlaceInv, InRunq
      <4>2. CASE InSeq(t, sleepq) \/ InSeq(t, freeq)
        <5>1. status[t] # "RUNNING"
          BY <4>2, Zenon DEF PlaceInv, InSleepq, InFreeq
        <5> QED BY <2>2, <5>1, LeftThread, Zenon
      <4> QED BY <2>2, <4>1, <4>2, Zenon
    <3> QED BY <3>1, Zenon DEF OnCpu, On
  <2>3. ASSUME NEW t \in Threads, InSeq(t, runq) PROVE status[t] = "RUNNABLE" /\ ctx[t].pc # "dead"
    BY <2>3, Zenon DEF PlaceInv, InRunq, Saved, OnCpu, On
  <2> QED BY <2>1, <2>2, <2>3, Zenon DEF HandOff
<1> QED
  BY <1>1, PlaceAlways, PTL

\* sched_runnable() halts the machine only when nothing can ever run again.
LEMMA HaltStep == LockInv /\ PlaceInv /\ HaltOnlyWhenDone /\ [Next]_vars => HaltOnlyWhenDone'
<1> SUFFICES ASSUME LockInv, PlaceInv, HaltOnlyWhenDone, [Next]_vars PROVE HaltOnlyWhenDone'
  BY Zenon
<1>1. ASSUME NEW c \in Cpus, SrHalt(c) PROVE HaltOnlyWhenDone'
  <2> SUFFICES ASSUME NEW t \in Threads PROVE status'[t] = "UNUSED"
    BY Zenon DEF HaltOnlyWhenDone
  <2>1. /\ running[c] = None /\ td[c] = None /\ runq = <<>> /\ sleepq = <<>>
        /\ qlock["sleepq"] = None /\ status' = status /\ t # None
    BY <1>1, NoneAssumption, Zenon DEF SrHalt, MayHalt, LockInv, CpuInv, LocalsSet, PlaceInv, Alone
  <2>2. \A d \in Cpus : ~On(d, t)
    BY <1>1, <2>1, Zenon DEF SrHalt, MayHalt, AllIdle, PlaceInv, Idles, On
  <2>3. \A d \in Cpus : pc[d] # "wk_scan"
    BY <2>1, NoneAssumption, SMTT(60) DEF LockInv, LockDiscipline, QueueLocks, InCritical, Queues
  <2>4. \A d \in Cpus : ~InSeq(t, ready[d])
    BY <2>3, InEmpty, Zenon DEF PlaceInv, InReady
  <2>5. ~InSeq(t, runq) /\ ~InSeq(t, sleepq)
    BY <2>1, InEmpty, Zenon
  <2>6. status[t] \notin {"RUNNING", "RUNNABLE", "SLEEPING"}
    BY <2>2, <2>4, <2>5, Zenon DEF PlaceInv, Reached, InSleepq, On
  <2> QED BY <2>1, <2>6, Zenon DEF LockInv, TypeOK, ThreadTypes, Statuses
<1>2. ASSUME NEW c \in Cpus, CpuStep(c), ~SrHalt(c) PROVE HaltOnlyWhenDone'
  <2>1. machine' \in {"up", "panic"}
    BY <1>2, Zenon
       DEF CpuStep, MtxLockSleep, MtxUnlockSleep, Yield, Schedule, SrEnter, SrIdle, IdleLeave,
           Pick, Resume, SleepEnter, SleepTd, SleepReturn, RelockClaim, RelockSleep, RelockTimed,
           WakeEnter, WakeSkip, WakeTake, WakeDoneMutex, WakeDoneTimed, NanoSleep, TimerInt,
           TcExpire, TcDone, TdAllocFail, TdAlloc, TdAllocTd, ForkRunq, Exit, ExitFree,
           MtxReenter, MtxClaim, MtxBlock, MtxReleave, MtxRelease, WakeDone
  <2> QED BY <2>1, Zenon DEF HaltOnlyWhenDone
<1>3. CASE UNCHANGED vars
  BY <1>3, Zenon DEF vars, HaltOnlyWhenDone
<1> QED
  BY <1>1, <1>2, <1>3, Zenon DEF Next, Stopped

\* When sched_runnable() halts the machine every thread has been freed: none is
\* running, ready, asleep, or on its way from one queue to another.
THEOREM HaltSafe == Spec => []HaltOnlyWhenDone
<1>1. Init => HaltOnlyWhenDone
  BY Zenon DEF Init, HaltOnlyWhenDone
<1> QED
  BY <1>1, PlaceAlways, HaltStep, PTL DEF Spec

=============================================================================
