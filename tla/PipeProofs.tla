----------------------------- MODULE PipeProofs -----------------------------
(***************************************************************************)
(* Proofs about Pipe, for any processes, buffer size and lengths: nothing  *)
(* uses a freed pipe, no wakeup is lost unless a writer is killed, and the *)
(* pipe implements a bounded stream of bytes.                              *)
(***************************************************************************)
EXTENDS Pipe, Integers, TLAPS

InRead == {"reading", "rsleep", "rasleep", "rwoken"}
InWrite == {"writing", "wsleep", "wasleep", "wwoken"}
Holding == {"reading", "writing", "rsleep", "wsleep"}

TypeOK ==
    /\ count \in 0..2
    /\ pipeReadPos \in Nat /\ pipeWritePos \in Nat
    /\ holds \in [Procs -> SUBSET {"r", "w"}]
    /\ pc \in [Procs -> {"user"} \cup InRead \cup InWrite]
    /\ call \in [Procs -> [n : Nat, i : Nat]]
    /\ killed \in [Procs -> {"no", "marked", "told"}]

Open(e) == \E p \in Procs : e \in holds[p]

\* count is the number of ends some process has.
CountExact ==
    /\ count = 2 <=> (Open("r") /\ Open("w"))
    /\ count = 0 <=> (~Open("r") /\ ~Open("w"))

\* A process has the end it reads from or writes to.
CallHoldsEnd == \A p \in Procs :
    /\ pc[p] \in InRead => "r" \in holds[p]
    /\ pc[p] \in InWrite => "w" \in holds[p]

OneHolder == \A p, q \in Procs : pc[p] \in Holding /\ pc[q] \in Holding => p = q

Bounded == pipeReadPos <= pipeWritePos /\ pipeWritePos <= pipeReadPos + PIPE_BUF_SIZE

\* Who may write, and who may be killed.
WritersLive == \A p \in Procs : (pc[p] \in InWrite => p \in Writers) /\ (killed[p] # "no" => p \in Killable)

\* What a sleeper relies on, as long as no writer is killed.  While a writer
\* is in its loop the pipe may have bytes the readers have not been told of.
Careful == Writers \cap Killable = {}
Sleepers == Careful => \A p \in Procs :
    /\ pc[p] \in {"rsleep", "rasleep", "wsleep", "wasleep"} => count = 2
    /\ pc[p] = "rsleep" => Empty
    /\ pc[p] = "rasleep" => Empty \/ \E q \in Procs : pc[q] = "writing"
    /\ pc[p] \in {"wsleep", "wasleep"} => pipeWritePos = pipeReadPos + PIPE_BUF_SIZE

IInv == TypeOK /\ CountExact /\ CallHoldsEnd /\ OneHolder /\ Bounded /\ WritersLive /\ Sleepers

\* The state after pipe() satisfies the invariant.
LEMMA InitInv == Init => IInv
BY PipeAssumption DEF PipeAssumption, Init, IInv, TypeOK, CountExact, Open, CallHoldsEnd, OneHolder, Bounded,
    WritersLive, Sleepers, InRead, InWrite, Holding, NoCall, Empty

\* wakeup() turns sleepers of its channels into woken processes, no others.
LEMMA WakeupIs ==
    ASSUME NEW f \in [Procs -> {"user"} \cup InRead \cup InWrite], NEW cs \in SUBSET {"r", "w"}
    PROVE  /\ Wakeup(f, cs) \in [Procs -> {"user"} \cup InRead \cup InWrite]
           /\ \A p \in Procs :
                Wakeup(f, cs)[p] = IF f[p] = "rasleep" /\ "r" \in cs THEN "rwoken"
                                   ELSE IF f[p] = "wasleep" /\ "w" \in cs THEN "wwoken" ELSE f[p]
<1> SUFFICES ASSUME NEW p \in Procs
             PROVE  Wakeup(f, cs)[p] = IF f[p] = "rasleep" /\ "r" \in cs THEN "rwoken"
                                       ELSE IF f[p] = "wasleep" /\ "w" \in cs THEN "wwoken" ELSE f[p]
    BY Zenon DEF Wakeup, InRead, InWrite
<1>1. ASSUME NEW c \in cs, f[p] = Asleep(c)
      PROVE  (CHOOSE d \in cs : f[p] = Asleep(d)) = c
    BY <1>1, Zenon DEF Asleep
<1>2. CASE \E c \in cs : f[p] = Asleep(c)
  <2>1. PICK c \in cs : f[p] = Asleep(c)
      BY <1>2, Zenon
  <2>2. Wakeup(f, cs)[p] = Woken(c)
      BY <1>1, <2>1, Zenon DEF Wakeup
  <2> QED BY <2>1, <2>2, Zenon DEF Asleep, Woken
<1>3. CASE ~\E c \in cs : f[p] = Asleep(c)
    BY <1>3, Zenon DEF Wakeup, Asleep
<1> QED BY <1>2, <1>3, Zenon

\* A process in user mode enters a read or a write when the lock is free.
LEMMA EnterStep ==
    ASSUME IInv, NEW p \in Procs, NEW n \in Reads \cup Writes, ReadEnter(p, n) \/ WriteEnter(p, n)
    PROVE  IInv'
<1>1. TypeOK'
  <2>1. [n |-> n, i |-> 0] \in [n : Nat, i : Nat]
    BY PipeAssumption, Zenon DEF PipeAssumption
  <2>2. call' = [call EXCEPT ![p] = [n |-> n, i |-> 0]]
    BY Zenon DEF ReadEnter, WriteEnter
  <2>3. call' \in [Procs -> [n : Nat, i : Nat]]
    BY <2>1, <2>2, Zenon DEF IInv, TypeOK
  <2>. QED BY <2>3, Zenon DEF IInv, TypeOK, InRead, InWrite, ReadEnter, WriteEnter, data
<1>2. CountExact'
  BY PipeAssumption, Zenon DEF IInv, TypeOK, InRead, InWrite, CountExact, Open, ReadEnter, WriteEnter, Locked, data, PipeAssumption
<1>3. CallHoldsEnd'
  BY PipeAssumption DEF IInv, TypeOK, InRead, InWrite, CallHoldsEnd, ReadEnter, WriteEnter, Locked, data, PipeAssumption
<1>4. OneHolder'
  BY PipeAssumption DEF IInv, TypeOK, InRead, InWrite, OneHolder, Holding, ReadEnter, WriteEnter, Locked, data, PipeAssumption
<1>5. Bounded'
  BY PipeAssumption, Zenon DEF IInv, TypeOK, InRead, InWrite, Bounded, ReadEnter, WriteEnter, Locked, data, PipeAssumption
<1>6. WritersLive'
  BY PipeAssumption, Zenon DEF IInv, TypeOK, InRead, InWrite, WritersLive, ReadEnter, WriteEnter, Locked, data, PipeAssumption
<1>7. Sleepers'
  <2>1. ASSUME ReadEnter(p, n) PROVE Sleepers'
    BY <2>1, PipeAssumption, Zenon DEF IInv, TypeOK, InRead, InWrite, Sleepers, CountExact, Open, CallHoldsEnd, OneHolder, Holding, Bounded, WritersLive, Empty, ReadEnter, Locked, data, PipeAssumption
  <2>2. ASSUME WriteEnter(p, n) PROVE Sleepers'
    BY <2>2, PipeAssumption, Zenon DEF IInv, TypeOK, InRead, InWrite, Sleepers, CountExact, Open, CallHoldsEnd, OneHolder, Holding, Bounded, WritersLive, Empty, WriteEnter, Locked, data, PipeAssumption
  <2>. QED BY <2>1, <2>2, Zenon
<1>. QED BY <1>1, <1>2, <1>3, <1>4, <1>5, <1>6, <1>7, Zenon DEF IInv

\* A loop decides to sleep, or a call returns without touching the data.
LEMMA LoopStep ==
    ASSUME IInv, NEW p \in Procs, ReadWait(p) \/ ReadKilled(p) \/ Sleep(p) \/ Resume(p)
    PROVE  IInv'
<1>1. TypeOK'
  BY PipeAssumption DEF IInv, TypeOK, InRead, InWrite, ReadWait, ReadKilled, Sleep, Resume, Locked, NoCall, pipeIsClose, data, PipeAssumption
<1>2. CountExact'
  BY PipeAssumption, Zenon DEF IInv, TypeOK, InRead, InWrite, CountExact, Open, ReadWait, ReadKilled, Sleep, Resume, Locked, NoCall, pipeIsClose, data, PipeAssumption
<1>3. CallHoldsEnd'
  BY PipeAssumption DEF IInv, TypeOK, InRead, InWrite, CallHoldsEnd, ReadWait, ReadKilled, Sleep, Resume, Locked, NoCall, pipeIsClose, data, PipeAssumption
<1>4. OneHolder'
  BY PipeAssumption DEF IInv, TypeOK, InRead, InWrite, OneHolder, Holding, ReadWait, ReadKilled, Sleep, Resume, Locked, NoCall, pipeIsClose, data, PipeAssumption
<1>5. Bounded'
  BY PipeAssumption, Zenon DEF IInv, TypeOK, InRead, InWrite, Bounded, ReadWait, ReadKilled, Sleep, Resume, Locked, NoCall, pipeIsClose, data, PipeAssumption
<1>6. WritersLive'
  BY PipeAssumption, Zenon DEF IInv, TypeOK, InRead, InWrite, WritersLive, ReadWait, ReadKilled, Sleep, Resume, Locked, NoCall, pipeIsClose, data, PipeAssumption
<1>7. Sleepers'
  <2>1. ASSUME ReadWait(p) PROVE Sleepers'
    BY <2>1, PipeAssumption DEF IInv, TypeOK, InRead, InWrite, Sleepers, CountExact, Open, CallHoldsEnd, OneHolder, Holding, Bounded, WritersLive, Empty, ReadWait, Locked, NoCall, pipeIsClose, data, PipeAssumption
  <2>2. ASSUME ReadKilled(p) PROVE Sleepers'
    BY <2>2, PipeAssumption, Zenon DEF IInv, TypeOK, InRead, InWrite, Sleepers, CountExact, Open, CallHoldsEnd, OneHolder, Holding, Bounded, WritersLive, Empty, ReadKilled, Locked, NoCall, pipeIsClose, data, PipeAssumption
  <2>3. ASSUME Sleep(p) PROVE Sleepers'
    BY <2>3, PipeAssumption, Zenon DEF IInv, TypeOK, InRead, InWrite, Sleepers, CountExact, Open, CallHoldsEnd, OneHolder, Holding, Bounded, WritersLive, Empty, Sleep, Locked, NoCall, pipeIsClose, data, PipeAssumption
  <2>4. ASSUME Resume(p) PROVE Sleepers'
    BY <2>4, PipeAssumption, Zenon DEF IInv, TypeOK, InRead, InWrite, Sleepers, CountExact, Open, CallHoldsEnd, OneHolder, Holding, Bounded, WritersLive, Empty, Resume, Locked, NoCall, pipeIsClose, data, PipeAssumption
  <2>. QED BY <2>1, <2>2, <2>3, <2>4, Zenon
<1>. QED BY <1>1, <1>2, <1>3, <1>4, <1>5, <1>6, <1>7, Zenon DEF IInv

\* A read takes bytes and wakes every sleeping writer.
LEMMA TakeStep ==
    ASSUME IInv, NEW p \in Procs, ReadTake(p)
    PROVE  IInv'
<1>0. /\ pc' \in [Procs -> {"user"} \cup InRead \cup InWrite]
      /\ \A q \in Procs : pc'[q] = IF q = p THEN "user" ELSE IF pc[q] = "wasleep" THEN "wwoken" ELSE pc[q]
  <2> DEFINE f == [pc EXCEPT ![p] = "user"]
  <2>1. f \in [Procs -> {"user"} \cup InRead \cup InWrite]
    BY Zenon DEF IInv, TypeOK, InWrite
  <2>2. pc' = Wakeup(f, {"w"})
    BY Zenon DEF ReadTake
  <2>3. \A q \in Procs : f[q] = IF q = p THEN "user" ELSE pc[q]
    BY Zenon DEF IInv, TypeOK
  <2>. HIDE DEF f
  <2>4. /\ Wakeup(f, {"w"}) \in [Procs -> {"user"} \cup InRead \cup InWrite]
        /\ \A q \in Procs : Wakeup(f, {"w"})[q] = IF f[q] = "wasleep" THEN "wwoken" ELSE f[q]
    BY <2>1, WakeupIs, Zenon
  <2>. QED BY <2>2, <2>3, <2>4, Zenon
<1>1. TypeOK'
  <2>1. pipeReadPos' \in Nat
    BY DEF IInv, TypeOK, Bounded, ReadTake, MIN, Used
  <2>2. call' \in [Procs -> [n : Nat, i : Nat]]
    BY Zenon DEF IInv, TypeOK, ReadTake, NoCall
  <2>. QED BY <1>0, <2>1, <2>2, Zenon DEF IInv, TypeOK, ReadTake
<1>2. CountExact'
  BY <1>0, PipeAssumption, Zenon DEF IInv, TypeOK, InRead, InWrite, CountExact, Open, ReadTake, MIN, Used, NoCall, pipeIsClose, data, PipeAssumption
<1>3. CallHoldsEnd'
  BY <1>0, PipeAssumption, Zenon DEF IInv, TypeOK, InRead, InWrite, CallHoldsEnd, ReadTake, MIN, Used, NoCall, pipeIsClose, data, PipeAssumption
<1>4. OneHolder'
  BY <1>0, PipeAssumption, ZenonT(60) DEF IInv, TypeOK, InRead, InWrite, OneHolder, Holding, ReadTake, MIN, Used, NoCall, pipeIsClose, data, PipeAssumption
<1>5. Bounded'
  BY <1>0, PipeAssumption DEF IInv, TypeOK, InRead, InWrite, Bounded, ReadTake, MIN, Used, NoCall, pipeIsClose, data, PipeAssumption
<1>6. WritersLive'
  BY <1>0, PipeAssumption, Zenon DEF IInv, TypeOK, InRead, InWrite, WritersLive, ReadTake, MIN, Used, NoCall, pipeIsClose, data, PipeAssumption
<1>7. Sleepers'
  <2>1. \A q \in Procs : q # p => pc[q] \notin Holding
    BY Zenon DEF IInv, OneHolder, Holding, ReadTake
  <2>2. Empty => Empty'
    BY DEF IInv, TypeOK, ReadTake, Empty, MIN, Used
  <2>. SUFFICES ASSUME Careful, NEW q \in Procs, q # p, pc'[q] \in {"rsleep", "rasleep", "wsleep", "wasleep"}
               PROVE  pc[q] = "rasleep" /\ pc'[q] = "rasleep" /\ count' = 2 /\ Empty'
    BY <1>0, Zenon DEF Sleepers
  <2>3. pc[q] = "rasleep" /\ pc'[q] = "rasleep"
    BY <1>0, <2>1, Zenon DEF Holding
  <2>4. count = 2 /\ Empty
    BY <2>1, <2>3, Zenon DEF IInv, Sleepers, Holding, ReadTake
  <2>. QED BY <2>2, <2>3, <2>4, Zenon DEF ReadTake
<1>. QED BY <1>1, <1>2, <1>3, <1>4, <1>5, <1>6, <1>7, Zenon DEF IInv

\* A refused write wakes nobody: no reader sleeps, unless a writer was killed.
LEMMA RefusedStep ==
    ASSUME IInv, NEW p \in Procs, WriteRefused(p)
    PROVE  IInv'
<1>1. TypeOK'
  BY PipeAssumption, Zenon DEF IInv, TypeOK, InRead, InWrite, WriteRefused, Unfinished, Refused, NoCall, pipeIsClose, data, PipeAssumption
<1>2. CountExact'
  BY PipeAssumption, Zenon DEF IInv, TypeOK, InRead, InWrite, CountExact, Open, WriteRefused, Unfinished, Refused, NoCall, pipeIsClose, data, PipeAssumption
<1>3. CallHoldsEnd'
  BY PipeAssumption, Zenon DEF IInv, TypeOK, InRead, InWrite, CallHoldsEnd, WriteRefused, Unfinished, Refused, NoCall, pipeIsClose, data, PipeAssumption
<1>4. OneHolder'
  BY PipeAssumption, Zenon DEF IInv, TypeOK, InRead, InWrite, OneHolder, Holding, WriteRefused, Unfinished, Refused, NoCall, pipeIsClose, data, PipeAssumption
<1>5. Bounded'
  BY PipeAssumption, Zenon DEF IInv, TypeOK, InRead, InWrite, Bounded, WriteRefused, Unfinished, Refused, NoCall, pipeIsClose, data, PipeAssumption
<1>6. WritersLive'
  BY PipeAssumption, Zenon DEF IInv, TypeOK, InRead, InWrite, WritersLive, WriteRefused, Unfinished, Refused, NoCall, pipeIsClose, data, PipeAssumption
<1>7. Sleepers'
  <2>1. ASSUME WriteRefused(p) PROVE Sleepers'
    BY <2>1, PipeAssumption DEF IInv, TypeOK, InRead, InWrite, Sleepers, CountExact, Open, CallHoldsEnd, OneHolder, Holding, Bounded, WritersLive, Empty, Careful, WriteRefused, Unfinished, Refused, NoCall, pipeIsClose, data, PipeAssumption
  <2>. QED BY <2>1, Zenon
<1>. QED BY <1>1, <1>2, <1>3, <1>4, <1>5, <1>6, <1>7, Zenon DEF IInv

\* A writer that finds the pipe full wakes every sleeping reader.
LEMMA FullStep ==
    ASSUME IInv, NEW p \in Procs, WriteWait(p)
    PROVE  IInv'
<1>0. /\ pc' \in [Procs -> {"user"} \cup InRead \cup InWrite]
      /\ \A q \in Procs : pc'[q] = IF q = p THEN "wsleep" ELSE IF pc[q] = "rasleep" THEN "rwoken" ELSE pc[q]
  <2> DEFINE f == [pc EXCEPT ![p] = "wsleep"]
  <2>1. f \in [Procs -> {"user"} \cup InRead \cup InWrite]
    BY Zenon DEF IInv, TypeOK, InWrite
  <2>2. pc' = Wakeup(f, {"r"})
    BY Zenon DEF WriteWait
  <2>3. \A q \in Procs : f[q] = IF q = p THEN "wsleep" ELSE pc[q]
    BY Zenon DEF IInv, TypeOK
  <2>. HIDE DEF f
  <2>4. /\ Wakeup(f, {"r"}) \in [Procs -> {"user"} \cup InRead \cup InWrite]
        /\ \A q \in Procs : Wakeup(f, {"r"})[q] = IF f[q] = "rasleep" THEN "rwoken" ELSE f[q]
    BY <2>1, WakeupIs, Zenon
  <2>. QED BY <2>2, <2>3, <2>4, Zenon
<1>1. TypeOK'
  BY <1>0, PipeAssumption, Zenon DEF IInv, TypeOK, WriteWait, Unfinished, Refused, Used, pipeIsClose, data, PipeAssumption
<1>2. CountExact'
  BY <1>0, PipeAssumption, Zenon DEF IInv, TypeOK, InRead, InWrite, CountExact, Open, WriteWait, Unfinished, Refused, Used, pipeIsClose, data, PipeAssumption
<1>3. CallHoldsEnd'
  BY <1>0, PipeAssumption, Zenon DEF IInv, TypeOK, InRead, InWrite, CallHoldsEnd, WriteWait, Unfinished, Refused, Used, pipeIsClose, data, PipeAssumption
<1>4. OneHolder'
  <2>1. \A q \in Procs : q # p => pc[q] \notin Holding
    BY Zenon DEF IInv, OneHolder, Holding, WriteWait, Unfinished
  <2>2. \A q \in Procs : pc'[q] \in Holding => q = p
    BY <1>0, <2>1, Zenon DEF Holding
  <2>. QED BY <2>2, Zenon DEF OneHolder
<1>5. Bounded'
  BY <1>0, PipeAssumption, Zenon DEF IInv, TypeOK, InRead, InWrite, Bounded, WriteWait, Unfinished, Refused, Used, pipeIsClose, data, PipeAssumption
<1>6. WritersLive'
  BY <1>0, PipeAssumption, Zenon DEF IInv, TypeOK, InRead, InWrite, WritersLive, WriteWait, Unfinished, Refused, Used, pipeIsClose, data, PipeAssumption
<1>7. Sleepers'
  <2>1. \A q \in Procs : q # p => pc[q] \notin Holding
    BY Zenon DEF IInv, OneHolder, Holding, WriteWait, Unfinished
  <2>2. count' = 2 /\ pipeWritePos' = pipeReadPos' + PIPE_BUF_SIZE
    BY PipeAssumption
    DEF PipeAssumption, IInv, TypeOK, Bounded, WriteWait, Refused, pipeIsClose, Used, data
  <2>. SUFFICES ASSUME Careful, NEW q \in Procs, q # p, pc'[q] \in {"rsleep", "rasleep", "wsleep", "wasleep"}
               PROVE  pc[q] = "wasleep" /\ pc'[q] = "wasleep" /\ count' = 2
                      /\ pipeWritePos' = pipeReadPos' + PIPE_BUF_SIZE
    BY <1>0, <2>2, Zenon DEF Sleepers
  <2>3. pc[q] = "wasleep" /\ pc'[q] = "wasleep"
    BY <1>0, <2>1, Zenon DEF Holding
  <2>. QED BY <2>3, Zenon DEF IInv, Sleepers, WriteWait, data
<1>. QED BY <1>1, <1>2, <1>3, <1>4, <1>5, <1>6, <1>7, Zenon DEF IInv

\* A piece of a write fits into the buffer.
LEMMA CopyStep ==
    ASSUME IInv, NEW p \in Procs, WriteCopy(p)
    PROVE  IInv'
<1>1. TypeOK'
  <2>1. MIN(PIPE_BUF_SIZE - Used, call[p].n) \in Nat
    BY PipeAssumption DEF PipeAssumption, IInv, TypeOK, Bounded, MIN, Used
  <2>2. pipeWritePos' \in Nat
    BY <2>1 DEF IInv, TypeOK, WriteCopy
  <2>3. call' \in [Procs -> [n : Nat, i : Nat]]
    BY <2>1 DEF IInv, TypeOK, WriteCopy
  <2>. QED BY <2>2, <2>3, Zenon DEF IInv, TypeOK, WriteCopy
<1>2. CountExact'
  BY PipeAssumption, Zenon DEF IInv, TypeOK, InRead, InWrite, CountExact, Open, WriteCopy, Unfinished, Refused, Used, MIN, pipeIsClose, data, PipeAssumption
<1>3. CallHoldsEnd'
  BY PipeAssumption, Zenon DEF IInv, TypeOK, InRead, InWrite, CallHoldsEnd, WriteCopy, Unfinished, Refused, Used, MIN, pipeIsClose, data, PipeAssumption
<1>4. OneHolder'
  BY PipeAssumption, Zenon DEF IInv, TypeOK, InRead, InWrite, OneHolder, Holding, WriteCopy, Unfinished, Refused, Used, MIN, pipeIsClose, data, PipeAssumption
<1>5. Bounded'
  BY PipeAssumption DEF IInv, TypeOK, InRead, InWrite, Bounded, WriteCopy, Unfinished, Refused, Used, MIN, pipeIsClose, data, PipeAssumption
<1>6. WritersLive'
  BY PipeAssumption, Zenon DEF IInv, TypeOK, InRead, InWrite, WritersLive, WriteCopy, Unfinished, Refused, Used, MIN, pipeIsClose, data, PipeAssumption
<1>7. Sleepers'
  <2>1. ASSUME WriteCopy(p) PROVE Sleepers'
    BY <2>1, PipeAssumption DEF IInv, TypeOK, InRead, InWrite, Sleepers, CountExact, Open, CallHoldsEnd, OneHolder, Holding, Bounded, WritersLive, Empty, WriteCopy, Unfinished, Refused, Used, MIN, pipeIsClose, data, PipeAssumption
  <2>. QED BY <2>1, Zenon
<1>. QED BY <1>1, <1>2, <1>3, <1>4, <1>5, <1>6, <1>7, Zenon DEF IInv

\* A finished write wakes every sleeping reader.
LEMMA DoneStep ==
    ASSUME IInv, NEW p \in Procs, WriteDone(p)
    PROVE  IInv'
<1>0. /\ pc' \in [Procs -> {"user"} \cup InRead \cup InWrite]
      /\ \A q \in Procs : pc'[q] = IF q = p THEN "user" ELSE IF pc[q] = "rasleep" THEN "rwoken" ELSE pc[q]
  <2> DEFINE f == [pc EXCEPT ![p] = "user"]
  <2>1. f \in [Procs -> {"user"} \cup InRead \cup InWrite]
    BY Zenon DEF IInv, TypeOK, InWrite
  <2>2. pc' = Wakeup(f, {"r"})
    BY Zenon DEF WriteDone
  <2>3. \A q \in Procs : f[q] = IF q = p THEN "user" ELSE pc[q]
    BY Zenon DEF IInv, TypeOK
  <2>. HIDE DEF f
  <2>4. /\ Wakeup(f, {"r"}) \in [Procs -> {"user"} \cup InRead \cup InWrite]
        /\ \A q \in Procs : Wakeup(f, {"r"})[q] = IF f[q] = "rasleep" THEN "rwoken" ELSE f[q]
    BY <2>1, WakeupIs, Zenon
  <2>. QED BY <2>2, <2>3, <2>4, Zenon
<1>1. TypeOK'
  BY <1>0, PipeAssumption, Zenon DEF IInv, TypeOK, WriteDone, NoCall, data, PipeAssumption
<1>2. CountExact'
  BY <1>0, PipeAssumption, Zenon DEF IInv, TypeOK, InRead, InWrite, CountExact, Open, WriteDone, NoCall, data, PipeAssumption
<1>3. CallHoldsEnd'
  BY <1>0, PipeAssumption, Zenon DEF IInv, TypeOK, InRead, InWrite, CallHoldsEnd, WriteDone, NoCall, data, PipeAssumption
<1>4. OneHolder'
  BY <1>0, PipeAssumption, Zenon DEF IInv, TypeOK, InRead, InWrite, OneHolder, Holding, WriteDone, NoCall, data, PipeAssumption
<1>5. Bounded'
  BY <1>0, PipeAssumption, Zenon DEF IInv, TypeOK, InRead, InWrite, Bounded, WriteDone, NoCall, data, PipeAssumption
<1>6. WritersLive'
  BY <1>0, PipeAssumption, Zenon DEF IInv, TypeOK, InRead, InWrite, WritersLive, WriteDone, NoCall, data, PipeAssumption
<1>7. Sleepers'
  <2>1. \A q \in Procs : q # p => pc[q] \notin Holding
    BY Zenon DEF IInv, OneHolder, Holding, WriteDone
  <2>. SUFFICES ASSUME Careful, NEW q \in Procs, q # p, pc'[q] \in {"rsleep", "rasleep", "wsleep", "wasleep"}
               PROVE  pc[q] = "wasleep" /\ pc'[q] = "wasleep" /\ count' = 2
                      /\ pipeWritePos' = pipeReadPos' + PIPE_BUF_SIZE
    BY <1>0, Zenon DEF Sleepers
  <2>3. pc[q] = "wasleep" /\ pc'[q] = "wasleep"
    BY <1>0, <2>1, Zenon DEF Holding
  <2>. QED BY <2>3, Zenon DEF IInv, Sleepers, WriteDone, data
<1>. QED BY <1>1, <1>2, <1>3, <1>4, <1>5, <1>6, <1>7, Zenon DEF IInv

\* A forked process has the ends of its parent.
LEMMA ForkStep ==
    ASSUME IInv, NEW p \in Procs, NEW q \in Procs, Fork(p, q)
    PROVE  IInv'
<1>1. TypeOK'
  BY PipeAssumption, Zenon DEF IInv, TypeOK, InRead, InWrite, Fork, data, PipeAssumption
<1>2. CountExact'
  BY PipeAssumption, Zenon DEF IInv, TypeOK, InRead, InWrite, CountExact, Open, Fork, data, PipeAssumption
<1>3. CallHoldsEnd'
  BY PipeAssumption, Zenon DEF IInv, TypeOK, InRead, InWrite, CallHoldsEnd, Fork, data, PipeAssumption
<1>4. OneHolder'
  BY PipeAssumption, Zenon DEF IInv, TypeOK, InRead, InWrite, OneHolder, Holding, Fork, data, PipeAssumption
<1>5. Bounded'
  BY PipeAssumption, Zenon DEF IInv, TypeOK, InRead, InWrite, Bounded, Fork, data, PipeAssumption
<1>6. WritersLive'
  BY PipeAssumption, Zenon DEF IInv, TypeOK, InRead, InWrite, WritersLive, Fork, data, PipeAssumption
<1>7. Sleepers'
  <2>1. ASSUME Fork(p, q) PROVE Sleepers'
    BY <2>1, PipeAssumption, Zenon DEF IInv, TypeOK, InRead, InWrite, Sleepers, CountExact, Open, CallHoldsEnd, OneHolder, Holding, Bounded, WritersLive, Empty, Fork, data, PipeAssumption
  <2>. QED BY <2>1, Zenon
<1>. QED BY <1>1, <1>2, <1>3, <1>4, <1>5, <1>6, <1>7, Zenon DEF IInv

\* A kill marks a process, then wakes it.
LEMMA KillStep ==
    ASSUME IInv, NEW p \in Procs, KillMark(p) \/ KillWake(p)
    PROVE  IInv'
<1>1. TypeOK'
  BY PipeAssumption, Zenon DEF IInv, TypeOK, InRead, InWrite, KillMark, KillWake, data, PipeAssumption
<1>2. CountExact'
  BY PipeAssumption, Zenon DEF IInv, TypeOK, InRead, InWrite, CountExact, Open, KillMark, KillWake, data, PipeAssumption
<1>3. CallHoldsEnd'
  BY PipeAssumption, Zenon DEF IInv, TypeOK, InRead, InWrite, CallHoldsEnd, KillMark, KillWake, data, PipeAssumption
<1>4. OneHolder'
  BY PipeAssumption DEF IInv, TypeOK, InRead, InWrite, OneHolder, Holding, KillMark, KillWake, data, PipeAssumption
<1>5. Bounded'
  BY PipeAssumption, Zenon DEF IInv, TypeOK, InRead, InWrite, Bounded, KillMark, KillWake, data, PipeAssumption
<1>6. WritersLive'
  BY PipeAssumption, Zenon DEF IInv, TypeOK, InRead, InWrite, WritersLive, KillMark, KillWake, data, PipeAssumption
<1>7. Sleepers'
  <2>1. ASSUME KillMark(p) PROVE Sleepers'
    BY <2>1, PipeAssumption, Zenon DEF IInv, TypeOK, InRead, InWrite, Sleepers, CountExact, Open, CallHoldsEnd, OneHolder, Holding, Bounded, WritersLive, Empty, KillMark, data, PipeAssumption
  <2>2. ASSUME KillWake(p) PROVE Sleepers'
    BY <2>2, PipeAssumption, Zenon DEF IInv, TypeOK, InRead, InWrite, Sleepers, CountExact, Open, CallHoldsEnd, OneHolder, Holding, Bounded, WritersLive, Empty, KillWake, data, PipeAssumption
  <2>. QED BY <2>1, <2>2, Zenon
<1>. QED BY <1>1, <1>2, <1>3, <1>4, <1>5, <1>6, <1>7, Zenon DEF IInv

\* Closing an end: the last holder's close wakes every sleeper.
LEMMA CloseStep ==
    ASSUME IInv, NEW p \in Procs, NEW e \in {"r", "w"}, Close(p, e)
    PROVE  IInv'
<1>1. CASE LastHolder(p, e)
  <2>1. /\ ~Locked /\ count' = count - 1
        /\ pc' = Wakeup(pc, {"r", "w"})
    BY <1>1, Zenon DEF Close, FreeFd, FdPipeClose
  <2>2. /\ pc' \in [Procs -> {"user"} \cup InRead \cup InWrite]
        /\ \A q \in Procs : pc'[q] = IF pc[q] = "rasleep" THEN "rwoken"
                                     ELSE IF pc[q] = "wasleep" THEN "wwoken" ELSE pc[q]
    BY <2>1, WakeupIs DEF IInv, TypeOK
  <2>3. CountExact' /\ count' \in 0..2
    BY <1>1, <2>1 DEF IInv, TypeOK, CountExact, Open, LastHolder, Close
  <2>4. TypeOK'
    BY <2>2, <2>3, Zenon DEF IInv, TypeOK, Close, data
  <2>5. CallHoldsEnd'
    BY <2>2, Zenon DEF IInv, TypeOK, CallHoldsEnd, InRead, InWrite, Close
  <2>6. OneHolder' /\ WritersLive'
    BY <2>2, Zenon DEF IInv, TypeOK, OneHolder, Holding, WritersLive, InWrite, Close
  <2>7. Bounded'
    BY Zenon DEF IInv, Bounded, Close, data
  <2>8. Sleepers'
    BY <2>1, <2>2, Zenon DEF Sleepers, Locked
  <2>. QED BY <2>3, <2>4, <2>5, <2>6, <2>7, <2>8, Zenon DEF IInv
<1>2. CASE ~LastHolder(p, e)
  <2>1. UNCHANGED <<count, pc, data, call, killed>>
    BY <1>2, Zenon DEF Close, FreeFd
  <2>2. CountExact'
    BY <1>2, <2>1 DEF IInv, TypeOK, CountExact, Open, LastHolder, Close
  <2>3. TypeOK' /\ CallHoldsEnd'
    BY <2>1, Zenon DEF IInv, TypeOK, CallHoldsEnd, InRead, InWrite, Close, data
  <2>4. OneHolder' /\ WritersLive' /\ Bounded' /\ Sleepers'
    BY <2>1, Zenon DEF IInv, OneHolder, WritersLive, Bounded, Sleepers, Empty, data
  <2>. QED BY <2>2, <2>3, <2>4, Zenon DEF IInv
<1>. QED BY <1>1, <1>2, Zenon

\* Every step keeps the invariant.
LEMMA NextStep == IInv /\ [Next]_vars => IInv'
<1>. SUFFICES ASSUME IInv, [Next]_vars PROVE IInv'
  BY Zenon
<1>1. CASE Next
  BY Zenon, <1>1, EnterStep, LoopStep, TakeStep, RefusedStep, FullStep, CopyStep, DoneStep, ForkStep,
      KillStep, CloseStep
  DEF Next, Step
<1>2. CASE UNCHANGED vars
  BY <1>2, Zenon
  DEF vars, data, IInv, TypeOK, CountExact, Open, CallHoldsEnd, OneHolder, Bounded, WritersLive,
      Sleepers, Empty
<1>. QED BY <1>1, <1>2, Zenon

\* For any number of processes: if programs that write are not killed, no
\* reader sleeps on a pipe with bytes in it, no writer on one with room, and
\* nobody on a closed one.
THEOREM WakeupsAreNotLost == Writers \cap Killable = {} => (Spec => []NoLostWakeup)
<1>. SUFFICES ASSUME Careful PROVE Spec => []NoLostWakeup
  BY Zenon DEF Careful
<1>1. IInv => NoLostWakeup
  <2>. SUFFICES ASSUME IInv, ~Locked, NEW p \in Procs
               PROVE  /\ pc[p] = "rasleep" => Empty /\ count = 2
                      /\ pc[p] = "wasleep" => Used = PIPE_BUF_SIZE /\ count = 2
    BY Zenon DEF NoLostWakeup
  <2>1. pc[p] = "rasleep" => Empty /\ count = 2
    BY Zenon DEF IInv, Sleepers, Locked
  <2>2. pc[p] = "wasleep" => pipeWritePos = pipeReadPos + PIPE_BUF_SIZE /\ count = 2
    BY Zenon DEF IInv, Sleepers
  <2>3. pipeWritePos = pipeReadPos + PIPE_BUF_SIZE => Used = PIPE_BUF_SIZE
    BY PipeAssumption DEF PipeAssumption, IInv, TypeOK, Used
  <2>. QED BY <2>1, <2>2, <2>3, Zenon
<1>. QED BY InitInv, NextStep, <1>1, PTL DEF Spec

\* fd_pipe_close() frees a pipe only when no process can use it any more.
THEOREM FreedPipesAreUnused == Spec => []FreedIsUnused
<1>1. IInv => FreedIsUnused
  <2>. SUFFICES ASSUME IInv, count = 0, NEW p \in Procs PROVE pc[p] = "user" /\ holds[p] = {}
    BY Zenon DEF FreedIsUnused
  <2>1. "r" \notin holds[p] /\ "w" \notin holds[p]
    BY Zenon DEF IInv, CountExact, Open
  <2>2. pc[p] \notin InRead /\ pc[p] \notin InWrite
    BY <2>1, Zenon DEF IInv, CallHoldsEnd
  <2>3. holds[p] \in SUBSET {"r", "w"} /\ pc[p] \in {"user"} \cup InRead \cup InWrite
    BY Zenon DEF IInv, TypeOK
  <2>. QED BY <2>1, <2>2, <2>3, Zenon
<1>. QED BY InitInv, NextStep, <1>1, PTL DEF Spec

-----------------------------------------------------------------------------
(***************************************************************************)
(* Positions in the buffer.  pipeReadPos and pipeWritePos run on, their    *)
(* cells are the remainders by the buffer's size.                          *)
(***************************************************************************)
LEMMA MulStep ==
  ASSUME NEW N \in Nat \ {0}, NEW x \in Int, NEW y \in Int, x >= y + 1
  PROVE  N * x >= N * y + N
  OBVIOUS

LEMMA DivMod ==
  ASSUME NEW N \in Nat \ {0}, NEW a \in Nat
  PROVE  (a % N) \in 0..N - 1 /\ a = N * (a \div N) + (a % N) /\ (a \div N) \in Nat
  OBVIOUS

LEMMA ModUnique ==
  ASSUME NEW N \in Nat \ {0}, NEW p \in Int, NEW q \in Int, NEW r \in 0..N - 1, NEW s \in 0..N - 1,
         N * q + r = N * p + s
  PROVE  r = s
<1>1. ~(q >= p + 1)
  BY MulStep
<1>2. ~(p >= q + 1)
  BY MulStep
<1>3. p = q
  BY <1>1, <1>2
<1> QED BY <1>3

\* At most one turn around the buffer.
LEMMA ModAdd ==
  ASSUME NEW N \in Nat \ {0}, NEW a \in Nat, NEW k \in 0..N
  PROVE  /\ (a % N) \in 0..N - 1 /\ ((a + k) % N) \in 0..N - 1
         /\ (a + k) % N = IF (a % N) + k < N THEN (a % N) + k ELSE (a % N) + k - N
<1> DEFINE q == a \div N  r == a % N  p == (a + k) \div N  s == (a + k) % N
<1> HIDE DEF q, r, p, s
<1>1. r \in 0..N - 1 /\ a = N * q + r /\ q \in Int
  BY DivMod DEF q, r
<1>2. a + k \in Nat
  OBVIOUS
<1>3. s \in 0..N - 1 /\ a + k = N * p + s /\ p \in Int
  BY <1>2, DivMod DEF p, s
<1>4. CASE r + k < N
  <2>1. r + k \in 0..N - 1 /\ N * q + (r + k) = N * p + s
    BY <1>1, <1>3, <1>4
  <2>2. r + k = s
    BY <1>1, <1>3, <2>1, ModUnique, Zenon
  <2> QED BY <1>1, <1>3, <1>4, <2>2, Zenon DEF r, s
<1>5. CASE ~(r + k < N)
  <2>1. r + k - N \in 0..N - 1 /\ q + 1 \in Int /\ N * (q + 1) + (r + k - N) = N * p + s
    BY <1>1, <1>3, <1>5
  <2>2. r + k - N = s
    BY <1>3, <2>1, ModUnique, Zenon
  <2> QED BY <1>1, <1>3, <1>5, <2>2, Zenon DEF r, s
<1> QED BY <1>4, <1>5, Zenon

-----------------------------------------------------------------------------
(***************************************************************************)
(* Refinement: the pipe implements Stream                                  *)
(***************************************************************************)
Bytes == Procs \X Nat

\* The buffer keeps its size, and a reader has passed nothing on.
DataInv ==
    /\ pipeBuf \in [0..PIPE_BUF_SIZE - 1 -> Bytes]
    /\ \A p \in Procs : pc[p] \in InRead => call[p].i = 0 /\ call[p].n # 0

LEMMA Sizes ==
  ASSUME IInv
  PROVE  /\ PIPE_BUF_SIZE \in Nat \ {0} /\ pipeReadPos \in Nat /\ pipeWritePos \in Nat
         /\ Used \in 0..PIPE_BUF_SIZE /\ pipeWritePos = pipeReadPos + Used
  BY PipeAssumption DEF PipeAssumption, IInv, TypeOK, Bounded, Used

LEMMA QueueIs ==
  ASSUME IInv, DataInv
  PROVE  queueBar \in Seq(Bytes) /\ Len(queueBar) = Used
<1> DEFINE N == PIPE_BUF_SIZE
<1>1. \A k \in 1..Used : ((pipeReadPos + k - 1) % N) \in 0..N - 1
  <2> SUFFICES ASSUME NEW k \in 1..Used PROVE ((pipeReadPos + k - 1) % N) \in 0..N - 1
    BY Zenon
  <2>1. pipeReadPos + k - 1 \in Nat
    BY Sizes
  <2> QED BY <2>1, DivMod, Sizes, Zenon
<1>2. \A k \in 1..Used : pipeBuf[(pipeReadPos + k - 1) % N] \in Bytes
  BY <1>1, Zenon DEF DataInv
<1>3. Used \in Nat
  BY Sizes
<1> QED BY <1>2, <1>3 DEF queueBar

LEMMA DataInit == Init => DataInv
  BY PipeAssumption DEF PipeAssumption, Init, DataInv, Bytes, InRead

\* The bytes of a piece.
LEMMA CopyInTypes ==
  ASSUME IInv, DataInv, NEW p \in Procs, NEW b \in 0..PIPE_BUF_SIZE - 1, NEW e \in 0..PIPE_BUF_SIZE - 1
  PROVE  CopyIn(p, b, e) \in [0..PIPE_BUF_SIZE - 1 -> Bytes]
<1> DEFINE N == PIPE_BUF_SIZE
<1>1. call[p].i \in Nat
  BY Zenon DEF IInv, TypeOK
<1>2. ASSUME NEW k \in 0..N - 1
      PROVE  CopyIn(p, b, e)[k] \in Bytes
  <2>1. k >= b => call[p].i + (k - b) \in Nat
    BY <1>1, Sizes
  <2>2. call[p].i + (N - b + k) \in Nat
    BY <1>1, Sizes
  <2>3. pipeBuf[k] \in Bytes
    BY Zenon DEF DataInv
  <2> QED BY <2>1, <2>2, <2>3 DEF CopyIn, DataInv, Bytes
<1> QED BY <1>2, Zenon DEF CopyIn, DataInv

\* pc of the others: awake or asleep, a process stays in its call.
LEMMA WakeStays ==
  ASSUME TypeOK, NEW p \in Procs, NEW cs \in SUBSET {"r", "w"}, NEW q \in Procs, NEW s \in {"user", "wsleep"},
         Wakeup([pc EXCEPT ![p] = s], cs)[q] \in InRead
  PROVE  pc[q] \in InRead /\ q # p
<1> DEFINE f == [pc EXCEPT ![p] = s]
<1>1. f \in [Procs -> {"user"} \cup InRead \cup InWrite]
  BY Zenon DEF TypeOK, InRead, InWrite
<1>2. f[q] \in InRead
  <2>1. Wakeup(f, cs)[q] \in InRead
    BY Zenon
  <2> HIDE DEF f
  <2> QED BY <1>1, <2>1, WakeupIs DEF InRead
<1> QED BY <1>2, Zenon DEF TypeOK, InRead

LEMMA CloseStays ==
  ASSUME TypeOK, NEW q \in Procs, Wakeup(pc, {"r", "w"})[q] \in InRead
  PROVE  pc[q] \in InRead
<1>1. pc \in [Procs -> {"user"} \cup InRead \cup InWrite]
  BY Zenon DEF TypeOK
<1> QED BY <1>1, WakeupIs DEF InRead

\* A reader's call is new, or it is as it was.
LEMMA ReaderStep ==
  ASSUME IInv, Next, NEW q \in Procs, pc'[q] \in InRead
  PROVE  \/ pc[q] \in InRead /\ call'[q] = call[q]
         \/ call'[q].i = 0 /\ call'[q].n # 0
<1>0. TypeOK
  BY Zenon DEF IInv
<1>1. PICK p \in Procs :
        \/ Step(p) \/ KillMark(p) \/ KillWake(p)
        \/ \E n \in Reads : ReadEnter(p, n)
        \/ \E n \in Writes : WriteEnter(p, n)
        \/ \E r \in Procs : Fork(p, r)
        \/ \E e \in {"r", "w"} : Close(p, e)
  BY Zenon DEF Next
<1>2. CASE ReadTake(p)
  <2>1. pc[q] \in InRead /\ q # p
    BY <1>0, <1>2, WakeStays, Zenon DEF ReadTake
  <2> QED BY <1>0, <1>2, <2>1, Zenon DEF ReadTake, TypeOK
<1>3. CASE WriteDone(p)
  <2>1. pc[q] \in InRead /\ q # p
    BY <1>0, <1>3, WakeStays, Zenon DEF WriteDone
  <2> QED BY <1>0, <1>3, <2>1, Zenon DEF WriteDone, TypeOK
<1>4. CASE WriteWait(p)
  <2>1. pc[q] \in InRead /\ q # p
    BY <1>0, <1>4, WakeStays, Zenon DEF WriteWait
  <2> QED BY <1>0, <1>4, <2>1, Zenon DEF WriteWait, TypeOK
<1>5. CASE WriteCopy(p)
  <2>1. pc[q] \in InRead /\ q # p
    BY <1>0, <1>5, Zenon DEF WriteCopy, Unfinished, InRead
  <2> QED BY <1>0, <1>5, <2>1, Zenon DEF WriteCopy, TypeOK
<1>6. CASE \E e \in {"r", "w"} : Close(p, e)
  BY <1>0, <1>6, CloseStays, Zenon DEF Close, FreeFd, FdPipeClose
<1>7. ASSUME NEW n \in Reads, ReadEnter(p, n)
      PROVE  \/ pc[q] \in InRead /\ call'[q] = call[q]
             \/ call'[q].i = 0 /\ call'[q].n # 0
  BY <1>0, <1>7, PipeAssumption, Zenon DEF PipeAssumption, ReadEnter, TypeOK, InRead
<1>8. ASSUME NEW n \in Writes, WriteEnter(p, n)
      PROVE  pc[q] \in InRead /\ call'[q] = call[q]
  BY <1>0, <1>8, Zenon DEF WriteEnter, TypeOK, InRead
<1>9. CASE ReadKilled(p) \/ WriteRefused(p)
  BY <1>0, <1>9, Zenon DEF ReadKilled, WriteRefused, TypeOK, InRead
<1>10. CASE ReadWait(p) \/ Sleep(p) \/ Resume(p) \/ KillMark(p) \/ KillWake(p) \/ \E r \in Procs : Fork(p, r)
  BY <1>0, <1>10, Zenon DEF ReadWait, Sleep, Resume, KillMark, KillWake, Fork, TypeOK, InRead
<1> QED BY <1>1, <1>2, <1>3, <1>4, <1>5, <1>6, <1>7, <1>8, <1>9, <1>10, Zenon DEF Step

LEMMA DataStep ==
  ASSUME IInv, DataInv, [Next]_vars
  PROVE  DataInv'
<1>1. CASE Next
  <2>1. \A q \in Procs : pc'[q] \in InRead => call'[q].i = 0 /\ call'[q].n # 0
    BY <1>1, ReaderStep, Zenon DEF DataInv
  <2>2. ASSUME NEW p \in Procs, WriteCopy(p) PROVE pipeBuf' \in [0..PIPE_BUF_SIZE - 1 -> Bytes]
    <3> DEFINE n == MIN(PIPE_BUF_SIZE - Used, call[p].n)
    <3>1. n \in Nat
      BY Sizes DEF IInv, TypeOK, MIN
    <3>2. pipeWritePos \in Nat /\ pipeWritePos + n \in Nat
      BY <3>1, Sizes
    <3>3. (pipeWritePos % PIPE_BUF_SIZE) \in 0..PIPE_BUF_SIZE - 1 /\ ((pipeWritePos + n) % PIPE_BUF_SIZE) \in 0..PIPE_BUF_SIZE - 1
      <4> HIDE DEF n
      <4> QED BY <3>2, DivMod, Sizes, Zenon
    <3> QED BY <2>2, <3>3, CopyInTypes, Zenon DEF WriteCopy
  <2>3. CASE \A p \in Procs : ~WriteCopy(p)
    <3>1. pipeBuf' = pipeBuf
      BY <1>1, <2>3, Zenon DEF Next, Step, ReadWait, ReadKilled, ReadTake, WriteRefused, WriteWait, WriteDone, Sleep, Resume,
           KillMark, KillWake, ReadEnter, WriteEnter, Fork, Close, data
    <3> QED BY <2>1, <3>1, Zenon DEF DataInv
  <2> QED BY <2>1, <2>2, <2>3, Zenon DEF DataInv
<1>2. CASE UNCHANGED vars
  BY <1>2, Zenon DEF DataInv, vars, data
<1> QED BY <1>1, <1>2, Zenon

-----------------------------------------------------------------------------
\* Sequences with the same length and the same elements.
LEMMA SameSeq ==
  ASSUME NEW S, NEW s \in Seq(S), NEW t \in Seq(S), Len(s) = Len(t), \A k \in 1..Len(s) : s[k] = t[k]
  PROVE  s = t
  OBVIOUS

LEMMA ConcatIs ==
  ASSUME NEW S, NEW s \in Seq(S), NEW t \in Seq(S)
  PROVE  /\ s \o t \in Seq(S) /\ Len(s \o t) = Len(s) + Len(t)
         /\ \A k \in 1..Len(s) + Len(t) : (s \o t)[k] = IF k <= Len(s) THEN s[k] ELSE t[k - Len(s)]
  OBVIOUS

LEMMA FunSeq ==
  ASSUME NEW S, NEW n \in Nat, NEW f \in [1..n -> S]
  PROVE  f \in Seq(S) /\ Len(f) = n
  OBVIOUS

LEMMA TakenBytes ==
  ASSUME IInv, DataInv, NEW n \in 1..Used
  PROVE  CopyOut(pipeReadPos % PIPE_BUF_SIZE, (pipeReadPos + n) % PIPE_BUF_SIZE, n) = SubSeq(queueBar, 1, n)
<1> DEFINE N == PIPE_BUF_SIZE  b == pipeReadPos % N  e == (pipeReadPos + n) % N
           out == CopyOut(b, e, n)
<1>0. N \in Nat \ {0} /\ pipeReadPos \in Nat /\ Used \in 0..N /\ n \in 1..N
  BY Sizes
<1>1. b \in 0..N - 1 /\ e = IF b + n < N THEN b + n ELSE b + n - N
  <2> n \in 0..N
    BY <1>0
  <2> QED BY <1>0, ModAdd, Zenon
<1>2. ASSUME NEW k \in 1..n
      PROVE  out[k] = queueBar[k]
  <2>1. k \in 1..Used /\ k - 1 \in 0..N
    BY <1>0
  <2>2. (pipeReadPos + (k - 1)) % N = IF b + (k - 1) < N THEN b + (k - 1) ELSE b + (k - 1) - N
    BY <1>0, <2>1, ModAdd, Zenon
  <2>3. pipeReadPos + (k - 1) = pipeReadPos + k - 1
    BY <1>0, Zenon
  <2>4. queueBar[k] = pipeBuf[(pipeReadPos + (k - 1)) % N]
    BY <2>1, <2>3, Zenon DEF queueBar
  <2>5. out[k] = IF b < e \/ k <= N - b THEN pipeBuf[b + k - 1] ELSE pipeBuf[k - 1 - (N - b)]
    BY Zenon DEF CopyOut
  <2> HIDE DEF out, b, e, N
  <2>6. CASE b + (k - 1) < N
    <3>1. k <= N - b /\ b + k - 1 = b + (k - 1)
      BY <1>0, <1>1, <2>6
    <3> QED BY <2>2, <2>4, <2>5, <2>6, <3>1, Zenon
  <2>7. CASE ~(b + (k - 1) < N)
    <3>1. ~(b < e) /\ ~(k <= N - b) /\ k - 1 - (N - b) = b + (k - 1) - N
      BY <1>0, <1>1, <2>7
    <3> QED BY <2>2, <2>4, <2>5, <2>7, <3>1, Zenon
  <2> QED BY <2>6, <2>7, Zenon
<1>3. queueBar \in Seq(Bytes) /\ Len(queueBar) = Used
  BY QueueIs, Zenon
<1>4. out = [k \in 1..n |-> queueBar[k]]
  <2>1. out = [k \in 1..n |-> out[k]]
    BY Zenon DEF CopyOut
  <2> HIDE DEF out
  <2> QED BY <1>2, <2>1, Zenon
<1>5. SubSeq(queueBar, 1, n) = [k \in 1..n |-> queueBar[k]]
  <2>1. SubSeq(queueBar, 1, n) \in Seq(Bytes) /\ Len(SubSeq(queueBar, 1, n)) = n
        /\ \A k \in 1..n : SubSeq(queueBar, 1, n)[k] = queueBar[k]
    BY <1>0, <1>3
  <2> QED BY <2>1
<1> HIDE DEF out, b, e, N
<1> QED BY <1>4, <1>5, Zenon DEF out, b, e, N

LEMMA TakenQueue ==
  ASSUME IInv, DataInv, IInv', DataInv', NEW n \in 1..Used,
         pipeReadPos' = pipeReadPos + n, UNCHANGED <<pipeWritePos, pipeBuf>>
  PROVE  queueBar' = SubSeq(queueBar, n + 1, Len(queueBar))
<1> DEFINE t == SubSeq(queueBar, n + 1, Len(queueBar))
<1>0. PIPE_BUF_SIZE \in Nat \ {0} /\ pipeReadPos \in Nat /\ pipeWritePos \in Nat /\ Used \in 0..PIPE_BUF_SIZE
  BY Sizes, Zenon
<1>1. Used' = Used - n
  BY <1>0 DEF Used
<1>2. queueBar \in Seq(Bytes) /\ Len(queueBar) = Used
  BY QueueIs, Zenon
<1>3. (queueBar \in Seq(Bytes) /\ Len(queueBar) = Used)'
  BY QueueIs, PTL
<1>4. t \in Seq(Bytes) /\ Len(t) = Used - n /\ \A k \in 1..Used - n : t[k] = queueBar[n + k]
  BY <1>0, <1>2
<1>5. ASSUME NEW k \in 1..Used - n PROVE (queueBar')[k] = queueBar[n + k]
  <2>1. (queueBar')[k] = pipeBuf[(pipeReadPos + n + k - 1) % PIPE_BUF_SIZE]
    BY <1>1, Zenon DEF queueBar
  <2>2. n + k \in 1..Used
    BY <1>0
  <2>3. queueBar[n + k] = pipeBuf[(pipeReadPos + (n + k) - 1) % PIPE_BUF_SIZE]
    BY <2>2, Zenon DEF queueBar
  <2>4. pipeReadPos + (n + k) - 1 = pipeReadPos + n + k - 1
    BY <1>0
  <2> QED BY <2>1, <2>3, <2>4, Zenon
<1> HIDE DEF t
<1>6. queueBar' = t
  BY <1>1, <1>3, <1>4, <1>5, SameSeq, Zenon
<1> QED BY <1>6, Zenon DEF t

\* The j-th byte of a piece of n goes to the j-th cell from b.
LEMMA NewCell ==
  ASSUME IInv, DataInv, NEW p \in Procs, NEW n \in 1..PIPE_BUF_SIZE, NEW j \in 0..n - 1,
         NEW b \in 0..PIPE_BUF_SIZE - 1, NEW e \in 0..PIPE_BUF_SIZE - 1, NEW c \in 0..PIPE_BUF_SIZE - 1,
         e = (IF b + n < PIPE_BUF_SIZE THEN b + n ELSE b + n - PIPE_BUF_SIZE),
         c = (IF b + j < PIPE_BUF_SIZE THEN b + j ELSE b + j - PIPE_BUF_SIZE)
  PROVE  CopyIn(p, b, e)[c] = <<p, call[p].i + j>>
<1>0. PIPE_BUF_SIZE \in Nat \ {0} /\ DOMAIN pipeBuf = 0..PIPE_BUF_SIZE - 1
  BY Sizes, Zenon DEF DataInv
<1> DEFINE N == PIPE_BUF_SIZE
<1>1. CASE b < e
  <2>1. c \in b..e - 1 /\ c - b = j
    BY <1>0, <1>1
  <2> QED BY <1>0, <1>1, <2>1, SMTT(30) DEF CopyIn
<1>2. CASE b >= e /\ b + j < N
  <2>1. c >= b /\ c - b = j /\ ~(b < e)
    BY <1>0, <1>2
  <2>2. ~(c < e)
    BY <1>0, <1>2, <2>1
  <2> QED BY <1>0, <1>2, <2>1, <2>2, Zenon DEF CopyIn
<1>3. CASE b >= e /\ ~(b + j < N)
  <2>1. ~(c >= b) /\ c < e /\ (N - b) + c = j /\ ~(b < e)
    BY <1>0, <1>3
  <2> QED BY <1>0, <1>3, <2>1, Zenon DEF CopyIn
<1> QED BY <1>0, <1>1, <1>2, <1>3

\* A cell d before b keeps its byte: the buffer has room for d and n.
LEMMA OldCell ==
  ASSUME IInv, DataInv, NEW p \in Procs, NEW n \in 1..PIPE_BUF_SIZE, NEW d \in 1..PIPE_BUF_SIZE, d + n <= PIPE_BUF_SIZE,
         NEW b \in 0..PIPE_BUF_SIZE - 1, NEW e \in 0..PIPE_BUF_SIZE - 1, NEW c \in 0..PIPE_BUF_SIZE - 1,
         e = (IF b + n < PIPE_BUF_SIZE THEN b + n ELSE b + n - PIPE_BUF_SIZE),
         b = (IF c + d < PIPE_BUF_SIZE THEN c + d ELSE c + d - PIPE_BUF_SIZE)
  PROVE  CopyIn(p, b, e)[c] = pipeBuf[c]
<1>0. PIPE_BUF_SIZE \in Nat \ {0} /\ DOMAIN pipeBuf = 0..PIPE_BUF_SIZE - 1
  BY Sizes, Zenon DEF DataInv
<1>1. ~(b < e /\ c \in b..e - 1)
  BY <1>0
<1>2. ~(b >= e /\ c >= b)
  BY <1>0
<1>3. ~(b >= e /\ c < e)
  BY <1>0
<1> QED BY <1>0, <1>1, <1>2, <1>3, Zenon DEF CopyIn

LEMMA PutQueue ==
  ASSUME IInv, DataInv, IInv', DataInv', NEW p \in Procs, NEW n \in 1..PIPE_BUF_SIZE, Used + n <= PIPE_BUF_SIZE,
         pipeBuf' = CopyIn(p, pipeWritePos % PIPE_BUF_SIZE, (pipeWritePos + n) % PIPE_BUF_SIZE),
         pipeWritePos' = pipeWritePos + n, pipeReadPos' = pipeReadPos
  PROVE  queueBar' = queueBar \o [k \in 1..n |-> <<p, sentBar[p] + k - 1>>]
<1> DEFINE N == PIPE_BUF_SIZE  b == pipeWritePos % N  e == (pipeWritePos + n) % N
           new == [k \in 1..n |-> <<p, sentBar[p] + k - 1>>]
           both == queueBar \o new
<1>0. /\ N \in Nat \ {0} /\ pipeReadPos \in Nat /\ pipeWritePos \in Nat /\ Used \in 0..N
      /\ pipeWritePos = pipeReadPos + Used /\ call[p].i \in Nat /\ sentBar[p] = call[p].i
  BY Sizes, Zenon DEF IInv, TypeOK, sentBar
<1>1. Used' = Used + n
  BY <1>0 DEF Used
<1>2. queueBar \in Seq(Bytes) /\ Len(queueBar) = Used
  BY QueueIs, Zenon
<1>3. (queueBar \in Seq(Bytes) /\ Len(queueBar) = Used)'
  BY QueueIs, PTL
<1>4. new \in Seq(Bytes) /\ Len(new) = n
  <2>1. \A k \in 1..n : <<p, sentBar[p] + k - 1>> \in Bytes
    BY <1>0 DEF Bytes
  <2>2. new \in [1..n -> Bytes]
    BY <2>1, Zenon
  <2>3. n \in Nat
    BY <1>0
  <2> HIDE DEF new
  <2> QED BY <2>2, <2>3, FunSeq, Zenon
<1>5. /\ both \in Seq(Bytes) /\ Len(both) = Used + n
      /\ \A k \in 1..Used + n : both[k] = IF k <= Used THEN queueBar[k] ELSE new[k - Used]
  <2> HIDE DEF new
  <2> QED BY <1>0, <1>2, <1>4, ConcatIs, ZenonT(60)
<1>6. b \in 0..N - 1 /\ e \in 0..N - 1 /\ e = (IF b + n < N THEN b + n ELSE b + n - N)
  <2>1. n \in 0..N
    BY <1>0
  <2> QED BY <1>0, <2>1, ModAdd, Zenon
<1>7. ASSUME NEW k \in 1..Used + n PROVE (queueBar')[k] = both[k]
  <2> DEFINE c == (pipeReadPos + (k - 1)) % N
  <2>1. (queueBar')[k] = CopyIn(p, b, e)[c]
    <3>1. pipeReadPos + k - 1 = pipeReadPos + (k - 1)
      BY <1>0, Zenon
    <3> QED BY <1>1, <3>1, Zenon DEF queueBar
  <2>2. pipeReadPos + (k - 1) \in Nat
    BY <1>0
  <2>3. c \in 0..N - 1
    BY <1>0, <2>2, DivMod, Zenon
  <2>4. CASE k <= Used
    <3> DEFINE d == Used - (k - 1)
    <3>1. d \in 1..N /\ d + n <= N /\ (pipeReadPos + (k - 1)) + d = pipeWritePos
      BY <1>0, <2>4
    <3>2. b = IF c + d < N THEN c + d ELSE c + d - N
      <4>1. d \in 0..N
        BY <1>0, <3>1
      <4> HIDE DEF d
      <4> QED BY <1>0, <2>2, <3>1, <4>1, ModAdd, Zenon
    <3>3. k \in 1..Used /\ pipeReadPos + k - 1 = pipeReadPos + (k - 1)
      BY <1>0, <2>4
    <3>4. queueBar[k] = pipeBuf[c]
      BY <3>3, Zenon DEF queueBar
    <3>5. CopyIn(p, b, e)[c] = pipeBuf[c]
      <4> HIDE DEF b, c, d, e
      <4> QED BY <1>6, <2>3, <3>1, <3>2, OldCell
    <3> QED BY <1>5, <2>1, <2>4, <3>4, <3>5, Zenon
  <2>5. CASE ~(k <= Used)
    <3> DEFINE j == k - Used - 1
    <3>1. j \in 0..n - 1 /\ j \in 0..N /\ pipeReadPos + (k - 1) = pipeWritePos + j /\ k - Used \in 1..n
      BY <1>0, <2>5
    <3>2. c = IF b + j < N THEN b + j ELSE b + j - N
      <4> HIDE DEF j
      <4> QED BY <1>0, <3>1, ModAdd, Zenon
    <3>3. CopyIn(p, b, e)[c] = <<p, call[p].i + j>>
      <4> HIDE DEF b, c, j, e
      <4> QED BY <1>6, <2>3, <3>1, <3>2, NewCell
    <3>4. new[k - Used] = <<p, call[p].i + j>>
      <4>1. call[p].i + (k - Used) - 1 = call[p].i + j
        BY <1>0, Zenon
      <4> QED BY <1>0, <3>1, <4>1, Zenon
    <3> QED
      <4> HIDE DEF new, b, c, e, j
      <4> QED BY <1>5, <2>1, <2>5, <3>3, <3>4, Zenon
  <2> QED BY <2>4, <2>5, Zenon
<1> HIDE DEF new, both
<1>8. queueBar' = both
  BY <1>1, <1>3, <1>5, <1>7, SameSeq, Zenon
<1> QED BY <1>8, Zenon DEF both, new

-----------------------------------------------------------------------------
LEMMA QueueKept ==
  ASSUME UNCHANGED data PROVE queueBar' = queueBar
<1>1. Used' = Used
  BY Zenon DEF data, Used
<1> QED BY <1>1, Zenon DEF data, queueBar

\* A call that begins or ends is Begin.
LEMMA BeginStep ==
  ASSUME TypeOK, NEW p \in Procs, NEW n \in Nat, call' = [call EXCEPT ![p] = [n |-> n, i |-> 0]],
         UNCHANGED <<data, count, got>>
  PROVE  Abstract!Begin(p)
<1>1. \A q \in Procs : call'[q].i = IF q = p THEN 0 ELSE call[q].i
  BY Zenon DEF TypeOK
<1>2. sentBar' = [sentBar EXCEPT ![p] = 0]
  BY <1>1, Zenon DEF sentBar
<1>3. queueBar' = queueBar
  BY QueueKept, Zenon
<1> QED BY <1>2, <1>3, Zenon DEF Abstract!Begin, openBar

LEMMA ReadTakes ==
  ASSUME IInv, DataInv, IInv', DataInv', NEW p \in Procs, ReadTake(p)
  PROVE  Abstract!EndOfFile \/ \E n \in 1..Len(queueBar) : Abstract!Take(n)
<1> DEFINE n == MIN(call[p].n, Used)
<1>0. /\ PIPE_BUF_SIZE \in Nat \ {0} /\ pipeReadPos \in Nat /\ pipeWritePos \in Nat /\ Used \in 0..PIPE_BUF_SIZE
      /\ pipeWritePos = pipeReadPos + Used
  BY Sizes, Zenon
<1>1. call[p] \in [n : Nat, i : Nat] /\ call[p].i = 0 /\ call[p].n # 0
  BY Zenon DEF IInv, TypeOK, DataInv, ReadTake, InRead
<1>2. n \in 0..Used /\ (n = 0 <=> Used = 0)
  BY <1>0, <1>1 DEF MIN
<1>3. UNCHANGED sentBar
  <2>1. \A q \in Procs : call'[q].i = call[q].i
    BY <1>1, Zenon DEF ReadTake, IInv, TypeOK, NoCall
  <2> QED BY <2>1, Zenon DEF sentBar
<1>4. UNCHANGED openBar
  BY Zenon DEF ReadTake, openBar
<1>5. pipeReadPos' = pipeReadPos + n /\ UNCHANGED <<pipeWritePos, pipeBuf>>
  BY Zenon DEF ReadTake
<1>6. got' = IF n = 0 THEN <<>> ELSE CopyOut(pipeReadPos % PIPE_BUF_SIZE, (pipeReadPos + n) % PIPE_BUF_SIZE, n)
  BY Zenon DEF ReadTake
<1>7. queueBar \in Seq(Bytes) /\ Len(queueBar) = Used
  BY QueueIs, Zenon
<1>8. CASE n = 0
  <2>1. Empty /\ queueBar = <<>>
    BY <1>0, <1>2, <1>7, <1>8 DEF Empty
  <2>2. ~openBar
    BY <2>1 DEF ReadTake, pipeIsClose, openBar
  <2>3. queueBar' = queueBar
    <3>1. UNCHANGED data
      BY <1>0, <1>5, <1>8 DEF data
    <3> QED BY <3>1, QueueKept, Zenon
  <2> HIDE DEF n
  <2> QED BY <1>3, <1>4, <1>6, <1>8, <2>1, <2>2, <2>3, Zenon DEF Abstract!EndOfFile
<1>9. CASE n # 0
  <2>1. n \in 1..Used /\ n \in 1..Len(queueBar) /\ n > 0
    BY <1>0, <1>2, <1>7, <1>9
  <2> HIDE DEF n
  <2>2. queueBar' = SubSeq(queueBar, n + 1, Len(queueBar))
    BY <1>5, <2>1, TakenQueue, Zenon
  <2>3. got' = SubSeq(queueBar, 1, n)
    BY <1>6, <1>9, <2>1, TakenBytes, Zenon
  <2> QED BY <1>3, <1>4, <2>1, <2>2, <2>3, Zenon DEF Abstract!Take
<1> QED BY <1>8, <1>9, Zenon

LEMMA WritePuts ==
  ASSUME IInv, DataInv, IInv', DataInv', NEW p \in Procs, WriteCopy(p)
  PROVE  \E n \in 1..PIPE_BUF_SIZE : Abstract!Put(p, n)
<1> DEFINE n == MIN(PIPE_BUF_SIZE - Used, call[p].n)
<1>0. /\ PIPE_BUF_SIZE \in Nat \ {0} /\ pipeReadPos \in Nat /\ pipeWritePos \in Nat /\ Used \in 0..PIPE_BUF_SIZE
      /\ pipeWritePos = pipeReadPos + Used
  BY Sizes, Zenon
<1>1. call[p] \in [n : Nat, i : Nat] /\ call[p].n # 0 /\ Used # PIPE_BUF_SIZE
  BY DEF IInv, TypeOK, WriteCopy, Unfinished
<1>2. n \in 1..PIPE_BUF_SIZE /\ Used + n <= PIPE_BUF_SIZE /\ n > 0
  BY <1>0, <1>1 DEF MIN
<1>3. openBar /\ UNCHANGED <<openBar, got>>
  BY DEF WriteCopy, Refused, pipeIsClose, openBar, IInv, TypeOK
<1>4. /\ pipeBuf' = CopyIn(p, pipeWritePos % PIPE_BUF_SIZE, (pipeWritePos + n) % PIPE_BUF_SIZE)
      /\ pipeWritePos' = pipeWritePos + n /\ pipeReadPos' = pipeReadPos
      /\ call' = [call EXCEPT ![p].i = @ + n]
  BY Zenon DEF WriteCopy
<1> HIDE DEF n
<1>5. queueBar' = queueBar \o [k \in 1..n |-> <<p, sentBar[p] + k - 1>>]
  BY <1>2, <1>4, PutQueue, Zenon
<1>6. sentBar' = [sentBar EXCEPT ![p] = @ + n]
  <2>1. \A q \in Procs : call'[q].i = IF q = p THEN call[q].i + n ELSE call[q].i
    BY <1>4, Zenon DEF IInv, TypeOK
  <2> QED BY <2>1, Zenon DEF sentBar
<1>7. Len(queueBar) + n <= PIPE_BUF_SIZE
  BY <1>2, QueueIs, Zenon
<1> QED BY <1>2, <1>3, <1>5, <1>6, <1>7, Zenon DEF Abstract!Put

LEMMA CloseShuts ==
  ASSUME IInv, NEW p \in Procs, NEW e \in {"r", "w"}, Close(p, e)
  PROVE  Abstract!Shut \/ UNCHANGED <<queueBar, openBar, sentBar, got>>
<1>1. queueBar' = queueBar /\ sentBar' = sentBar /\ got' = got
  BY QueueKept, Zenon DEF Close, sentBar
<1>2. CASE LastHolder(p, e)
  <2>1. openBar' = FALSE
    BY <1>2 DEF Close, FreeFd, FdPipeClose, openBar, IInv, TypeOK
  <2> QED BY <1>1, <2>1, Zenon DEF Abstract!Shut
<1>3. CASE ~LastHolder(p, e)
  BY <1>1, <1>3, Zenon DEF Close, FreeFd, openBar
<1> QED BY <1>2, <1>3, Zenon

LEMMA StreamStep ==
  ASSUME IInv, DataInv, IInv', DataInv', [Next]_vars
  PROVE  [Abstract!Next]_(Abstract!vars)
<1> SUFFICES Abstract!Next \/ UNCHANGED <<queueBar, openBar, sentBar, got>>
  BY Zenon DEF Abstract!vars
<1>0. TypeOK
  BY Zenon DEF IInv
<1>1. CASE UNCHANGED vars
  BY <1>1, QueueKept, Zenon DEF vars, data, openBar, sentBar
<1>2. CASE Next
  <2>1. PICK p \in Procs :
          \/ Step(p) \/ KillMark(p) \/ KillWake(p)
          \/ \E n \in Reads : ReadEnter(p, n)
          \/ \E n \in Writes : WriteEnter(p, n)
          \/ \E r \in Procs : Fork(p, r)
          \/ \E e \in {"r", "w"} : Close(p, e)
    BY <1>2, Zenon DEF Next
  <2>2. CASE ReadTake(p)
    BY <2>2, ReadTakes, Zenon DEF Abstract!Next
  <2>3. CASE WriteCopy(p)
    BY <2>3, WritePuts, Zenon DEF Abstract!Next
  <2>4. CASE \E e \in {"r", "w"} : Close(p, e)
    BY <2>4, CloseShuts, Zenon DEF Abstract!Next
  <2>5. CASE ReadKilled(p) \/ WriteRefused(p) \/ WriteDone(p)
    <3>1. call' = [call EXCEPT ![p] = [n |-> 0, i |-> 0]] /\ UNCHANGED <<data, count, got>> /\ 0 \in Nat
      BY <2>5, Zenon DEF ReadKilled, WriteRefused, WriteDone, NoCall, data
    <3> QED BY <1>0, <3>1, BeginStep, Zenon DEF Abstract!Next
  <2>6. ASSUME NEW n \in Reads \cup Writes, ReadEnter(p, n) \/ WriteEnter(p, n) PROVE Abstract!Next
    <3>1. call' = [call EXCEPT ![p] = [n |-> n, i |-> 0]] /\ UNCHANGED <<data, count, got>>
      BY <2>6, Zenon DEF ReadEnter, WriteEnter, data
    <3>2. n \in Nat
      BY PipeAssumption, Zenon DEF PipeAssumption
    <3> QED BY <1>0, <3>1, <3>2, BeginStep, Zenon DEF Abstract!Next
  <2>7. CASE ReadWait(p) \/ WriteWait(p) \/ Sleep(p) \/ Resume(p) \/ KillMark(p) \/ KillWake(p) \/ \E r \in Procs : Fork(p, r)
    <3>1. UNCHANGED <<data, count, got, call>>
      BY <2>7, Zenon DEF ReadWait, WriteWait, Sleep, Resume, KillMark, KillWake, Fork, data
    <3> QED BY <3>1, QueueKept, Zenon DEF openBar, sentBar
  <2> QED BY <2>1, <2>2, <2>3, <2>4, <2>5, <2>6, <2>7, Zenon DEF Step
<1> QED BY <1>1, <1>2, Zenon

\* For any processes, buffer size and lengths: whatever the positions and
\* however a copy is cut at the end of the buffer, fd_pipe_read(),
\* fd_pipe_write() and fd_pipe_close() do what a bounded stream does.  No
\* byte is lost, repeated or out of order, a write that is cut in pieces
\* passes them on in order, and end of file is reported only when the pipe
\* is empty and one of its ends is closed.
THEOREM StreamImplemented == Spec => ImplementsStream
<1>1. Init => Abstract!Init
  <2> SUFFICES ASSUME Init PROVE Abstract!Init
    BY Zenon
  <2>1. Used = 0
    BY DEF Init, Used
  <2>2. queueBar = <<>>
    BY <2>1 DEF queueBar
  <2>3. sentBar = [p \in Procs |-> 0]
    BY Zenon DEF Init, NoCall, sentBar
  <2> QED BY <2>2, <2>3, Zenon DEF Abstract!Init, Init, openBar
<1>2. Init => IInv /\ DataInv
  BY InitInv, DataInit, Zenon
<1>3. IInv /\ DataInv /\ [Next]_vars => IInv' /\ DataInv'
  BY NextStep, DataStep, Zenon
<1>4. IInv /\ DataInv /\ IInv' /\ DataInv' /\ [Next]_vars => [Abstract!Next]_(Abstract!vars)
  BY StreamStep, Zenon
<1> QED
  BY <1>1, <1>2, <1>3, <1>4, PTL DEF Spec, ImplementsStream, Abstract!Spec
=============================================================================
