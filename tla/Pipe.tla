-------------------------------- MODULE Pipe --------------------------------
(***************************************************************************)
(* Pipes (kern/fs/fd/pipe.c): one pipe, the processes that share its two   *)
(* ends through fork(), and the kill of a process blocked in it.           *)
(*                                                                         *)
(* A process is in the loop of a read or a write, with the pipe's lock, at *)
(* "reading" and "writing"; at "rsleep" and "wsleep" it has decided to     *)
(* sleep and still has the lock, which sleep() gives up under the lock of  *)
(* the sleep queue.                                                        *)
(***************************************************************************)
EXTENDS Naturals, Sequences

CONSTANTS
    Procs, First,       \* First is the process that called pipe()
    Writers, Killable,  \* the processes whose program writes, and is killed
    PIPE_BUF_SIZE,
    Reads, Writes,      \* the lengths programs read and write
    MaxBytes            \* bound on the bytes written

ASSUME PipeAssumption ==
    /\ First \in Procs /\ Writers \subseteq Procs /\ Killable \subseteq Procs
    /\ PIPE_BUF_SIZE \in Nat \ {0} /\ Reads \cup Writes \subseteq Nat \ {0} /\ MaxBytes \in Nat

VARIABLES
    count,      \* the pipe's ends that are open, in kernel descriptors
    pipeReadPos, pipeWritePos, pipeBuf,
    holds,      \* the ends, "r" and "w", in a process's descriptor table
    pc,
    call,       \* the n and i of a process's call
    killed,     \* td_killed: not set, "marked", or "told" (woken, too)
    got         \* what the last read() of all copied out

vars == <<count, pipeReadPos, pipeWritePos, pipeBuf, holds, pc, call, killed, got>>
data == <<pipeReadPos, pipeWritePos, pipeBuf>>

NoCall == [n |-> 0, i |-> 0]

Init ==
    /\ count = 2
    /\ pipeReadPos = 0 /\ pipeWritePos = 0
    /\ pipeBuf = [k \in 0..PIPE_BUF_SIZE - 1 |-> <<First, 0>>]
    /\ holds = [p \in Procs |-> IF p = First THEN {"r", "w"} ELSE {}]
    /\ pc = [p \in Procs |-> "user"]
    /\ call = [p \in Procs |-> NoCall]
    /\ killed = [p \in Procs |-> "no"]
    /\ got = <<>>

Locked == \E p \in Procs : pc[p] \in {"reading", "writing", "rsleep", "wsleep"}
Used == pipeWritePos - pipeReadPos
Empty == pipeReadPos = pipeWritePos
pipeIsClose == count <= 1
MIN(a, b) == IF a <= b THEN a ELSE b

\* wakeup(): "r" is the channel &p->pipeReadPos, "w" is &p->pipeWritePos.
Asleep(c) == IF c = "r" THEN "rasleep" ELSE "wasleep"
Woken(c) == IF c = "r" THEN "rwoken" ELSE "wwoken"
Wakeup(f, cs) == [p \in Procs |-> IF \E c \in cs : f[p] = Asleep(c)
                                  THEN Woken(CHOOSE c \in cs : f[p] = Asleep(c)) ELSE f[p]]

(***************************************************************************)
(* fd_pipe_read()                                                          *)
(***************************************************************************)
ReadEnter(p, n) ==
    /\ pc[p] = "user" /\ "r" \in holds[p] /\ killed[p] = "no" /\ ~Locked
    /\ pc' = [pc EXCEPT ![p] = "reading"]
    /\ call' = [call EXCEPT ![p] = [n |-> n, i |-> 0]]
    /\ UNCHANGED <<count, data, holds, killed, got>>

ReadWait(p) ==
    /\ pc[p] = "reading" /\ Empty /\ ~pipeIsClose /\ killed[p] = "no"
    /\ pc' = [pc EXCEPT ![p] = "rsleep"]
    /\ UNCHANGED <<count, data, holds, call, killed, got>>

ReadKilled(p) ==
    /\ pc[p] = "reading" /\ killed[p] # "no"
    /\ pc' = [pc EXCEPT ![p] = "user"] /\ call' = [call EXCEPT ![p] = NoCall]
    /\ UNCHANGED <<count, data, holds, killed, got>>

\* copyOut(): in one piece, or up to the end of the buffer and from its start.
CopyOut_OnePiece(begin, end, size) ==
    [k \in 1..size |-> pipeBuf[MIN(begin + k, PIPE_BUF_SIZE) - 1]]
CopyOut(begin, end, size) ==
    LET upper == PIPE_BUF_SIZE - begin IN
    [k \in 1..size |-> IF begin < end \/ k <= upper THEN pipeBuf[begin + k - 1] ELSE pipeBuf[k - 1 - upper]]

ReadTake(p) ==
    LET read_size == MIN(call[p].n, Used)
        read_dst  == pipeReadPos + read_size
    IN
    /\ pc[p] = "reading" /\ killed[p] = "no" /\ (Empty => pipeIsClose)
    /\ got' = IF read_size = 0 THEN <<>>
              ELSE CopyOut(pipeReadPos % PIPE_BUF_SIZE, read_dst % PIPE_BUF_SIZE, read_size)
    /\ pipeReadPos' = read_dst
    /\ pc' = Wakeup([pc EXCEPT ![p] = "user"], {"w"}) /\ call' = [call EXCEPT ![p] = NoCall]
    /\ UNCHANGED <<count, pipeWritePos, pipeBuf, holds, killed>>

(***************************************************************************)
(* fd_pipe_write()                                                         *)
(***************************************************************************)
WriteEnter(p, n) ==
    /\ pc[p] = "user" /\ "w" \in holds[p] /\ killed[p] = "no" /\ ~Locked
    /\ p \in Writers /\ pipeWritePos + n <= MaxBytes
    /\ pc' = [pc EXCEPT ![p] = "writing"]
    /\ call' = [call EXCEPT ![p] = [n |-> n, i |-> 0]]
    /\ UNCHANGED <<count, data, holds, killed, got>>

Unfinished(p) == pc[p] = "writing" /\ call[p].i < call[p].n
Refused(p) == pipeIsClose \/ killed[p] # "no"

WriteRefused(p) ==
    /\ Unfinished(p) /\ Refused(p)
    /\ pc' = [pc EXCEPT ![p] = "user"] /\ call' = [call EXCEPT ![p] = NoCall]
    /\ UNCHANGED <<count, data, holds, killed, got>>

WriteWait_Silent(p) ==
    /\ Unfinished(p) /\ ~Refused(p) /\ Used = PIPE_BUF_SIZE
    /\ pc' = [pc EXCEPT ![p] = "wsleep"]
    /\ UNCHANGED <<count, data, holds, call, killed, got>>
WriteWait(p) ==
    /\ Unfinished(p) /\ ~Refused(p) /\ Used = PIPE_BUF_SIZE
    /\ pc' = Wakeup([pc EXCEPT ![p] = "wsleep"], {"r"})
    /\ UNCHANGED <<count, data, holds, call, killed, got>>

CopyIn(p, begin, end) ==
    LET byte(k) == <<p, call[p].i + k>>
        upper   == PIPE_BUF_SIZE - begin
    IN  [k \in DOMAIN pipeBuf |->
            CASE begin < end /\ k \in begin..end - 1 -> byte(k - begin)
              [] begin >= end /\ k >= begin -> byte(k - begin)
              [] begin >= end /\ k < end -> byte(upper + k)
              [] OTHER -> pipeBuf[k]]

\* The length of a piece is compared with n, not with the n - i left to do.
WriteCopy(p) ==
    LET write_length == MIN(PIPE_BUF_SIZE - Used, call[p].n)
        write_dst    == pipeWritePos + write_length
    IN
    /\ Unfinished(p) /\ ~Refused(p) /\ Used # PIPE_BUF_SIZE
    /\ pipeBuf' = CopyIn(p, pipeWritePos % PIPE_BUF_SIZE, write_dst % PIPE_BUF_SIZE)
    /\ pipeWritePos' = write_dst
    /\ call' = [call EXCEPT ![p].i = @ + write_length]
    /\ UNCHANGED <<count, pipeReadPos, holds, pc, killed, got>>

WriteDone(p) ==
    /\ pc[p] = "writing" /\ call[p].i >= call[p].n
    /\ pc' = Wakeup([pc EXCEPT ![p] = "user"], {"r"}) /\ call' = [call EXCEPT ![p] = NoCall]
    /\ UNCHANGED <<count, data, holds, killed, got>>

(***************************************************************************)
(* sleep(), and what follows it: the lock is taken again                   *)
(***************************************************************************)
Sleep(p) ==
    /\ pc[p] \in {"rsleep", "wsleep"}
    /\ pc' = [pc EXCEPT ![p] = IF @ = "rsleep" THEN "rasleep" ELSE "wasleep"]
    /\ UNCHANGED <<count, data, holds, call, killed, got>>

Resume(p) ==
    /\ pc[p] \in {"rwoken", "wwoken"} /\ ~Locked
    /\ pc' = [pc EXCEPT ![p] = IF @ = "rwoken" THEN "reading" ELSE "writing"]
    /\ UNCHANGED <<count, data, holds, call, killed, got>>

(***************************************************************************)
(* Descriptors: fork_thread_fs() and freeFd() with fd_pipe_close().  A     *)
(* process has one thread, which closes nothing while it reads or writes.  *)
(***************************************************************************)
Fork(p, q) ==
    /\ pc[p] = "user" /\ pc[q] = "user" /\ holds[p] # {} /\ holds[q] = {}
    /\ killed[p] = "no" /\ killed[q] = "no"
    /\ holds' = [holds EXCEPT ![q] = holds[p]]
    /\ UNCHANGED <<count, data, pc, call, killed, got>>

LastHolder(p, e) == \A q \in Procs \ {p} : e \notin holds[q]

FdPipeClose ==
    /\ ~Locked /\ count' = count - 1
    /\ pc' = Wakeup(pc, {"r", "w"})

FreeFd_EveryHolder(p, e) == FdPipeClose
FreeFd(p, e) == IF LastHolder(p, e) THEN FdPipeClose ELSE UNCHANGED <<count, pc>>

Close(p, e) ==
    /\ pc[p] = "user" /\ e \in holds[p]
    /\ FreeFd(p, e)
    /\ holds' = [holds EXCEPT ![p] = @ \ {e}]
    /\ UNCHANGED <<data, call, killed, got>>

(***************************************************************************)
(* SIGKILL: the flag is set, then the process is woken if it is asleep.  A *)
(* process killed outside of its calls closes its ends, as any process may *)
(***************************************************************************)
KillMark(p) ==
    /\ p \in Killable /\ pc[p] # "user" /\ killed[p] = "no"
    /\ killed' = [killed EXCEPT ![p] = "marked"]
    /\ UNCHANGED <<count, data, holds, pc, call, got>>

KillWake(p) ==
    /\ killed[p] = "marked"
    /\ killed' = [killed EXCEPT ![p] = "told"]
    /\ pc' = [pc EXCEPT ![p] = CASE @ = "rasleep" -> "rwoken" [] @ = "wasleep" -> "wwoken" [] OTHER -> @]
    /\ UNCHANGED <<count, data, holds, call, got>>

\* A call in progress.
Step(p) ==
    \/ ReadWait(p) \/ ReadKilled(p) \/ ReadTake(p)
    \/ WriteRefused(p) \/ WriteWait(p) \/ WriteCopy(p) \/ WriteDone(p)
    \/ Sleep(p) \/ Resume(p)

Next == \E p \in Procs :
    \/ Step(p) \/ KillMark(p) \/ KillWake(p)
    \/ \E n \in Reads : ReadEnter(p, n)
    \/ \E n \in Writes : WriteEnter(p, n)
    \/ \E q \in Procs : Fork(p, q)
    \/ \E e \in {"r", "w"} : Close(p, e)

Spec == Init /\ [][Next]_vars

(***************************************************************************)
(* Properties                                                              *)
(***************************************************************************)
\* sleep() and wakeup() in fd_pipe_read(), fd_pipe_write(), fd_pipe_close():
\* whenever the pipe's lock is free, a process sleeps in read() only if the
\* pipe is empty and in write() only if it is full, and never once one of the
\* ends is closed.
NoLostWakeup ==
    ~Locked => \A p \in Procs :
        /\ pc[p] = "rasleep" => Empty /\ count = 2
        /\ pc[p] = "wasleep" => Used = PIPE_BUF_SIZE /\ count = 2

\* fd_pipe_close() frees the pipe when count reaches 0: by then no process is
\* in a read or a write, or could start one.
FreedIsUnused == count = 0 => \A p \in Procs : pc[p] = "user" /\ holds[p] = {}

\* Positions that run on, a buffer used in a circle and copies in two pieces
\* implement a bounded stream: no byte is lost, repeated or out of order.
queueBar == [k \in 1..Used |-> pipeBuf[(pipeReadPos + k - 1) % PIPE_BUF_SIZE]]
openBar == count = 2
sentBar == [p \in Procs |-> call[p].i]
Abstract == INSTANCE Stream WITH queue <- queueBar, open <- openBar, sent <- sentBar
ImplementsStream == Abstract!Spec
=============================================================================
