------------------------------- MODULE Stream -------------------------------
(***************************************************************************)
(* What a pipe promises (kern/fs/fd/pipe.c): a bounded first-in first-out  *)
(* stream of bytes.  A write passes its buffer on in consecutive chunks, a *)
(* read takes a prefix of what is there, and end of file is reported only  *)
(* when the stream is empty and one of its ends is closed.                 *)
(***************************************************************************)
EXTENDS Naturals, Sequences

CONSTANTS Procs, PIPE_BUF_SIZE

VARIABLES
    queue,  \* the bytes under way; a byte is <<writer, offset in its buffer>>
    open,   \* both ends exist
    sent,   \* how much of its buffer a writer has passed on
    got     \* what the last read brought

vars == <<queue, open, sent, got>>

Init ==
    /\ queue = <<>> /\ open = TRUE
    /\ sent = [p \in Procs |-> 0] /\ got = <<>>

Begin(p) == sent' = [sent EXCEPT ![p] = 0] /\ UNCHANGED <<queue, open, got>>

Put(p, n) ==
    /\ open /\ n > 0 /\ Len(queue) + n <= PIPE_BUF_SIZE
    /\ queue' = queue \o [k \in 1..n |-> <<p, sent[p] + k - 1>>]
    /\ sent' = [sent EXCEPT ![p] = @ + n]
    /\ UNCHANGED <<open, got>>

Take(n) ==
    /\ n > 0
    /\ got' = SubSeq(queue, 1, n)
    /\ queue' = SubSeq(queue, n + 1, Len(queue))
    /\ UNCHANGED <<open, sent>>

EndOfFile ==
    /\ queue = <<>> /\ ~open
    /\ got' = <<>>
    /\ UNCHANGED <<queue, open, sent>>

Shut == open' = FALSE /\ UNCHANGED <<queue, sent, got>>

Next ==
    \/ Shut \/ EndOfFile
    \/ \E n \in 1..Len(queue) : Take(n)
    \/ \E p \in Procs : Begin(p) \/ \E n \in 1..PIPE_BUF_SIZE : Put(p, n)

Spec == Init /\ [][Next]_vars
=============================================================================
