-------------------------------- MODULE Files -------------------------------
(***************************************************************************)
(* What a file system promises: a file is the bytes last written to it,    *)
(* zero where nothing was written, and keeps them while it is open.        *)
(***************************************************************************)
EXTENDS Naturals, Sequences

CONSTANTS Names, Bytes, MaxSize, NULL

VARIABLES
    content,  \* the sequence of its bytes; NULL if there is no such file
    open,     \* how often it is open
    doomed,   \* files that were unlinked while open
    call      \* the last system call: its name, the file and its arguments

vars == <<content, open, doomed, call>>

Init ==
    /\ content \in [Names -> {NULL} \cup UNION {[1..n -> Bytes] : n \in 0..MaxSize}]
    /\ open = [f \in Names |-> 0]
    /\ doomed = {}
    /\ call = NULL

Max(a, b) == IF a < b THEN b ELSE a

\* s with n bytes b from offset off on, and zeros up to there.
Written(s, off, n, b) ==
    [i \in 1..Max(Len(s), off + n) |->
        IF i > off /\ i <= off + n THEN b ELSE IF i <= Len(s) THEN s[i] ELSE 0]

Create(f) ==
    /\ call'.name = "create" /\ content[f] = NULL
    /\ content' = [content EXCEPT ![f] = <<>>]
    /\ open' = [open EXCEPT ![f] = 1] /\ UNCHANGED doomed

Open(f) ==
    /\ call'.name = "open" /\ content[f] # NULL
    /\ open' = [open EXCEPT ![f] = @ + 1] /\ UNCHANGED <<content, doomed>>

\* A doomed file may go when nobody has it open any more.
Close(f) ==
    /\ call'.name = "close" /\ open[f] > 0
    /\ open' = [open EXCEPT ![f] = @ - 1]
    /\ \/ UNCHANGED <<content, doomed>>
       \/ /\ f \in doomed /\ open[f] = 1
          /\ content' = [content EXCEPT ![f] = NULL] /\ doomed' = doomed \ {f}

Write(f) ==
    /\ call'.name = "write" /\ open[f] > 0
    /\ content' = [content EXCEPT ![f] = Written(@, call'.off, call'.n, call'.byte)]
    /\ UNCHANGED <<open, doomed>>

Truncate(f) ==
    /\ call'.name = "truncate" /\ open[f] > 0
    /\ content' = [content EXCEPT ![f] = SubSeq(Written(@, call'.n, 0, 0), 1, call'.n)]
    /\ UNCHANGED <<open, doomed>>

\* unlink() removes the file, or puts that off, or is refused.
Unlink(f) ==
    /\ call'.name = "unlink" /\ UNCHANGED open
    /\ \/ /\ open[f] = 0
          /\ content' = [content EXCEPT ![f] = NULL] /\ doomed' = doomed \ {f}
       \/ doomed' = doomed \cup {f} /\ UNCHANGED content
       \/ UNCHANGED <<content, doomed>>

Rename(f) ==
    /\ call'.name = "rename" /\ UNCHANGED <<open, doomed>>
    /\ \/ UNCHANGED content
       \/ /\ content[f] # NULL /\ content[call'.to] = NULL /\ open[f] = 0
          /\ content' = [content EXCEPT ![f] = NULL, ![call'.to] = content[f]]

Next == LET f == call'.file IN
    Create(f) \/ Open(f) \/ Close(f) \/ Write(f) \/ Truncate(f) \/ Unlink(f) \/ Rename(f)

Spec == Init /\ [][Next]_vars
=============================================================================
