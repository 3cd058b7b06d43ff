------------------------------ MODULE MCSignal ------------------------------
(***************************************************************************)
(* Instances of Signal for TLC: one thread handles signals, a thread of    *)
(* another process sends them.  A handler blocks its own signal; that of   *)
(* USR2 takes SA_SIGINFO.                                                  *)
(***************************************************************************)
EXTENDS Signal

CONSTANTS t1, k, KILL, USR1, USR2, e1, e2, e3

MCThreads == <<t1>>
Blockable == Signals \ {KILL}
MCSigActions(s) ==
    IF s = KILL THEN {} ELSE {[handler |-> TRUE, mask |-> {s}, siginfo |-> s = USR2]}
MCCalls(t) == IF t = k THEN {"kill", "tkill"} ELSE {"read", "sigaction", "sigprocmask", "sigsuspend"}
MCMasks == {{}, Blockable}
=============================================================================
