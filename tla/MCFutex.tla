------------------------------- MODULE MCFutex ------------------------------
(***************************************************************************)
(* Instances of Futex for TLC.                                             *)
(***************************************************************************)
EXTENDS Futex

CONSTANTS t1, t2, t3, a1, a2, b1, b2, b3
=============================================================================
