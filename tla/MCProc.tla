------------------------------- MODULE MCProc -------------------------------
(***************************************************************************)
(* Instances of Proc for TLC.                                              *)
(***************************************************************************)
EXTENDS Proc

CONSTANTS p1, p2, p3, t1, t2, t3
=============================================================================
