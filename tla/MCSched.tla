------------------------------ MODULE MCSched ------------------------------
(***************************************************************************)
(* Instances of Sched for TLC.                                             *)
(***************************************************************************)
EXTENDS Sched, TLC

CONSTANTS c1, c2, t1, t2, t3, m1, m2

Free1 == <<t2>>
Free2 == <<t2, t3>>

Symm == Permutations({c1, c2})
=============================================================================
