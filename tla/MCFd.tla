-------------------------------- MODULE MCFd --------------------------------
(***************************************************************************)
(* Instances of Fd for TLC.                                                *)
(***************************************************************************)
EXTENDS Fd

CONSTANTS p1, p2, f1, x1
=============================================================================
