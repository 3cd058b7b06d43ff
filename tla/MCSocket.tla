------------------------------ MODULE MCSocket ------------------------------
(* An instance of Socket: a server and a client that connects twice; the   *)
(* first connection may still be open in the server when the second is     *)
(* made, and the client's socket is used again.                            *)
EXTENDS Socket

CONSTANTS srv, c1
=============================================================================
