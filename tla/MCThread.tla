------------------------------ MODULE MCThread ------------------------------
(* Instances of Thread for TLC. *)
EXTENDS Thread

CONSTANTS x1, x2, x3
=============================================================================
