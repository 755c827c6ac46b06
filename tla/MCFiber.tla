------------------------------ MODULE MCFiber ------------------------------
(* Instances of Fiber for TLC. *)
EXTENDS Fiber, TLC

Symmetric == Permutations(Threads) \cup Permutations(Fibers)
=============================================================================
