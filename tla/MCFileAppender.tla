-------------------------- MODULE MCFileAppender ---------------------------
(* An instance of FileAppender for TLC. *)
EXTENDS FileAppender, TLC

CONSTANTS t1, t2

Symmetric == Permutations(Threads)
=============================================================================
