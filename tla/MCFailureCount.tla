--------------------------- MODULE MCFailureCount ---------------------------
(***************************************************************************)
(* FailureCount with threads that can be exchanged for one another.        *)
(***************************************************************************)
EXTENDS FailureCount, TLC

Symmetry == Permutations(Threads)
=============================================================================
