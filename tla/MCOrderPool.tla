---------------------------- MODULE MCOrderPool ----------------------------
(* Model values for OrderPool: threads are symmetric.                      *)
EXTENDS OrderPool

Symmetry == Permutations(Threads)
=============================================================================
