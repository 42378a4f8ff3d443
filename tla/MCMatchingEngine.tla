-------------------------- MODULE MCMatchingEngine --------------------------
(* Model values for MatchingEngine: references and clients are symmetric.   *)
EXTENDS MatchingEngine

Symmetry == Permutations(Refs) \cup Permutations(Clients)
=============================================================================
