---------------------------- MODULE MCMarketBook ----------------------------
(* Model values for MarketBook: references and locates are symmetric.       *)
EXTENDS MarketBook, TLC

Symmetry == Permutations(Refs) \cup Permutations(Locates)
=============================================================================
