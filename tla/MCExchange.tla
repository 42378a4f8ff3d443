----------------------------- MODULE MCExchange -----------------------------
(* Model values for Exchange: references are symmetric.                    *)
EXTENDS Exchange

ExchangeSymmetry == Permutations(Refs)
=============================================================================
