------------------------------ MODULE LevelMap ------------------------------
(***************************************************************************)
(* What PriceLevelTable promises to the market book: the behaviour of a     *)
(* std::map from prices to levels.  A level is abstracted to a counter.     *)
(***************************************************************************)
EXTENDS Integers

CONSTANTS Prices
VARIABLE levels   \* price -> level, for the prices that have one

Value(p) == IF p \in DOMAIN levels THEN levels[p] ELSE 0

\* operator[] and the caller's change: a new price starts from a fresh level.
Visit(p) ==
  levels' = [q \in DOMAIN levels \cup {p} |-> IF q = p THEN Value(p) + 1 ELSE levels[q]]
Erase(p) ==
  /\ p \in DOMAIN levels
  /\ levels' = [q \in DOMAIN levels \ {p} |-> levels[q]]

Init == levels = [p \in {} |-> 0]
Next == \E p \in Prices : Visit(p) \/ Erase(p)
Spec == Init /\ [][Next]_levels
=============================================================================
