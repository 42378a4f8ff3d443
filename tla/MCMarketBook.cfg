\* Two books on one pool of two slots, three references, two prices;
\* the total of two orders passes the end of its word.
SPECIFICATION Spec
CONSTANTS
  Locates = {x, y}
  Refs = {r1, r2, r3}
  Prices = {1, 2}
  Quantities = {1, 2}
  PoolSize = 2
  Word = 3
SYMMETRY Symmetry
INVARIANT UntouchedLevelsExact
PROPERTIES ReplacementTakesSlot
\* The market may fall silent when every reference is used.
CHECK_DEADLOCK FALSE
