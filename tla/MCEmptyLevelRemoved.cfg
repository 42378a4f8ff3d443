\* The same instance as MCMarketBook: two books on one pool of two slots, three references, two prices.
SPECIFICATION Spec
CONSTANTS
  Locates = {x, y}
  Refs = {r1, r2, r3}
  Prices = {1, 2}
  Quantities = {1, 2}
  PoolSize = 2
  Word = 16
SYMMETRY Symmetry
INVARIANT EmptyLevelRemoved
\* The market may fall silent when every reference is used.
CHECK_DEADLOCK FALSE
