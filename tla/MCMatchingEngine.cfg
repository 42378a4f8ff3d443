\* One book, three references, a pool of two slots: price levels, FIFO, the
\* user exclusion and a full pool all occur.
SPECIFICATION Spec
CONSTANTS
  Locates = {1}
  BadLocate = 9
  Refs = {r1, r2, r3}
  Clients = {strategy}
  Prices = {1, 2}
  MaxPrice = 3
  Quantities = {1, 2}
  PoolSize = 2
  NoOrder = NoOrder
SYMMETRY Symmetry
INVARIANTS EngineInv ViewsAgree LevelTotals Uncrossed ResponsesAccount
  FokFailsOnOwnOrders ReplaceNeverPoolFull
PROPERTIES PriceTimePriority FillsAreReported
