\* Limit and market orders, three of them, with passive fills, cancels and a flatten.
SPECIFICATION TradingSpec
CONSTANTS
  Symbols = {1}
  Quantities = {1, 3}
  Prices = {1, 2}
  Types = {"MARKET", "LIMIT"}
  MaxOrders = 3
  MaxPosition = 3
  MaxDailyLoss = 3
  PauseAt = 1
  FlattenAt = 1
INVARIANTS RestingAgrees PendingFillsFit PositionExact
  FillsReachOmsUnlessFlattened RoundingOneSided
\* A cancel of a resting order never returns, and signals stop at MaxOrders.
CHECK_DEADLOCK FALSE
