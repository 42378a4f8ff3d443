\* A cancel of a resting limit order.
SPECIFICATION FairSpec
CONSTANTS
  Symbols = {1}
  Quantities = {1, 2}
  Prices = {1, 2}
  Types = {"LIMIT"}
  MaxOrders = 1
  MaxPosition = 2
  MaxDailyLoss = 3
  PauseAt = 1
  FlattenAt = 1
PROPERTIES CancelReturns
\* A cancel of a resting order never returns, and signals stop at MaxOrders.
CHECK_DEADLOCK FALSE
