\* Two orders of up to three shares, and every report at any time.
SPECIFICATION Spec
CONSTANTS
  Symbols = {1}
  Quantities = {1, 2, 3}
  MaxOrders = 2
INVARIANTS StatusMatchesFills IndexExact
PROPERTIES FollowsDiagram
