\* Bids and asks, every hash function of three prices on a table that grows twice, from one slot:
\* collisions, tombstones on the way, tables full of levels and of tombstones.
SPECIFICATION Spec
CONSTANTS
  Prices = {1, 2, 3}
  Infinite = 1000
  InitCap = 1
  MaxCap = 4
  MaxLevel = 2
INVARIANTS EveryLevelFound BestIsExtreme
PROPERTIES MapSpec
\* The bounds MaxCap and MaxLevel stop the callers.
CHECK_DEADLOCK FALSE
