\* Two workers, of which one owns both locates; four messages in segments of two.
SPECIFICATION Spec
CONSTANTS
  Locates = {1, 3}
  MaxOrders = 3
  Quantities = {1, 3}
  Quotes <- ThreeQuotes
  NWorkers = 2
  SegmentSize = 2
  MaxMessages = 4
  Window = 2
  FlowThreshold = 3
  Saturate = 2
  BookThreshold = 1
  Weights <- EqualWeights
  Primary = 1
  VoteThreshold = 0
  Scale = 4
  StrengthStep = 2
  BaseQty = 2
  MaxPosition = 3
INVARIANTS OfiIsWindowSum FlowDrift ClimbIsBounded SegmentsTile
PROPERTIES DecisionIsBacked
\* The replay ends.
CHECK_DEADLOCK FALSE
