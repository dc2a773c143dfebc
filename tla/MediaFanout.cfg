SPECIFICATION FairFanoutSpec
CONSTANTS
  Viewers = {v1, v2}
  MaxStart = 2
  MaxSession = 2
  Cycle = 2
  MaxQueue = 1
INVARIANTS Decodable WithinBudget
PROPERTY KeyFrameComes
CHECK_DEADLOCK FALSE
