SPECIFICATION ShotFairSpec
CONSTANTS
  Shots = {s1, s2, s3}
  None = None
INVARIANTS EveryRequestAnswered OneShot
PROPERTY ShotFinishes
CHECK_DEADLOCK FALSE
