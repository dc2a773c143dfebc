SPECIFICATION FairSpec
CONSTANTS
  Viewers = {v1, v2}
  None = None
  Window = TRUE
  Cap = 1
INVARIANT StopIsComplete
PROPERTIES LeaveGrace StopEnds WindowEnds
CHECK_DEADLOCK FALSE
