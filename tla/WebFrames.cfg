SPECIFICATION FairSpec
CONSTANTS
  Viewers = {v1, v2}
  MaxFrame = 3
INVARIANT DemuxNeverWaits
PROPERTIES NeverGoesBack BuffersSafe NewestArrives
CHECK_DEADLOCK FALSE
