SPECIFICATION FairSpec
CONSTANTS
  Viewers = {v1, v2}
  MaxQueue = 1
  None = None
INVARIANTS Gestures NoFingerLeft
PROPERTIES OverlaysKeepTrack DragArrives
CHECK_DEADLOCK FALSE
