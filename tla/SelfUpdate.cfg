SPECIFICATION Spec
CONSTANTS
  Updaters = {u1, u2}
  LastVersion = 3
  None = None
  Part = Part
  Bad = Bad
INVARIANTS Runnable Tidy WayBack
CHECK_DEADLOCK FALSE
