SPECIFICATION Spec
CONSTANTS
  Commands = {"p1", "p2", "p3"}
  Home <- MCHome
  Starts <- MCCrowd
  MaxInvitations = 1
  MaxFailures = 2
  MaxSurprises = 0
INVARIANT OneRequestAtATime
CHECK_DEADLOCK FALSE
