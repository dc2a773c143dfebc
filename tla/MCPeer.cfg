SPECIFICATION Spec
CONSTANTS
  Commands = {"p1", "p2", "p3"}
  Home <- MCHome
  Starts <- MCStarts
  MaxInvitations = 1
  MaxFailures = 2
  MaxSurprises = 1
INVARIANTS BothAgreed CodeWorksOnce RightDevice NothingLeftOpen
PROPERTIES CommandsEnd
CHECK_DEADLOCK FALSE
