SPECIFICATION DeadlineSpec
CONSTANTS
  Connected = {v1, v2, v3}
  ShutdownMax = 4
  CloseMax = 4
  KillMax = 3
  StopWait = 10
SYMMETRY Sym
INVARIANT ExitAfterStop
CHECK_DEADLOCK FALSE
