SPECIFICATION Spec
CONSTANTS
  Sessions = {s1, s2}
  None = None
  Keys = {k1}
  MaxSessions = 2
  MaxHelper = 2
  MaxTasks = 1
SYMMETRY Sym
INVARIANTS NothingStuck NoOrphanMedia
CHECK_DEADLOCK FALSE
