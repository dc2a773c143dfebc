SPECIFICATION FairSpec
CONSTANTS
  Segment = 2
  Windows = 2
  Margin = 1
  Step = 1
  Burst = 2
  Memory = 4
  Servers = 2
  Sinks = {"a", "b"}
  Starts <- MCStarts
INVARIANTS LagBounded StreamSafe
PROPERTIES DropOnlyStayed SoundEnds Follows
CHECK_DEADLOCK FALSE
