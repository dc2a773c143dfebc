SPECIFICATION FairSpec
CONSTANTS
  Starts <- MCStarts
  Room = 1
  ReplayMax = 1
  Panes = {1, 2}
  Pictures = {1, 2}
  MaxSurprises = 2
INVARIANTS NothingLeftBehind SocketsPaired TerminalGivenBack GeometrySettles BlackBars
PROPERTY RunEnds
CHECK_DEADLOCK FALSE
