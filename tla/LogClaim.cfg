SPECIFICATION LogSpec
CONSTANTS
  None = None
  LogEnd = 9
  Breaks = {1, 2, 4, 6, 7}
  MaxLines = 1
  TailLines = 1
  EarlierBytes = 3
INVARIANTS
  StartIsOffset
CHECK_DEADLOCK FALSE
