SPECIFICATION MCSpec
CONSTANTS
  None = None
  Sandboxes = {s1, s2}
  MaxSessions = 3
  MaxRequests = 5
  MaxData = 1
  LogEnd = 9
  Breaks = {2, 3, 4, 6, 7}
  MaxLines = 2
  TailLines = 1
  EarlierBytes = 2
  Queries = {"first", "second"}
  Ids = {1, 2, 3, 4}
  Automated = {2, 4}
  Concurrency = 1
  MaxRounds = 2
  ItemsOf <- ItemsOfDef
  MaxLists = 2
  MaxAsked = 2
  Projects = {p1, p2}
  MaxRevision = 1
SYMMETRY Symmetry
INVARIANTS
  MCTypeOK
  NoOrphanShell
  RetryInSight
  RefreshIsFresh
  SettledIsDropped
  WindowRight
  PendingHasTimer
  RowsCovered
  DetailsShown
  FilledFromBase
  SavingEnds
CHECK_DEADLOCK FALSE
