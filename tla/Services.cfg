SPECIFICATION MCSpec
CONSTANTS
  Events = {e1}
  Callers = {c1}
  MaxPending = 1
  MaxBatchSize = 1
  MaxBatchesPerPass = 2
  MaxFlushAttempts = 2
  RetentionDays = 1
  Servers = {browser_server, token_server}
  Requests = {r1, r2}
  MaxFrames = 2
INVARIANTS
  MCTypeOK
PROPERTIES
  DeliveredOrCounted
  SlowRequestTraced
  CleanupDeletes
  CloseReleases
  StopsInOrder
  SessionEnds
CHECK_DEADLOCK FALSE
