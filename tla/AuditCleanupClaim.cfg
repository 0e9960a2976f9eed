SPECIFICATION Spec
CONSTANTS
  Events = {e1}
  Callers = {c1}
  MaxPending = 1
  MaxBatchSize = 1
  MaxBatchesPerPass = 2
  MaxFlushAttempts = 2
  RetentionDays = 1
INVARIANTS
  CleanupSeesDelete
CHECK_DEADLOCK FALSE
