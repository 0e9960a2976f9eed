SPECIFICATION MCSpec
CONSTANTS
  Events = {e1, e2, e3}
  Callers = {c1}
  MaxPending = 1
  MaxBatchSize = 1
  MaxBatchesPerPass = 2
  MaxFlushAttempts = 2
  RetentionDays = 1
  Openers = {o1, o2}
  Checksums = {"first", "edited"}
  MaxLaunches = 3
SYMMETRY Symmetry
INVARIANTS
  TypeOK
  NothingLost
  RetryBudget
  QueueBound
  BarrierCommits
  CleanupBeforeRelease
  OpeningRight
PROPERTIES
  ImplementsTrail
CHECK_DEADLOCK FALSE
