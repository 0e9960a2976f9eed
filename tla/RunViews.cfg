SPECIFICATION MCSpec
CONSTANTS
  Ops = {o1, o2}
  Runs = {r1, r2}
  Sandboxes = {s1, s2}
  MaxItems = 2
  None = None
  Home <- AllRunsInOneSandbox
  MaxAsked = 2
  MaxListAsked = 2
  Match <- MatchDef
  Queries = {"all", "some"}
  Widths = {TRUE, FALSE}
  RunIds = {1, 2, 3}
  PageSize = 1
  MaxVersions = 2
SYMMETRY Symmetry
INVARIANTS
  MCTypeOK
  ListedOnce
  InspectorMatches
  SpinnersEnd
  OutputComplete
  IndexesAgree
  RunningFound
  OnePollChain
  RunFollowed
  ShownRun
CHECK_DEADLOCK FALSE
