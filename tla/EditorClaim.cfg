SPECIFICATION EditorSpec
CONSTANTS
  Projects = {p1, p2}
  MaxRevision = 1
  MaxAsked = 2
  None = None
INVARIANTS
  EditedOnBase
CHECK_DEADLOCK FALSE
