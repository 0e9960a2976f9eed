SPECIFICATION MCSpec
CONSTANTS
  worker = worker
  alice = alice
  new = new
  old = old
  Projects = {demo}
  Agents = {worker}
  Values = {new}
  Normal <- NormalDef
  Actors = {alice}
  Previews = {i1}
  Applies = {a1}
  None = None
PROPERTIES
  CreateReplacesNothing
CHECK_DEADLOCK FALSE
