SPECIFICATION MCSpec
CONSTANTS
  worker = worker
  alice = alice
  new = new
  old = old
  Projects = {demo}
  Agents = {worker, helper}
  Values = {new, old}
  Normal <- NormalDef
  Actors = {alice, bob}
  Previews = {i1, i2}
  Applies = {a1, a2}
  None = None
SYMMETRY Symmetry
INVARIANTS
  TypeOK
PROPERTIES
  NoLostUpdate
  SiblingsKept
  ImplementsContract
CHECK_DEADLOCK FALSE
