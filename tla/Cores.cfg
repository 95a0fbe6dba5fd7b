SPECIFICATION Spec
CONSTANTS
  Requests = {r1, r2, r3}
  Ids = {c1, c2}
  DbErrors = TRUE
  Absent = Absent
  None = None
SYMMETRY Symmetry
INVARIANTS
  TypeOK
  PanicOnlyWhenMissed
PROPERTIES
  NeverResurrected
  DeletedWhenStopped
