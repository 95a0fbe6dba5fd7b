SPECIFICATION Spec
CONSTANTS
  Commands = {c1, c2, c3}
  Blueprints = {b1, b2, b3}
  None = None
\* Every command ends.
CHECK_DEADLOCK FALSE
INVARIANTS
  TypeOK
  RegisteredIsBuilt
  NothingTwice
PROPERTIES
  DoneIsNoticed
