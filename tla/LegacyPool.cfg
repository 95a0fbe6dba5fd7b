SPECIFICATION Spec
CONSTANTS
  Requests = {r1, r2, r3}
  Experiments = {x1, x2, x3}
  Users = {admin}
  InitialSubnets <- TwoSubnets
  InitialIps <- TwoIps
  MaxCrashes = 2
  MaxResets = 0
  MaxEdits = 0
  MaxList = 3
  Torn = Torn
  None = None
\* After a crash that tore the file the server does not start again.
CHECK_DEADLOCK FALSE
SYMMETRY Symmetry
INVARIANTS
  ToldIsDurable
PROPERTIES
  ImplementsRegistry
