SPECIFICATION Spec
CONSTANTS
  Requests = {r1, r2}
  Experiments = {x1, x2, x3}
  Users = {admin}
  InitialSubnets <- ThreeSubnets
  InitialIps <- TwoIps
  MaxCrashes = 0
  MaxResets = 1
  MaxEdits = 1
  MaxList = 3
  Torn = Torn
  None = None
SYMMETRY Symmetry
INVARIANTS
  TypeOK
  IpsInOnePlace
  SubnetsInOnePlace
  LoadedEditStays
PROPERTIES
  OncePerExperiment
