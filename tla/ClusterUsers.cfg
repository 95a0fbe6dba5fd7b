SPECIFICATION Spec
CONSTANTS
  Users = {u1}
  Runs = {r1, r2, r3}
  MaxSeconds = 1
  MaxLosses = 1
  MaxStops = 1
  Error = Error
  Null = Null
  None = None
\* Every run ends.
CHECK_DEADLOCK FALSE
SYMMETRY Symmetry
INVARIANTS
  TypeOK
  CertificateFits
  AnsweredIsArchived
  AnsweredIsKept
  ErrorOnlyWhenCut
