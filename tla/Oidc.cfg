SPECIFICATION Spec
CONSTANTS
  Browsers = {b1, b2}
  MaxLogins = 2
  MaxExits = 1
  EmptyAnswers = TRUE
  Mixed = Mixed
  None = None
SYMMETRY Symmetry
INVARIANTS
  TypeOK
PROPERTIES
  LoginIsOwn
