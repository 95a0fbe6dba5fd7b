SPECIFICATION Spec
CONSTANTS
  Browsers = {b1, b2}
  MaxLogins = 1
  MaxExits = 0
  EmptyAnswers = FALSE
  Mixed = Mixed
  None = None
INVARIANTS
  CookieIsOwn
