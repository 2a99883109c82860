\* Without codes left to make everything may stop.
SPECIFICATION Spec
CONSTANTS
  Callers = {p, q}
  Emails = {home, a, b}
  Home = home
  Change = change
  SignUps = {a}
  Nobody = nobody
  MaxAttempts = 1
  MaxCodes = 3
CHECK_DEADLOCK FALSE
INVARIANTS
  TypeOK
  GuessesAreBounded
PROPERTIES
  MovesAreProved
