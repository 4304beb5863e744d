SPECIFICATION Spec
CONSTANTS
  Maps = {a, b}
  NoMap = none
  MaxRequests = 4
INVARIANTS LandedOnWins
CHECK_DEADLOCK FALSE
