SPECIFICATION Spec
CONSTANTS
  Versions = {1, 2}
  Powers = {0, 1}
  Expected = 4
  CheckCycle = 2
  Timeout = 2
  MaxAge = 3
  MaxFailures = 1
  Orders <- MCOrders
  Units <- MCUnits
INVARIANTS
  VerdictIsTrue
  UndisturbedChecksDecide
  CheckedInTenthCycle
  ShownIsRecent
PROPERTY
  QuitEnds
CHECK_DEADLOCK FALSE
