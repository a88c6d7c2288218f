SPECIFICATION TrafficSpec
CONSTANTS
  Flush = 2
  Settings <- MCSettings
INVARIANTS
  LossExact
  FinalFiguresExact
CHECK_DEADLOCK FALSE
