SPECIFICATION Spec
CONSTANTS
  Files = 2
  Parts = 1
  Wrap = 3
  FirstTimeout = 4
  Drain = 1
  Polls = 4
  MaxLost = 1
  MaxFailures = 1
INVARIANTS
  GapsExact
  FilesFaithful
  KilledOnlyWhenLate
PROPERTY
  StopEnds
CHECK_DEADLOCK FALSE
