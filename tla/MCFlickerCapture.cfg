SPECIFICATION Spec
CONSTANTS
  Instances <- MCInstances
  MaxShown = 1
PROPERTIES
  FreedUnused
  ComparedWithinRun
  StopEnds
\* The process ends, and may wait for good where a notification was lost.
CHECK_DEADLOCK FALSE
