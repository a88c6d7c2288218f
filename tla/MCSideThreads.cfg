SPECIFICATION SideSpec
CONSTANTS
  StaleAfter = 2
  MaxTransit = 1
  MaxSeq = 2
  MaxPieces = 20
  MaxBacklog = 12
INVARIANTS
  NoUseAfterDestroy
PROPERTIES
  CurrentIsFresh
  ShutdownCompletes
  ForwardedInTime
\* The application ends.
CHECK_DEADLOCK FALSE
