SPECIFICATION Spec
CONSTANTS
  Units <- OneUnitOfEachKind
  VerifyRetries = 2
INVARIANTS
  OutputAccounted
  ExitSafe
  DpdkExitSafe
  HangOnlyInRegistryCall
PROPERTIES
  OutputOffBeforeDisconnect
  SignalEndsProcess
\* The process ends, and a handler may wait for good on the mutex it interrupted.
CHECK_DEADLOCK FALSE
