SPECIFICATION Spec
CONSTANTS
  Units <- OneUnitOfEachKind
  VerifyRetries = 3
INVARIANT
  VerifiedMeansOff
CHECK_DEADLOCK FALSE
