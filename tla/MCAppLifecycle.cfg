SPECIFICATION Spec
CONSTANT Instances <- MCInstances
INVARIANTS
  NoUseAfterFree
PROPERTY QuitEnds
CHECK_DEADLOCK FALSE
