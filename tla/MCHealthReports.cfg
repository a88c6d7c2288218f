SPECIFICATION Spec
CONSTANTS
  Workers = {w1, w2}
  Kinds = {k1, k2}
  CbitKinds = {k1}
  Capacity = 3
  MaxPackets = 4
INVARIANTS
  AllAccounted
PROPERTY
  BoardSpec
