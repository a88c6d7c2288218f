SPECIFICATION MCSpec
CONSTANTS
  Kinds = {"single", "dual", "raw"}
  Targets = 2
  Delay <- MCDelay
  RawCatchup = 2
  BatchLimit = 2
  BatchSize = 2
  TxFrames = 3
  MaxTime = 6
  Stagger = 1
  Queues = {q1, q2}
  Wrap = 8
  MaxSeq = 3
  MaxLost = 1
  RingSize = 1
INVARIANTS
  RateKept
  QuietExact
  LiveBounded
SYMMETRY MCQueues
CHECK_DEADLOCK FALSE
