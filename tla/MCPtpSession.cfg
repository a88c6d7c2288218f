SPECIFICATION SessionSpec
CONSTANTS
  Interval = 1
  RespTimeout = 2
  SyncTimeout = 3
  MaxStall = 1
  Burst = 2
  SeqCount = 3
INVARIANTS
  OffsetGenuine
  SyncedIsRecent
PROPERTIES
  Resynchronises
