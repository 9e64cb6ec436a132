SPECIFICATION FairSpec
CONSTANTS
  Workers = {w1, w2}
  CapArg = 2
  MaxPush = 5
  MaxAttach = 3
INVARIANTS
  NoStaleReplay
PROPERTIES
  WaiterServed
  AbsSpec
CHECK_DEADLOCK FALSE
