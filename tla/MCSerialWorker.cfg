SPECIFICATION Spec
CONSTANTS
  Cap = 2
  BlockLen = 3
  Commands = 1
INVARIANTS
  LoopInv
PROPERTIES
  CancelEnds
CHECK_DEADLOCK FALSE
