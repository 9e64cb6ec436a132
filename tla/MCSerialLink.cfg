SPECIFICATION Spec
CONSTANTS
  Workers = {w1, w2, w3}
  CapArg = 1
  MaxPush = 2
  MaxAttach = 3
  NoWorker = NoWorker
  Few = {w1, w2}
INVARIANTS
  LinkInv
PROPERTIES
  QueueUsedAsIntended
  DisconnectReturns
  WorkersEnd
CHECK_DEADLOCK FALSE
