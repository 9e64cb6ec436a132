SPECIFICATION Spec
CONSTANTS
  Workers = {w1, w2}
  CapArg = 1
  MaxPush = 2
  MaxAttach = 2
  NoWorker = NoWorker
  Few = {w1, w2}
PROPERTIES
  InactiveMeansNoWorker
CHECK_DEADLOCK FALSE
