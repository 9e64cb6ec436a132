SPECIFICATION Spec
CONSTANTS
  Casters <- Known
  MaxSegment = 3
  HDR_CAP = 6
  PRELUDE_LINE_CAP = 2
  PRELUDE_MAX_LINES = 1
  MAX_LINE = 3
  MaxSize = 31
INVARIANTS
  FeedIsExact
PROPERTIES
  ReachesVerdicts
CHECK_DEADLOCK FALSE
