SPECIFICATION LoggerSpec
CONSTANTS
  MaxClock = 2
  Midnight = 1
  MaxQueued = 2
  MaxConns = 2
  MaxBlocks = 2
  Toggled = {"events"}
  FirstBytesApart = TRUE

  
  
PROPERTIES
  WritesReachTheDisk
CHECK_DEADLOCK FALSE
