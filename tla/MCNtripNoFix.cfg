SPECIFICATION PosSpec
CONSTANTS
  MaxAttempts = 1
  Wishes <- AllWishes
INVARIANTS
  OnlyFixesPass
CHECK_DEADLOCK FALSE
