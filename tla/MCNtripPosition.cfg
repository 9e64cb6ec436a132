SPECIFICATION PosSpec
CONSTANTS
  MaxAttempts = 2
  Wishes <- AllWishes
INVARIANTS
  SupervisorInv
  GivesUpRightly
  AlertOncePerOutage
  NoBlameAfterCancel
  PositionWords
PROPERTIES
  CancelStops
CHECK_DEADLOCK FALSE
