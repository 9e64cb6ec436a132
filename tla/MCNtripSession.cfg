SPECIFICATION Spec
CONSTANTS
  FIRST_RESPONSE = 4
  TABLE = 3
  SILENCE = 4
  GGA_FIRST = 1
  GGA_INTERVAL = 3
  GGA_RETRY = 2
INVARIANTS
  VerdictInTime
  StreamClocks
PROPERTIES
  KeepsPromise
