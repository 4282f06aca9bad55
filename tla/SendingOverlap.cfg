SPECIFICATION Spec
CONSTANTS
  Requests = {r1, r2}
  Window = 3
  Lag = 1
  Max = 2
  MaxClock = 3
  MaxAttempts = 4
  MaxReads = 1
SYMMETRY Symmetry
INVARIANTS TypeOK AtMostMax RefusalsJustified UnreadExact
CHECK_DEADLOCK FALSE
