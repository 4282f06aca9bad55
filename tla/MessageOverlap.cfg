SPECIFICATION MCSpec
CONSTANTS
  Requests = {r1, r2}
  Users = {u1, u2}
  Author = u1
  Clients = {c1}
  OneToggleEach = TRUE
  MaxCalls = 2
SYMMETRY Symmetry
INVARIANTS ConvergedAlone
PROPERTIES DeletedIsFinal TogglesFlip
CHECK_DEADLOCK FALSE
