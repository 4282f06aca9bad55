SPECIFICATION MCSpec
CONSTANTS
  Requests = {r1, r2}
  Operations = {"login", "forgot", "reset"}
  Threshold = 2
  MaxAsks = 1
  MaxTokens = 2
  MaxLinks = 1
SYMMETRY Symmetry
INVARIANTS SessionsArePresent
CHECK_DEADLOCK FALSE
