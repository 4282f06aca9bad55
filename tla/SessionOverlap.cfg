SPECIFICATION MCSpec
CONSTANTS
  Requests = {r1, r2}
  Operations = {"login", "refresh", "logout", "forgot", "reset"}
  Threshold = 2
  MaxAsks = 1
  MaxTokens = 3
  MaxLinks = 2
SYMMETRY Symmetry
INVARIANTS TypeOK ResetEndsSessions LinksUsedOnce FullCounterIsLocked OneTokenAlone EndedStaysEnded
PROPERTIES LockedOutAlone
CHECK_DEADLOCK FALSE
