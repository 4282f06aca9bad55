SPECIFICATION MCSpec
CONSTANTS
  Requests = {r1, r2}
  Names = {n1, n2}
  Mails = {m1, m2}
  MaxHits = 1
  MaxResends = 1
  Tries = 2
  Workers = 1
  MaxUsers = 2
  MaxTokens = 2
INVARIANTS TypeOK AccountsDiffer TokensWorkOnce EveryoneIsMailed
PROPERTIES BlocksEnd JobsEnd
CHECK_DEADLOCK FALSE
