SPECIFICATION FairSpec
CONSTANTS
  Default = 2
  MaxLimit = 3
  Limits <- MCLimits
  MaxMessages = 5
  MaxTime = 3
INVARIANTS NoneSkipped NeverRepeated
PROPERTIES ReaderEnds
CHECK_DEADLOCK FALSE
