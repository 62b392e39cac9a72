CONSTANTS
  Ids = {1, 2, 3}
  Limit = 2
  Descending = FALSE
SPECIFICATION FairSpec
INVARIANTS
  TypeOK
  NoneMissed
  OnlyWanted
PROPERTIES
  InOrderOnce
  StreamEnds
CHECK_DEADLOCK FALSE
