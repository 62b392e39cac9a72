CONSTANTS
  A = A
  B = B
  Bad = Bad
  Jobs = {A, B}
  Garbage = {Bad}
  Content <- MCContent
  MaxFrames = 3
SPECIFICATION FairSpec
INVARIANTS
  TypeOK
  AsPromised
  NothingHeldBack
PROPERTY Ends
CHECK_DEADLOCK FALSE
