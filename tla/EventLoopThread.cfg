SPECIFICATION FairSpec
CONSTANTS
  Objects = {o1, o2}
  MayFail = TRUE
\* An assertion that failed, or every object destroyed.
CHECK_DEADLOCK FALSE
INVARIANTS
  AssertionsHold
  ReturnedLoopLives
  DestroyedIsQuiet
PROPERTY CallsReturn
