\* Three addresses; the clock goes from 0 to "2 or later".
SPECIFICATION FairSpec
CONSTANTS
  Timers = {1, 2, 3}
  MaxTime = 2
  Intervals = {1}
  MaxTasks = 2
  CancelsExpired = FALSE
INVARIANTS
  AssertionsHold
  TimerfdCoversFirst
  EachTimerOnce
PROPERTY
  TimerEventuallyRuns
