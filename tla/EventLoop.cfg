\* Every interleaving of two foreign threads and the loop, three tasks.
SPECIFICATION FairSpec
CONSTANTS
  Threads = {t1, t2}
  Tasks = {a, b, c}
  MaxQuits = 2
\* A second quit() aborts the process.
CHECK_DEADLOCK FALSE
INVARIANTS
  NoLostWakeup
  QuitNotSleptOn
PROPERTIES
  BatchNeverGrows
  RunsTasksInOrder
  TaskEventuallyRuns
  QuitEventuallyStops
