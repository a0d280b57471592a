\* Buffers of two lines, rounds of at most two; stdio holds two lines.
SPECIFICATION FairLog
CONSTANTS
  kLargeBuffer = 3
  MaxBuffers = 2
  MaxLines = 8
  Null = Null
  flushEveryN_ = 2
  BufferSize = 2
  MaxErrors = 1
INVARIANTS
  AssertsHold
  LogIntact
  FileIntact
  KillLosesOneRound
PROPERTIES
  StopReturns
  LineEventuallyInFile
\* After stop() and MaxLines lines nothing is left to do.
CHECK_DEADLOCK FALSE
