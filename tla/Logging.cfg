\* The sizes of the code for the buffer of a line: behind a header of 34
\* characters the long texts end, or make the line number end, at its limits.
\* AsyncLogging has buffers of one line.
SPECIFICATION FairLogging
CONSTANTS
  kLargeBuffer = 2
  MaxBuffers = 2
  MaxLines = 2
  Null = Null
  flushEveryN_ = 2
  BufferSize = 1
  MaxErrors = 1
  kSmallBuffer = 4000
  kMaxNumericSize = 32
  Naturals_ = {9, 2147483647}
  FloatSizes = {19}
  Threads = {t1, t2}
  LevelSizes = {6}
  TextSizes = {1, 3918, 3919, 3949, 3964, 3965}
  basename_ = 13
  lines = {9}
  FileNames = {default, other}
  MaxPieces = 1
  MaxStatements = 2
INVARIANTS
  LineReadable
  AppendsToRunning
PROPERTIES
  LineReachesFile
