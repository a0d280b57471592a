\* Another thread calls anything, the loop thread sends and starts reading.
SPECIFICATION Spec
CONSTANTS
  Threads = {t1}
  OwnThread = loop
  Messages = {a, b}
  MsgLen = 2
  highWaterMark_ = 3
  OwnOps = {"send", "startRead"}
  ForeignOps = {"send", "shutdown", "forceClose", "stopRead", "startRead"}
  PeerOps = {"fin", "rst", "urgent"}
  MaxTasks = 2
\* A destroyed connection does nothing.
CHECK_DEADLOCK FALSE
INVARIANT StreamIntact
