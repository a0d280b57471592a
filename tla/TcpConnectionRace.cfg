\* Another thread shuts the connection down while the peer closes it.
SPECIFICATION Spec
CONSTANTS
  Threads = {t1}
  OwnThread = loop
  Messages = {a}
  MsgLen = 1
  highWaterMark_ = 2
  OwnOps = {}
  ForeignOps = {"shutdown"}
  PeerOps = {"fin"}
  MaxTasks = 2
\* A destroyed connection does nothing.
CHECK_DEADLOCK FALSE
INVARIANT DestroyedClosed
