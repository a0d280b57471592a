\* The loop thread closes; another thread sends.
SPECIFICATION FairSpec
CONSTANTS
  Threads = {t1}
  OwnThread = loop
  Messages = {a, b}
  MsgLen = 2
  highWaterMark_ = 3
  OwnOps = {"send", "shutdown", "forceClose", "stopRead"}
  ForeignOps = {"send"}
  PeerOps = {"fin", "rst"}
  MaxTasks = 2
\* A destroyed connection does nothing.
CHECK_DEADLOCK FALSE
INVARIANTS
  AssertionsHold
  ChannelFollowsState
PROPERTIES
  FinAfterData
  ClosedIsFinal
  ForceCloseCloses
  ShutdownFinishes
