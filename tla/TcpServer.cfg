\* Three addresses: one of a deleted connection is used again while another
\* waits for its turn.  Two threads call start().
SPECIFICATION SpecServer
CONSTANTS
  Conns = {c1, c2, c3}
  Accept = Accept
  NoConn = NoConn
  MaxPeers = 1
  MaxTasks = 2
  Callers = {t1, t2}
  Counts = {1, 3}
INVARIANTS
  ServerKnowsOpen
  ReportedStayOpen
  StartsOnce
PROPERTY StartedListens
CHECK_DEADLOCK FALSE
