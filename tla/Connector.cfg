\* One Connector: its states are all there is.
SPECIFICATION FairSpec
INVARIANTS
  SocketHandedOver
  ToldTheOutcome
PROPERTY ConnectReported
CHECK_DEADLOCK FALSE
