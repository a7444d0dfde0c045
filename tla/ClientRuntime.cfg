SPECIFICATION FairSpec
CONSTANTS
  ProxyQueue = 2
  ClientQueue = 2
  MaxSession = 5
  MaxCall = 5
  ProxyMayDie = TRUE
INVARIANTS
  TypeOK
  QueueOutlivesThread
  DisconnectIsClean
  OnlyLateReplyConnects
  OneSession
PROPERTIES
  CallsReturn
CHECK_DEADLOCK FALSE
