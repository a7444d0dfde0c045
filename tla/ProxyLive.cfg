CONSTANTS
  c1 = c1
  c2 = c2
  NoClient = NoClient
  Client <- OneClient
  TimeBase <- OneBase
  Source <- PtpOnly
  MaxSession = 1
  Depth = 1
  ProxyDepth = 1
  MaxEvent = 2
  MaxSend = 3
SPECIFICATION FairSpec
PROPERTY DeadSubscriptionDropped
PROPERTY ShutdownEnds
CHECK_DEADLOCK FALSE
