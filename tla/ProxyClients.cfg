CONSTANTS
  c1 = c1
  c2 = c2
  NoClient = NoClient
  Client <- TwoClients
  TimeBase <- OneBase
  Source <- PtpOnly
  MaxSession = 2
  Depth = 1
  ProxyDepth = 1
  MaxEvent = 1
  MaxSend = 2
SPECIFICATION Spec
INVARIANTS
  TypeOK
  OwnSession
  NoLostStatus
  OnlySlowClientsDropped
PROPERTIES
  SessionNeverStolen
CHECK_DEADLOCK FALSE
