SPECIFICATION Spec
CONSTANTS
  App = {a1, a2}
  PtpData <- MCPtpData
  SysData <- MCSysData
  Subscription <- MCSubscription
  Half = 8
  MinNegated <- Wraps
  CountMod = 2
  MaxData = 3
  MaxCall = 3
SYMMETRY Threads
INVARIANTS
  TypeOK
  EventsReportedOnce
  CountsExplainFlags
  NoEventHidden
CHECK_DEADLOCK FALSE
