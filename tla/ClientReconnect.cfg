SPECIFICATION Spec
CONSTANTS
  ProxyQueue = 2
  ClientQueue = 2
  MaxSession = 3
  MaxCall = 3
  ProxyMayDie = TRUE
INVARIANTS
  ConnectReturns
CHECK_DEADLOCK FALSE
