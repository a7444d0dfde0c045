SPECIFICATION FairSpec
CONSTANTS
  Own = Own
  Foreign = Foreign
  NoGm = NoGm
  LogSyncInterval <- EighthSecond
  MaxReq = 4
  MaxRx = 1
  MaxChange = 2
  MaxRestart = 1
INVARIANTS
  TypeOK
  LostIsEmpty
  SyncedOnlyAsSlave
PROPERTIES
  IsTimeSource
  LossNoticed
  StopEnds
CHECK_DEADLOCK FALSE
