SPECIFICATION FairSpec
CONSTANTS
  Sample = {s1, s2}
  NoSample = NoSample
  InitMayFail = TRUE
  MaxLeak = 2
  MaxChange = 2
  MaxEnd = 2
INVARIANTS
  TypeOK
  SessionHasSocket
PROPERTIES
  IsTimeSource
  StatusFollows
  StopEnds
CHECK_DEADLOCK FALSE
