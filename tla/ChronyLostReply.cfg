SPECIFICATION FairSpec
CONSTANTS
  Sample = {s1, s2}
  NoSample = NoSample
  InitMayFail = FALSE
  MaxLeak = 0
  MaxChange = 2
  MaxEnd = 1
PROPERTIES
  StatusIsLatest
CHECK_DEADLOCK FALSE
