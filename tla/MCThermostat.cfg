SPECIFICATION FairSpec
CONSTANTS
  r1 = r1
  a = a
  b = b
  Rooms <- OneRoom
  Callers <- TwoCallers
  MaxTemp = 3
  MaxCalls = 8
CHECK_DEADLOCK FALSE
INVARIANTS Inv
PROPERTIES FanReachesTarget
