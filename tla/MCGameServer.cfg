SPECIFICATION FairSpec
CONSTANTS
  p1 = p1
  p2 = p2
  a = a
  b = b
  Players <- TwoPlayers
  Maps <- TwoMaps
  NoMap = 0
  Callers <- TwoCallers
  NoCaller = NoCaller
  MapBuffer = 1
  InboxBuffer = 1
  MaxSent = 2
  MaxSwitches = 3
CHECK_DEADLOCK FALSE
INVARIANTS Inv
PROPERTIES DeliveredInMapOnly NobodyHeldUp
