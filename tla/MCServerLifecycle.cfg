CONSTANTS
  c1 = c1
  c2 = c2
  t1 = t1
  NoTopic = NoTopic
  NoConn = NoConn
  Conns <- TwoConns
  Topics <- OneTopic
SPECIFICATION FairSpec
INVARIANTS
  Inv
  StopSilences
PROPERTIES
  StopReturnsUnlessLate
  RunReturns
CHECK_DEADLOCK FALSE
