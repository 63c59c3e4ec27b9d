CONSTANTS
  c1 = c1
  c2 = c2
  t1 = t1
  NoTopic = NoTopic
  NoConn = NoConn
  Conns <- OneConn
  Topics <- NoTopics
SPECIFICATION FairSpec
PROPERTIES
  StopReturns
CHECK_DEADLOCK FALSE
