CONSTANTS
  c1 = c1
  c2 = c2
  Clients <- TwoClients
  Publishers <- First
  Subscribers <- Second
  Faulty <- Second
  Readers <- TwoClients
  Priorities <- TwoPriorities
  MaxSeq = 2
  Window = 1
SPECIFICATION Spec
INVARIANTS
  NoLostWakeup
  Inv
PROPERTIES
  Implements
CHECK_DEADLOCK FALSE
