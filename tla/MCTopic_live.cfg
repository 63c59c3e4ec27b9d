CONSTANTS
  c1 = c1
  c2 = c2
  Clients <- TwoClients
  Publishers <- First
  Subscribers <- TwoClients
  Faulty <- Nobody
  Readers <- First
  Priorities <- OnePriority
  MaxSeq = 2
  Window = 1
SPECIFICATION LiveSpec
PROPERTIES
  EventuallyDelivered
  PublisherNotHeldUp
CHECK_DEADLOCK FALSE
