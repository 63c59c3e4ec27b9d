SPECIFICATION Spec
CONSTANTS
  c1 = c1
  c2 = c2
  Clients <- TwoClients
  NoClient = NoClient
  MaxSchools = 1
  MaxPeople = 2
  MaxClasses = 2
  MaxRequests = 6
  MaxStarts = 1
CHECK_DEADLOCK FALSE
INVARIANTS NeverBoth
