SPECIFICATION Spec
CONSTANTS
  c1 = c1
  c2 = c2
  Clients <- TwoClients
  NoClient = NoClient
  MaxSchools = 2
  MaxPeople = 2
  MaxClasses = 2
  MaxRequests = 8
  MaxStarts = 2
CHECK_DEADLOCK FALSE
SYMMETRY Symmetry
INVARIANTS Inv AnswerIsTrue SomebodyCanRun
