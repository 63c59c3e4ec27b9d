SPECIFICATION SequentialSpec
CONSTANTS
  MaxInt = 2
  Servers <- BothServers
  MaxTokens = 3
  Runes <- TwoRunes
  InitialText <- ShortText
  MaxText = 5
  file = file
  letter = letter
  msg1 = msg1
  msg2 = msg2
  Paths <- OneFile
  Chars <- OneChar
  Messages <- TwoMessages
  MaxLength = 1
  MaxCommits = 2
  MaxHeap = 4
  MaxSteps = 2
  Names <- FourNames
  Numbers <- PhoneNumbers
  NumberLength = 6
  OldSlots <- DonorSlots
  NewSlots <- RepairedSlots
  Nil = Nil
  Times <- FlightTimes
  MaxFlights = 3
  Priorities <- ThreePriorities
  MaxSeq = 6
INVARIANTS
  TypesOK
  Exact
  CheckoutRestores
  StatusTells
  FirstOfEachNumber
  CatchiestChosen
  Conserved
  NothingSpared
  RunwaysNeeded
PROPERTIES
  ImplementsPriorityQueue
  ImplementsTextBuffer
CHECK_DEADLOCK FALSE
