SPECIFICATION FairSpec
CONSTANTS
  a = a
  b = b
  Callers <- TwoCallers
  NoCaller = NoCaller
  Buffer = 2
  MaxBytes = 3
INVARIANTS Inv
PROPERTIES EveryByteTaken
