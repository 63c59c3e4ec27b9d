CONSTANTS
  k1 = k1
  k2 = k2
  k3 = k3
  Keys <- ThreeKeys
  Values <- TwoValues
  Capacity = 2
  TTLs <- NoneOrOne
  MaxTime = 3
  MaxGets = 1
  MaxSeq = 3
SPECIFICATION Spec
INVARIANTS
  Inv
PROPERTIES
  DropsOnlyColdest
  FreshRead
