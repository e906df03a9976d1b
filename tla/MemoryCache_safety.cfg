SPECIFICATION Spec
CONSTANTS
  c1 = c1  c2 = c2  c3 = c3  k1 = k1  k2 = k2
  Calls <- ThreeCalls
  Keys <- TwoKeys
  TTLs <- AnyTTL
  Sizes <- TwoSizes
  MaxValueBytes = 1
  MaxTime = 2
  None = None
SYMMETRY CallSymmetry
INVARIANTS
  TypeOK
  OneFetchPerKey
  FetchOnlyOnMiss
  MonotonicReads
  FailuresNotCached
  OutcomesBelong
  Inv
PROPERTIES
  CountersAgree
  KeepsPromise
