SPECIFICATION Spec
CONSTANTS
  r1 = r1  r2 = r2  r3 = r3
  Requests <- TwoRequests
  Inputs <- AnyRoute
  Opts <- Audited
  Implemented <- MostHandlers
  HasNext = FALSE
  Sizes <- SmallAndLarge
  MaxTime = 2
  None = None
SYMMETRY RequestSymmetry
INVARIANTS
  Inv
  AtMostOneReply
  ServedInScope
PROPERTY CacheSpec
