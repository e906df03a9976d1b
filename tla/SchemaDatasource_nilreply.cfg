SPECIFICATION Spec
CONSTANTS
  r1 = r1  r2 = r2  r3 = r3
  Requests <- TwoRequests
  Inputs <- OneRoute
  Opts <- Quick
  Implemented <- MostHandlers
  HasNext = TRUE
  Sizes <- OneSize
  MaxTime = 0
  None = None
INVARIANT NilErrorIsAnswered
