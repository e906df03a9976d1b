SPECIFICATION Spec
CONSTANTS
  r1 = r1  r2 = r2  r3 = r3
  Requests <- TwoRequests
  Inputs <- Refreshing
  Opts <- Unlimited
  Implemented <- Endpoints
  HasNext = TRUE
  Sizes <- OneSize
  MaxTime = 0
  None = None
INVARIANT RefreshReruns
