SPECIFICATION ClientFairSpec
CONSTANTS
  r1 = r1  r2 = r2  r3 = r3
  Requests <- TwoRequests
  Inputs <- ClientRoutes
  Opts <- Quick
  Implemented <- MostEndpoints
  HasNext = TRUE
  Sizes <- OneSize
  MaxTime = 0
  None = None
INVARIANTS
  ClientInv
  SentinelIsTrue
  FailuresStayInTheFlight
PROPERTIES
  EveryRequestEnds
  EveryCallReturns
