SPECIFICATION Spec
CONSTANTS
  r1 = r1  r2 = r2  r3 = r3
  Requests <- ThreeRequests
  Inputs <- Refreshing
  Opts <- NoJanitor
  Implemented <- Endpoints
  HasNext = TRUE
  Sizes <- OneSize
  MaxTime = 2
  None = None
SYMMETRY RequestSymmetry
CHECK_DEADLOCK FALSE
INVARIANTS
  TypeOK
  CalmRefreshIsFresh
  RefreshesAreSpaced
