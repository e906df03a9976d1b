SPECIFICATION FairSpec
CONSTANTS
  None = None
  Name <- MCName
  Schemas <- MCSchemas
INVARIANTS
  SearchInv
  NobodyGetsStuck
PROPERTIES
  ValidationEnds
CHECK_DEADLOCK FALSE
