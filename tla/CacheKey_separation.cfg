SPECIFICATION Spec
CONSTANTS
  None = None
  Requests <- PlainRequests
INVARIANTS
  KeysSeparate
  KeysAreShared
