SPECIFICATION Spec
CONSTANTS
  None = None
  Requests <- LabelledRequests
INVARIANTS
  TypedFieldsSeparateKeys
