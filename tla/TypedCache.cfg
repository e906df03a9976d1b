SPECIFICATION Spec
CONSTANTS
  c1 = c1  c2 = c2  c3 = c3  struct = struct  any = any
  raw = raw  bytes = bytes  map = map  nil = nil  json = json  typed = typed
  Calls <- ThreeCalls
  JSONSlots <- OneJSON
  TypedSlots <- OneTyped
  Types <- AllTypes
  Dynamic <- AllDynamic
  Nil <- nil
  Dyn <- DynOf
  Decode <- DecodeOf
  Outside = Outside
  None = None
SYMMETRY CallSymmetry
INVARIANTS
  TypeOK
  FlightsDropNoWork
  OneFetchPerSlot
  OnlyOthersSpoil
  LookupsAreCounted
  Inv
CONSTRAINT OneSlotInUse
