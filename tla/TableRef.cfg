SPECIFICATION Spec
CONSTANTS
  Characters <- InByteOrder
  Blank = " "
  WideBlank = "wide"
  Typed <- AllButB
  Beginning <- AList
  Refs <- SomeRefs
  MaxLength = 5
  MaxLonger = 9
INVARIANTS
  ParsesTheGrammar
  CanonicalFormIsFixed
  RefsComeBack
  BackticksComeBack
