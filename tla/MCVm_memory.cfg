SPECIFICATION Spec
CONSTANTS
  Family = "growing"
  TwoByteLength = 24
  ThreeByteLength = 0
  Programs <- MCPrograms
  Flow <- MCFlow
  Texts <- MCOneText
  HitFns = {TRUE}
  Calls = {"search"}
INVARIANT FixedMemory
