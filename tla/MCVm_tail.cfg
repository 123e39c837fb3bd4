SPECIFICATION Spec
CONSTANTS
  Family = "all"
  TwoByteLength = 4
  ThreeByteLength = 3
  Programs <- MCPrograms
  Flow <- MCFlow
  Texts <- MCTexts
  HitFns = {TRUE}
  Calls = {"startsWith", "reset"}
INVARIANT StartsWithFindsThem
