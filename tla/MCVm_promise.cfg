SPECIFICATION Spec
CONSTANTS
  Family = "all"
  TwoByteLength = 5
  ThreeByteLength = 3
  Programs <- MCPrograms
  Flow <- MCFlow
  Texts <- MCTexts
  HitFns = {TRUE}
  Calls = {"search", "searchResolve", "startsWith", "closeOut", "reset"}
PROPERTY KeepsPromise
