SPECIFICATION Spec
CONSTANTS
  Family = "all"
  TwoByteLength = 3
  ThreeByteLength = 3
  Programs <- MCPrograms
  Flow <- MCFlow
  Texts <- MCTexts
  HitFns = {TRUE, FALSE}
  Calls = {"search", "searchResolve", "startsWith", "closeOut", "reset"}
INVARIANT TypeOK
INVARIANT PriorityOrder
INVARIANT FlagsMatchNext
INVARIANT FinishedWaitForLive
INVARIANT LeadIsFirst
INVARIANT HitsDisjoint
PROPERTY ReturnBoundsLaterHits
PROPERTY CallsReturn
