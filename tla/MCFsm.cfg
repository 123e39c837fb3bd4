SPECIFICATION Spec
CONSTANTS
  Byte = {0, 1, 2}
  Lists <- MCLists
  TextLength = 4
INVARIANT ReductionKeepsMatches
INVARIANT MatchesKept
INVARIANT CodeFitsLayout
INVARIANT FilterSound
CHECK_DEADLOCK FALSE
