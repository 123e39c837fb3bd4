SPECIFICATION Spec
CONSTANTS
  Byte = {0, 1, 2}
  Lists <- MCMisread
  TextLength = 4
INVARIANT ReductionKeepsMatches
CHECK_DEADLOCK FALSE
