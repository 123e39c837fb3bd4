SPECIFICATION Spec
CONSTANTS
  TextLength = 3
  JunkLength = 2
  OCE <- MCOCE
  unOCE <- MCunOCE
  Chains <- MCChains
  Inputs <- MCInputs
  CodePoints <- MCCodePoints
  SingleBytes = {66, 128, 255}
  CaseFolds <- MCCaseFolds
  Contexts = {1, 2}
  Replacements = {65533}
  UIntMax = 255
INVARIANT BadAlwaysCounted
