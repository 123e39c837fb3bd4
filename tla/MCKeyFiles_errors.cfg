SPECIFICATION Spec
CONSTANTS
  FilterBits = 16
  LargestNumber = 65535
  KeyLists <- MCKeyLists
  Parses <- MCParses
  Encodes <- MCEncodes
  EncodingsIn <- MCEncodingsIn
  DefaultEncodings <- MCDefaultEncodings
  Compiled <- MCCompiled
  TextOf <- MCTextOf
INVARIANT ErrorsKept
