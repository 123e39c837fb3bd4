SPECIFICATION Spec
CONSTANTS
  Commands <- MCCommands
  Disks <- MCDisks
  Faulty = {"g"}
  Contents <- MCContents
  Hits <- MCHits
  BlockSize = 2
  OffsetSize = 64
INVARIANT TypeOK
INVARIANT BlockIntact
INVARIANT FedInOrder
INVARIANT OpenedInOrder
INVARIANT OutputPromise
INVARIANT ContextLines
INVARIANT TotalsAgree
PROPERTY Terminates
