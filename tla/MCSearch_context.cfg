SPECIFICATION Spec
CONSTANTS
  Commands <- MCCommands
  Disks <- MCDisks
  Faulty = {"g"}
  Contents <- MCContents
  Hits <- MCHits
  BlockSize = 2
  OffsetSize = 64
INVARIANT HitInItsContext
