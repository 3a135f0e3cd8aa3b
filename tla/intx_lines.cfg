SPECIFICATION FairSpec
CONSTANTS
  Gsi = {"a", "b"}
  KvmFails = TRUE
  MaxMoves = 5
INVARIANTS
  
  MaskHasOwner
PROPERTIES
  LineIsServed
