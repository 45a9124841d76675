\* Up to five requests of a buffer of eight bytes, and frees of any block.
SPECIFICATION HeapSpec
CONSTANTS
  BUFFER = 8
  Sizes <- FewSizes
  MaxCalls = 5
  MaxFrees = 2
INVARIANTS
  HeapTypeOK
  BlocksDisjoint
CHECK_DEADLOCK FALSE
