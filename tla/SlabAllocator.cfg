CONSTANTS
  PageSize = 4096
  Requests <- SomeRequests
  Blocks <- SomeBlocks
SPECIFICATION Spec
INVARIANTS
  SlotsAreHeld
  MemoryIsDisjoint
