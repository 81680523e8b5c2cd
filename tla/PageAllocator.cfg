CONSTANTS
  Entries = 7
  MaxOrder = 2
  DivideLimit = 1
  Levels <- SmallLevels
  Ranges <- AllRanges
  MaxRanges = 2
  GuardOrders <- PastFrame
SPECIFICATION Spec
INVARIANTS
  TypeOK
  BlocksTile
  ReservedExactly
  ListsAreFreeBlocks
  HeldBlocksKept
  AllFreedRestores
  CorruptOnlyAtEdges
CHECK_DEADLOCK FALSE
