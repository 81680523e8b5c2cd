CONSTANTS
  Entries = 7
  MaxOrder = 2
  DivideLimit = 1
  Levels <- SmallLevels
  Ranges <- AllRanges
  MaxRanges = 2
  GuardOrders <- PastFrame
SPECIFICATION Spec
INVARIANTS
  NoPageCanBeDivided
CHECK_DEADLOCK FALSE
