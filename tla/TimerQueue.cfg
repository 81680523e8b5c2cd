CONSTANTS
  Period = 2
  MaxTime = 9
  MaxRuns = 3
  MaxWaiting = 3
SPECIFICATION Spec
INVARIANTS
  QueueSorted
  ArmedForHead
PROPERTIES
  NeverEarly
  CountSpec
CHECK_DEADLOCK FALSE
