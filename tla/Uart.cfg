CONSTANTS
  t1 = t1
  t2 = t2
  Task = {t1, t2}
  Depth = 1
  MaxBuffer = 2
  MaxWritten = 2
  MaxInput = 2

SPECIFICATION FairSpec
CHECK_DEADLOCK FALSE

INVARIANTS
  WrittenIsSent
  OnlyRacesHurt

PROPERTIES
  WriteEnds
