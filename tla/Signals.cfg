CONSTANTS
  idle = idle
  t1 = t1
  t2 = t2
  t3 = t3
  t4 = t4
  null = null
  Task <- MCTask
  Idle <- idle
  NULL <- null
SPECIFICATION Spec
SYMMETRY Symmetry
INVARIANTS
  TasksAccounted
  ParkedIsAwaited
PROPERTIES
  ExitKillsOnlyInWindow
CHECK_DEADLOCK FALSE
