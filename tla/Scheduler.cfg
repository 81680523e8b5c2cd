CONSTANTS
  idle = idle
  t1 = t1
  t2 = t2
  t3 = t3
  null = null
  Task <- MCTask
  Idle <- idle
  NULL <- null
  Killable <- AnyPid
  MaxPid = 5
  MaxRuns = 3
SPECIFICATION FairSpec
INVARIANTS
  QueuesPartitionTasks
  LivePidsUnique
  ExitedNeverRuns
  PreemptedOnlyInFirstRun
  CrashOnlyIfIdleKilled
PROPERTIES
  FifoOrder
  LifecycleSpec
  ReadyEventuallyRuns
  ZombieEventuallyFreed
CHECK_DEADLOCK FALSE
