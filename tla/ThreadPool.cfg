\* Two workers, a ring of two slots that goes round, one task that never
\* returns among four.  main may have added all its tasks and wait for ever,
\* or be done, so the system may stop.
SPECIFICATION FairSpec
CONSTANTS
  Task = {t1, t2, t3, t4}
  Endless = {t4}
  NoTask = NoTask
  ThreadCount = 2
  QueueSize = 2
INVARIANTS
  RingConsistent
  FreedAfterWorkers
PROPERTIES
  Implements
  TasksStart
  DestroyReturns
CHECK_DEADLOCK FALSE
