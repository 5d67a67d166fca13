SPECIFICATION FairSpec
CONSTANTS
  t1 = t1
  t2 = t2
  t3 = t3
  Tasks <- TwoTasks
  Prio <- EqualPrio2
  MaxConcurrent = 1
  MaxAttempts = 1
  MaxRuns = 1
  MaxTerminals = 2
  Faults <- LateFaults
INVARIANTS NoStrandedTurn CompletedIsRecorded
PROPERTIES RunsEnd
CHECK_DEADLOCK FALSE
