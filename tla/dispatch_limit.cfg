SPECIFICATION Spec
CONSTANTS
  t1 = t1
  t2 = t2
  t3 = t3
  Tasks <- ThreeTasks
  Prio <- EqualPrio3
  MaxConcurrent = 1
  MaxAttempts = 1
  MaxRuns = 1
  MaxTerminals = 2
  Faults <- OnlyTimeout
INVARIANTS ConcurrencyLimit
CHECK_DEADLOCK FALSE
