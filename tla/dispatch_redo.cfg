SPECIFICATION Spec
CONSTANTS
  t1 = t1
  t2 = t2
  t3 = t3
  Tasks <- OneTask
  Prio <- EqualPrio1
  MaxConcurrent = 1
  MaxAttempts = 2
  MaxRuns = 2
  MaxTerminals = 1
  Faults <- RedoFaults
INVARIANTS TypeOK OneSender RetryBudget
CHECK_DEADLOCK FALSE
