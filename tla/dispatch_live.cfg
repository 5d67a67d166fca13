SPECIFICATION CalmSpec
CONSTANTS
  t1 = t1
  t2 = t2
  t3 = t3
  Tasks <- ThreeTasks
  Prio <- MixedPrio3
  MaxConcurrent = 2
  MaxAttempts = 1
  MaxRuns = 1
  MaxTerminals = 1
  Faults <- CalmFaults
INVARIANTS SlotAccounting
PROPERTIES TurnsAnswered
CHECK_DEADLOCK FALSE
