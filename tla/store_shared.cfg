SPECIFICATION FairSpec
CONSTANTS
  c1 = c1
  c2 = c2
  Calls <- TwoCalls
  EventTypes <- SharedEvents
  MaxEvents = 3
  MaxLoads = 2
  Faults <- AllFaults
INVARIANTS TypeOK CacheAgrees
PROPERTIES CallsReturn
CHECK_DEADLOCK FALSE
