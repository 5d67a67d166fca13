SPECIFICATION Spec
CONSTANTS
  c1 = c1
  c2 = c2
  Calls <- OneCall
  EventTypes <- AllEventTypes
  MaxEvents = 7
  MaxLoads = 3
  Faults <- SerialFaults
INVARIANTS StatesAgree
PROPERTIES ImplementsLifecycle LegalWrites
CHECK_DEADLOCK FALSE
