SPECIFICATION FairSpec
CONSTANTS
  d1 = d1
  d2 = d2
  d3 = d3
  Deliveries <- ThreeDeliveries
  Faults <- AllFaults
INVARIANTS OwnAnswer NoLaterAnswer DonePaired
PROPERTIES TurnsReported
CHECK_DEADLOCK FALSE
