SPECIFICATION Spec
CONSTANTS
  t1 = t1
  Tasks <- OneTask
  OperatorPolicies <- SomeOperators
  TenantPolicies <- SomeTenants
  TaskPolicies <- SomeRequests
  Paths <- SomePaths
  MaxSets = 3
  MaxRestarts = 2
INVARIANTS CallsWithin AcceptedIsGranted
CHECK_DEADLOCK FALSE
