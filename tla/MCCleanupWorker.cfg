SPECIFICATION Spec
CONSTANTS
  MaxJobs = 2
  Executions = {x1, x2}
  MaxRetries = 2
  Batch = 2
  Faults = {"error", "stop"}
INVARIANTS
  AttemptsBounded
  FarewellOnce
PROPERTIES
  JobsSettle
CHECK_DEADLOCK FALSE
