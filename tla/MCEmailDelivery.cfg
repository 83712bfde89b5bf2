SPECIFICATION Spec
CONSTANTS
  None = None
  Jobs = {j1, j2}
  Executions = {x1, x2}
  Levels = 2
  MaxRetries = 2
  Backends = {"postgres", "redis"}
  Faults = {"crash", "store"}
INVARIANTS
  OneExecutionPerJob
  NoJobLost
  AttemptsBounded
PROPERTY EveryJobSettled
CHECK_DEADLOCK FALSE
