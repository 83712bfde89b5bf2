SPECIFICATION Spec
CONSTANTS
  None = None
  Sends = {s1}
  Verifies = {v1, v2}
  Processes = {p1, p2}
  Backends = {"postgres", "redis"}
  Faults = {"stop", "error", "slow"}
PROPERTIES
  LockComesFree
CHECK_DEADLOCK FALSE
