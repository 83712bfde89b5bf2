SPECIFICATION Spec
CONSTANTS
  None = None
  Sends = {s1, s2}
  Verifies = {v1, v2}
  Processes = {p1, p2}
  Backends = {"postgres", "redis"}
  Faults = {"stop", "error", "slow"}
SYMMETRY Symmetry
INVARIANTS
  SingleUse
  LockExcludes
PROPERTIES
  NewestOnly
CHECK_DEADLOCK FALSE
