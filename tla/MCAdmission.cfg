SPECIFICATION Spec
CONSTANTS
  Requests = {r1, r2, r3, r4}
  MaxConcurrent = 3
  RecoveryConcurrent = 2
  Capacity = 2
  MaxClock = 2
  MaxSetBack = 1
  Lags = {0, 1}
  Faults = {"error"}
SYMMETRY Interchangeable
INVARIANTS
  CounterExact
  AdmittedBounded
  RateBounded
PROPERTIES
  QuietServerAdmits
  OverloadEndsQuietly
