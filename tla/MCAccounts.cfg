SPECIFICATION Spec
CONSTANTS
  Logins = {l1, l2}
  Confirms = {c1, c2}
  MaxAttempts = 3
  Faults = {"error", "lag", "restart"}
INVARIANTS
  GuessesBounded
  NoAccessLeft
  OneJobPerAccount
PROPERTIES
  LiftedWithReason
SYMMETRY Interchangeable
CHECK_DEADLOCK FALSE
