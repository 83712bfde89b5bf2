SPECIFICATION Spec
CONSTANTS
  None = None
  Users = {u1, u2}
  Devices = {d1, d2}
  Requests = {r1, r2, r3}
  Ops = {"login", "refresh", "logout", "status", "password", "others"}
  MaxInFlight = 3
  Faults = {"abort", "redis", "lag"}
SYMMETRY Interchangeable
INVARIANTS
  SessionBoundToDevice
  ReplacementChain
  NegativeCacheSound
  OneTokenPerSession
  CacheCoherent
PROPERTIES SessionIsolation RegistrySpec
CHECK_DEADLOCK FALSE
