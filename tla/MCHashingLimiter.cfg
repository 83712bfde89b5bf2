SPECIFICATION LimiterSpec
CONSTANTS
  Callers = {c1, c2, c3, c4, c5}
  MaxConcurrency = 2
  MaxQueueSize = 2
INVARIANTS
  SlotsAccountedFor
PROPERTIES
  FirstComeFirstServed
  EveryCallServed
