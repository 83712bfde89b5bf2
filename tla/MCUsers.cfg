CONSTANTS
  r1 = r1
  r2 = r2
  p1 = p1
  p2 = p2
  Requests = {r1, r2}
  Founder = founder
  Processes = {p1, p2}
  None = none
  Names <- MCNames
  Addresses <- MCAddresses
  Lower <- MCLower
  Does <- MCDoes
  FirstName = "bob"
  FirstAddress = "b@x"
  Size = 4
  NumHashes = 2
  fnv1a <- MCfnv1a
  djb2 <- MCdjb2
  MaxAttempts = 2
  Faults = {"error", "stop", "slow", "lag", "busy"}
SPECIFICATION Spec
SYMMETRY Alike
CHECK_DEADLOCK FALSE
INVARIANTS TypeOK AnswersHold NameLockExcludes OwnNamesKnown
PROPERTIES TwinsNeedStaleCheck
