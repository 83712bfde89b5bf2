SPECIFICATION Spec
CONSTANTS
  Tabs = {t1, t2}
  Calls = {c1, c2}
  Owner = owner
  None = none
  Role = "USER"
  Redis = TRUE
  MaxTokens = 6
  Ops <- TabOps
  Main = t1
  MainOps = {"login", "force", "restore", "list", "reauth", "password", "email", "delete", "logout"}
  SideOps = {"restore", "status"}
  Faults = {"elsewhere", "busy", "lost", "slow", "error"}
SYMMETRY CallsAlike
CONSTRAINT Calm
VIEW Seen
INVARIANT UserHasCookie
PROPERTIES AlarmExplained  KeptSignedIn
CHECK_DEADLOCK FALSE
