SPECIFICATION Spec
CONSTANTS
  Tabs = {t1, t2}
  Calls = {c1, c2}
  Owner = owner
  None = none
  Role = "USER"
  Redis = TRUE
  MaxTokens = 6
  Ops <- TabOps
  Main = t1
  MainOps = {"login", "list"}
  SideOps = {}
  Faults = {}
INVARIANT OwnSessionsShown
CHECK_DEADLOCK FALSE
