SPECIFICATION FairSpec
CONSTANTS
  a = a
  b = b
  T1 = T1
  T2 = T2
  None = None
  Topics = {a}
  Types = {T1}
  ServerSchemas = FALSE
  ServerKinds = {TRUE, FALSE}
  InitialTopics = {a}
  InitialType = T1
  ChangeKinds = {"add", "remove"}
  Budgets <- SessionsBudgets
  HostModes = {TRUE, FALSE}
  Selections = {{a}}
  HostSets = {{}, {a}}
  PauseOps = {"pause", "resume"}
  Refusable = {a}
INVARIANTS DesiredIsLatest PauseAgrees IngestOnlyActive SubscriptionsAgree
PROPERTIES StartResolves ComesToRest
CHECK_DEADLOCK FALSE
