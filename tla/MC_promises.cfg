SPECIFICATION Spec
CONSTANTS
  a = a
  b = b
  T1 = T1
  T2 = T2
  None = None
  Topics = {a}
  Types <- MCTypes
  ServerSchemas = TRUE
  ServerKinds = {FALSE}
  InitialTopics = {a}
  InitialType = T1
  ChangeKinds = {"retype"}
  Budgets <- PromisesBudgets
  HostModes = {TRUE}
  Selections = {{}}
  HostSets = {{a}}
  PauseOps = {"pause", "resume"}
  Refusable = {}
INVARIANT BridgePromiseStands
CHECK_DEADLOCK FALSE
