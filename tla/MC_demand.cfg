SPECIFICATION Spec
CONSTANTS
  a = a
  b = b
  T1 = T1
  T2 = T2
  None = None
  Topics <- MCTopics
  Types <- MCTypes
  ServerSchemas = TRUE
  ServerKinds = {FALSE}
  InitialTopics = {a}
  InitialType = T1
  ChangeKinds = {"add", "retype"}
  Budgets <- DemandBudgets
  HostModes = {TRUE}
  Selections = {{}, {a}}
  HostSets = {{}, {a}, {a, b}}
  PauseOps = {}
  Refusable = {a}
INVARIANTS AppliedWithinTarget ParsedAsSent CatalogAgrees AppliedAreBound
CHECK_DEADLOCK FALSE
