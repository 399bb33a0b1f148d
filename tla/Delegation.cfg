SPECIFICATION MCSpec
CONSTANTS
  n1 = n1 n2 = n2 w1 = w1 w2 = w2 None = None
  Nodes = {n1, n2}
  Workers = {w1, w2}
  MaxClaims = 1
  MaxOverlaps = 1
  AskedTools = {"search", "read", "edit", "shell", "workspace", "plugin_trust", "build"} Actions = {"none", "add", "status"}
  MaxPlanNodes = 2 MaxPlanDeps = 1 MaxPlanRetries = 1 MaxPlanOutput = 2
  Tables <- MCTables CallTables <- MCCallTables GraphNodes = {"a", "b", "c"} Depths = {0, 1, 2, 3}
  Audits = {w1, w2} Built <- MCBuilt MaxAudits = 2 MaxDropped = 1
SYMMETRY Alike
CHECK_DEADLOCK FALSE
INVARIANTS QueueSound OneOwner CompletedStays
  GraphAndPolicyKeep
