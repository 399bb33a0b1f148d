SPECIFICATION MCSpec
CONSTANTS
  c1 = c1 f1 = f1 f2 = f2
  Clients = {c1, c2}
  Files = {f1, f2}
  Programs <- OneAndOthers
  MaxLen = 4
  MAX_DSL_DEPTH = 3
  MAX_DSL_NODES = 3
  g1 = g1 g2 = g2 k1 = k1 k2 = k2 i1 = i1 i2 = i2 NoTask = NoTask
  Agents = {g1, g2} Checks = {k1, k2} Inits = {i1, i2}
  RequireFile = FALSE ChallengeTtl = 0 MaxChallenges = 2 MaxSeconds = 1
  b1 = b1 b2 = b2 BuildRuns = {b1, b2} Unset = Unset MaxSettingsChanges = 1
  BuildRequests <- SomeRequests AllSettings <- SomeSettings AllBuildFiles <- SomeFiles
  Reports <- SomeReports SymbolRows <- TwoSymbols
  d1 = d1 d2 = d2 d3 = d3 Sends = {d1, d2, d3} MaxDebugSessions = 1 NoTarget = NoTarget
  e1 = e1 e2 = e2 Diagnosers = {e1, e2} SourceFiles <- TwoSources BrokenAt <- BrokenFirst
  MaxFileEdits = 1 CheckerOutputs <- SomeOutputs Nothing = Nothing
  TokenStrings <- SomeTokenStrings ScriptPrograms <- SomeScripts Arguments <- SomeArguments
CHECK_DEADLOCK FALSE
INVARIANTS StackSound StagedIsThere ProgramsKeep CompilersKeep
PROPERTIES RollbackUnstages
