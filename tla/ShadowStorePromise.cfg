SPECIFICATION MCSpec
CONSTANTS
  f1 = f1 f2 = f2 a = a b = b e = e w = w name = name
  Files <- TwoFiles
  Contents <- MCContents
  Payloads <- MCPayloads
  Empty = e
  Woven = w
  SizeOf <- MCSizeOf
  NameOf <- SameName
  GitHead <- MCGitHead
  MaxSec = 1 MaxDepth = 0 MaxWrites = 2 MayCrash = TRUE Quiet = TRUE
  Absent = Absent NoDir = NoDir NoHead = NoHead Torn = Torn
  x1 = x1 x2 = x2
  Writers = {x1, x2} CheckpointEvery = 2 HashChain = TRUE MaxActions = 3
  NoProc = NoProc
  Shells = {x1, x2} TaskLimit = 1 AllowBackground = TRUE MaxProcs = 3
  grp = grp NoSession = NoSession
  Groups = {grp} ToolCalls = {x1, x2} MaxRestarts = 1 MaxSessions = 3
  n1 = n1 n2 = n2 p1 = p1 p2 = p2 NoText = NoText NoName = NoName
  Paths = {p1, p2} Names = {n1, n2} Texts <- MCTexts Searchers = {x1, x2} Modes = {"fast", "lazy", "scoped"}
  Scope = {p1} MaxSearches = 2 MaxEdits = 1 MaxSecond = 2 MaxDrops = 1
SYMMETRY Alike
CHECK_DEADLOCK FALSE
INVARIANTS
  LedgerKeeps
  ShellKeeps
  ToolsKeep
  IndexKeeps
PROPERTIES KeepsPromise
