SPECIFICATION Spec
CONSTANTS
  f1 = f1 f2 = f2 a = a b = b e = e w = w name = name
  Files <- TwoFiles
  Contents <- MCContents
  Payloads <- MCPayloads
  Empty = e
  Woven = w
  SizeOf <- MCSizeOf
  NameOf <- SameName
  GitHead <- MCGitHead
  MaxSec = 0
  MaxDepth = 0
  MaxWrites = 2
  MayCrash = TRUE
  Quiet = FALSE
  Absent = Absent NoDir = NoDir NoHead = NoHead Torn = Torn
INVARIANT CommitAllOrNothing
