SPECIFICATION MCSpec
CONSTANTS
  f1 = f1 f2 = f2 a = a b = b e = e w = w name = name
  Files <- OneFile
  Contents <- MCContents
  Payloads <- MCPayloads
  Empty = e
  Woven = w
  SizeOf <- MCSizeOf
  NameOf <- SameName
  GitHead <- MCGitHead
  MaxSec = 2 MaxDepth = 1 MaxWrites = 4 MayCrash = TRUE Quiet = FALSE
  Absent = Absent NoDir = NoDir NoHead = NoHead Torn = Torn
  x1 = x1 x2 = x2
  r1 = r1 s1 = s1 Nobody = Nobody
  Persons = {x1, x2} Servers = {s1} Slots = {1, 2} Keys = {r1}
  BindRoles = {"owner", "editor"} Ttl = 1 EditTtl = 1 MaxTime = 1 MaxBegins = 2
  RequireBound = TRUE RequireToken = TRUE HumanOwnerFirst = TRUE
  v1 = v1 v2 = v2 NoSet = NoSet NoCall = NoCall
  Sets = {1, 2} Vars = {v1, v2} Users = {x1, x2}
  MaxSets = 2 RetainSets = 1 MaxVars = 1 RetainWorkspaces = 1
  MaxSims = 2 MaxReviews = 1 MaxOverlap = 1 MaxNow = 1
  l1 = l1 l2 = l2 NoFileYet = NoFileYet NoneHeld = NoneHeld
  Editors = {x1, x2} Labels = {l1, l2} Bodies = {1} FirstFiles <- TwoAlike
  Kinds = {"upsert", "delete", "top", "write", "create", "remove", "mutate"}
  SmallFile = 2 MaxChanges = 2 MaxBlocks = 3 MaxIndexings = 1
SYMMETRY Alike
CHECK_DEADLOCK FALSE
INVARIANTS StoreSound NoSilentOverwrite CommitCarriesWork
  EditsKeep
PROPERTIES HalfDoneIsRetryable CollabKeeps VariantsKeep
