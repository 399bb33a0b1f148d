SPECIFICATION MCSpec
CONSTANTS
  p1 = p1 a = a b = b None = None
  Proposals = {p1}
  Callers = {x1, x2}
  MaxWrites = 1
  x1 = x1 x2 = x2
  f1 = f1 f2 = f2 v1 = v1 v2 = v2 NoContent = NoContent NoReviewer = NoReviewer
  Tracked = {f1, f2} Contents1 <- MCContents1 Reviewers = {x1, x2} Servers = {v1, v2} Lines = {"l", "m"}
  LongestDiff = 3 CellLimit = 6 MaxCycles = 2 MaxRewrites = 1 MaxReviews = 3 MaxRestarts1 = 1
  v3 = v3 u1 = u1 u2 = u2 NoReport = NoReport Watched = {v3} WatchSymbols = {u1, u2}
  LoopAt = 2 LoopWindow = 2 SilentAfter = 1 MaxMinutes = 3 MaxTracked = 3 MaxFaults = 1
  s1 = s1 s2 = s2 NoSource = NoSource
  CodeFiles = {s1, s2} Refactorings = {x1, x2} CodeTexts <- MCCode OldLetter = "a" NewNames <- MCNew
  RefactorKinds = {"rename", "move", "extract"} MaxClones = 2 MaxCrossings = 1
SYMMETRY Alike
CHECK_DEADLOCK FALSE
INVARIANTS ProposalsSound
  ReportsKeep
  RefactorKeeps
PROPERTIES CommitsAreApproved
