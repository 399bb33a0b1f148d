------------------------------ MODULE ReviewCycles ------------------------------
(***************************************************************************)
(* Review cycles (review_cycle.rs).  begin photographs the workspace file  *)
(* by file, saves the photograph, names it in HEAD and makes it the active *)
(* cycle of its server; changes and review compare the workspace with it;  *)
(* end forgets it.  Calls of a server run at once and only some of them    *)
(* hold its lock, servers share the files, and any of them may restart.    *)
(***************************************************************************)
EXTENDS Naturals, Sequences, FiniteSets, FiniteSetsExt

CONSTANTS Tracked, Contents1, NoContent, \* files; contents, as sequences of lines; no such file
          Reviewers, Servers, NoReviewer, \* calls, and the servers that run them
          Lines, LongestDiff, CellLimit,  \* the comparisons tried; where they give up
          MaxCycles, MaxRewrites, MaxReviews, MaxRestarts1 \* bounds

ASSUME ReviewAssumption == <<>> \in Contents1 /\ {CellLimit, LongestDiff, MaxCycles} \subseteq Nat

VARIABLES
  body,      \* the workspace
  named1,    \* the cycle of HEAD, 0: none
  cycles,    \* the cycles on disk: photograph and graph
  active,    \* the cycle of each server
  latch,     \* who holds the lock of each server
  home,      \* the server of each call
  rcall,     \* each call
  begun,     \* cycles so far
  written,   \* history: of each cycle, the files written since it began
  stirred,   \* history: of each call, the files written since it began
  behind,    \* history: servers that another, or an overlap, has left behind
  rewrites, reviews, restarts

reviewVars == <<body, named1, cycles, active, latch, home, rcall, begun, written, stirred, behind, rewrites, reviews, restarts>>
histories == <<written, stirred, behind>>

CycleIds == 1..MaxCycles
Photo == [Tracked -> Contents1 \cup {NoContent}]
Blank0 == [f \in Tracked |-> NoContent]
Unsaved == [snap |-> Blank0, graph |-> Blank0, saved |-> FALSE]
NoRCall == [at |-> "idle", kind |-> "end", cycle |-> 0, left |-> {}, seen |-> Blank0, graph |-> Blank0]
ReviewTypeOK ==
  /\ body \in Photo /\ named1 \in 0..MaxCycles /\ begun \in 0..MaxCycles
  /\ \A i \in CycleIds : cycles[i].snap \in Photo /\ cycles[i].graph \in Photo
  /\ active \in [Servers -> 0..MaxCycles] /\ latch \in [Servers -> Reviewers \cup {NoReviewer}]
  /\ \A x \in Reviewers : /\ rcall[x].at \in {"idle", "list", "scan", "graph", "save", "head", "active", "report"}
                          /\ rcall[x].kind \in {"begin", "changes", "review", "end"} /\ rcall[x].seen \in Photo
ReviewInit ==
  /\ body \in [Tracked -> Contents1] /\ named1 = 0 /\ cycles = [i \in CycleIds |-> Unsaved]
  /\ active = [v \in Servers |-> 0] /\ latch = [v \in Servers |-> NoReviewer] /\ home \in [Reviewers -> Servers]
  /\ rcall = [x \in Reviewers |-> NoRCall] /\ begun = 0
  /\ written = [i \in CycleIds |-> {}] /\ stirred = [x \in Reviewers |-> {}] /\ behind = {}
  /\ rewrites = 0 /\ reviews = 0 /\ restarts = 0
-----------------------------------------------------------------------------
(* The comparison of two contents                                          *)

Cells(a, b) == (0..Len(a)) \X (0..Len(b))
\* Lengths of the common subsequences of what is left after i of a and j of b.
Common(a, b) ==
  LET dp[p \in Cells(a, b)] ==
        LET i == p[1]  j == p[2]
        IN  IF i = Len(a) \/ j = Len(b) THEN 0
            ELSE IF a[i + 1] = b[j + 1] THEN dp[<<i + 1, j + 1>>] + 1
            ELSE LET down == dp[<<i + 1, j>>]  across == dp[<<i, j + 1>>] IN IF down >= across THEN down ELSE across
  IN  dp
Walk(a, b) ==
  LET dp == Common(a, b)
      walk[p \in Cells(a, b)] ==
        LET i == p[1]  j == p[2]
        IN  IF i = Len(a) THEN [added |-> (j + 1)..Len(b), removed |-> 0]
            ELSE IF j = Len(b) THEN [added |-> {}, removed |-> Len(a) - i]
            ELSE IF a[i + 1] = b[j + 1] THEN walk[<<i + 1, j + 1>>]
            ELSE IF dp[<<i + 1, j>>] >= dp[<<i, j + 1>>] THEN [walk[<<i + 1, j>>] EXCEPT !.removed = @ + 1]
            ELSE [walk[<<i, j + 1>>] EXCEPT !.added = @ \cup {j + 1}]
  IN  walk[<<0, 0>>]
\* diff_added_removed: the lines of b that are new, by number, and how many of a are gone.
DiffAddedRemoved(a, b) ==
  IF Len(a) * Len(b) > CellLimit THEN [added |-> DOMAIN b, removed |-> Len(a)] ELSE Walk(a, b)
-----------------------------------------------------------------------------
(* Calls                                                                   *)

RAt(x, at) == rcall[x].at = at
Turns(x, r) == rcall' = [rcall EXCEPT ![x] = r]
Disk == <<body, named1, cycles>>
Memory == <<active, latch, home>>
Bounds == <<begun, rewrites, reviews, restarts>>

Rewrite(f, c) ==
  /\ rewrites < MaxRewrites /\ rewrites' = rewrites + 1 /\ c # body[f] /\ body' = [body EXCEPT ![f] = c]
  /\ written' = [i \in CycleIds |-> IF i <= begun THEN written[i] \cup {f} ELSE {}]
  /\ stirred' = [x \in Reviewers |-> IF RAt(x, "idle") THEN {} ELSE stirred[x] \cup {f}]
  /\ UNCHANGED <<named1, cycles, Memory, rcall, begun, behind, reviews, restarts>>

\* A call that changes the active cycle leaves the other servers behind, and two at
\* once leave everybody there.
Writing == {x \in Reviewers : ~RAt(x, "idle") /\ rcall[x].kind = "begin"}
Leaves1(x) == behind' = behind \cup (IF Writing \ {x} = {} THEN Servers \ {home[x]} ELSE Servers)
Starts1 == reviews < MaxReviews /\ reviews' = reviews + 1
BeginCycle(x) ==
  /\ RAt(x, "idle") /\ Starts1 /\ begun < MaxCycles /\ begun' = begun + 1
  /\ Turns(x, [NoRCall EXCEPT !.at = "list", !.kind = "begin", !.cycle = begun'])
  /\ Leaves1(x) /\ stirred' = [stirred EXCEPT ![x] = {}]
  /\ UNCHANGED <<Disk, Memory, written, rewrites, restarts>>
Free(v) == latch[v] = NoReviewer
\* status and changes hold the lock until they answer; review copies the cycle.
BeginReport(x, k) ==
  /\ RAt(x, "idle") /\ Starts1 /\ Free(home[x]) /\ active[home[x]] # 0
  /\ Turns(x, [NoRCall EXCEPT !.at = "list", !.kind = k, !.cycle = active[home[x]]])
  /\ latch' = IF k = "changes" THEN [latch EXCEPT ![home[x]] = x] ELSE latch
  /\ stirred' = [stirred EXCEPT ![x] = {}]
  /\ UNCHANGED <<Disk, active, home, begun, written, behind, rewrites, restarts>>
Lists(x) ==
  /\ RAt(x, "list") /\ Turns(x, [rcall[x] EXCEPT !.at = "scan", !.left = {f \in Tracked : body[f] # NoContent}])
  /\ UNCHANGED <<Disk, Memory, Bounds, histories>>
\* A file that is gone by now reads as an empty one.
Scans(x, f) ==
  /\ RAt(x, "scan") /\ f \in rcall[x].left
  /\ Turns(x, [rcall[x] EXCEPT !.left = @ \ {f}, !.seen[f] = IF body[f] = NoContent THEN <<>> ELSE body[f]])
  /\ UNCHANGED <<Disk, Memory, Bounds, histories>>
\* The graph is built of the files as they are after the scan.
BuildsGraph(x) ==
  /\ RAt(x, "scan") /\ rcall[x].left = {}
  /\ Turns(x, [rcall[x] EXCEPT !.at = IF @ = "scan" /\ rcall[x].kind = "begin" THEN "save" ELSE "report",
                               !.graph = IF rcall[x].kind = "changes" THEN Blank0 ELSE body])
  /\ UNCHANGED <<Disk, Memory, Bounds, histories>>
SaveSession(x) ==
  /\ RAt(x, "save") /\ Turns(x, [rcall[x] EXCEPT !.at = "head"])
  /\ cycles' = [cycles EXCEPT ![rcall[x].cycle] = [snap |-> rcall[x].seen, graph |-> rcall[x].graph, saved |-> TRUE]]
  /\ UNCHANGED <<body, named1, Memory, Bounds, histories>>
WriteHead(x) ==
  /\ RAt(x, "head") /\ Turns(x, [rcall[x] EXCEPT !.at = "active"]) /\ named1' = rcall[x].cycle
  /\ UNCHANGED <<body, cycles, Memory, Bounds, histories>>
SetActive(x) ==
  /\ RAt(x, "active") /\ Free(home[x]) /\ active' = [active EXCEPT ![home[x]] = rcall[x].cycle] /\ Turns(x, NoRCall)
  /\ UNCHANGED <<Disk, latch, home, Bounds, histories>>
\* The answer, and the lock.
Reports(x) ==
  /\ RAt(x, "report") /\ Turns(x, NoRCall) /\ latch' = [v \in Servers |-> IF latch[v] = x THEN NoReviewer ELSE latch[v]]
  /\ UNCHANGED <<Disk, active, home, Bounds, histories>>
\* Mutant: HEAD is left as it was.
EndKeepsHead(x) ==
  /\ RAt(x, "idle") /\ Starts1 /\ Free(home[x])
  /\ active' = [active EXCEPT ![home[x]] = 0] /\ Leaves1(x)
  /\ UNCHANGED <<body, named1, cycles, latch, home, rcall, begun, written, stirred, rewrites, restarts>>
EndCycle(x) ==
  /\ RAt(x, "idle") /\ Starts1 /\ Free(home[x])
  /\ active' = [active EXCEPT ![home[x]] = 0] /\ named1' = 0 /\ Leaves1(x)
  /\ UNCHANGED <<body, cycles, latch, home, rcall, begun, written, stirred, rewrites, restarts>>
\* The calls of a server die with it, and the next one takes the cycle of HEAD.
Restart1(v) ==
  /\ restarts < MaxRestarts1 /\ restarts' = restarts + 1
  /\ rcall' = [x \in Reviewers |-> IF home[x] = v THEN NoRCall ELSE rcall[x]]
  /\ latch' = [latch EXCEPT ![v] = NoReviewer]
  /\ active' = [active EXCEPT ![v] = IF named1 # 0 /\ cycles[named1].saved THEN named1 ELSE 0]
  /\ behind' = IF {x \in Writing : home[x] # v} = {} THEN behind \ {v} ELSE behind
  /\ UNCHANGED <<Disk, home, begun, written, stirred, rewrites, reviews>>

ReviewNext ==
  \/ \E f \in Tracked, c \in Contents1 \cup {NoContent} : Rewrite(f, c)
  \/ \E v \in Servers : Restart1(v)
  \/ \E x \in Reviewers :
       \/ BeginCycle(x) \/ BeginReport(x, "changes") \/ BeginReport(x, "review") \/ EndCycle(x)
       \/ Lists(x) \/ (\E f \in Tracked : Scans(x, f)) \/ BuildsGraph(x)
       \/ SaveSession(x) \/ WriteHead(x) \/ SetActive(x) \/ Reports(x)
ReviewSpec == ReviewInit /\ [][ReviewNext]_reviewVars
-----------------------------------------------------------------------------
(* Properties                                                              *)

Held(c) == IF c = NoContent THEN <<>> ELSE c
\* compute_raw_changes: a missing file counts as an empty one.
Changed(old, new) == {f \in Tracked : Held(old[f]) # Held(new[f])}
CycleOf(x) == cycles[rcall[x].cycle]

\* A report names no file that nobody has written since its cycle began, in the
\* contents or in the graph, and misses none that differs, unless it was written
\* while the report was made.
ReportsTrue ==
  \A x \in Reviewers : RAt(x, "report") =>
    /\ Changed(CycleOf(x).snap, rcall[x].seen) \subseteq written[rcall[x].cycle]
    /\ rcall[x].kind = "review" => Changed(CycleOf(x).graph, rcall[x].graph) \subseteq written[rcall[x].cycle]
    /\ \A f \in Changed(CycleOf(x).snap, body) \ stirred[x] : f \in Changed(CycleOf(x).snap, rcall[x].seen)
\* HEAD names a cycle that is on disk, so that a restart finds it.
HeadOnDisk == named1 # 0 => cycles[named1].saved
\* A server's cycle is that of HEAD, unless another server or two calls at once have
\* begun or ended one: what has ended does not come back.
ActiveFollowsHead == \A v \in Servers \ behind : (\A x \in Writing : home[x] # v) => active[v] = named1

Lists1 == UNION {[1..k -> Lines] : k \in 0..LongestDiff}
\* Pairs of equal lines that do not cross.
Matchings(a, b) == {M \in SUBSET {p \in (1..Len(a)) \X (1..Len(b)) : a[p[1]] = b[p[2]]} :
                      \A p, q \in M : p[1] < q[1] <=> p[2] < q[2]}
Longest(a, b) == Max({Cardinality(M) : M \in Matchings(a, b)})
\* The lines that a comparison keeps are as many as two contents can have in common, as
\* long as it does not give up; then everything is new.
DiffsLeast ==
  \A a, b \in Lists1 :
    LET d == DiffAddedRemoved(a, b)
    IN  IF Len(a) * Len(b) > CellLimit THEN d.removed = Len(a) /\ d.added = DOMAIN b
        ELSE Len(a) - d.removed = Longest(a, b) /\ Len(b) - Cardinality(d.added) = Longest(a, b)

\* What review cycles keep, however calls, servers and writers interleave.
CyclesKeep == ReviewTypeOK /\ ReportsTrue /\ HeadOnDisk /\ ActiveFollowsHead
ReviewKeeps == CyclesKeep /\ DiffsLeast
=============================================================================
