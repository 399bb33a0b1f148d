-------------------------- MODULE Reviews_proofs --------------------------
(***************************************************************************)
(* Proofs about ReviewCycles, ProposalGate and Watchdog.                   *)
(*                                                                         *)
(* Review cycles: a photograph is of the workspace but for the files that  *)
(* were written since its cycle began, and what a call has read still holds *)
(* unless it was written since; so a report names only what was written,   *)
(* and all that stands still.  Its comparison of two texts, of any length, *)
(* keeps the most lines that they have in common.                          *)
(*                                                                         *)
(* Watchdogs: what is reported was so.                                     *)
(*                                                                         *)
(* Proposals: whatever writes back a stale copy, the copies and the files  *)
(* are all backed by gates that passed and approvals that were given; the  *)
(* approval also holds at the commit of a call during which nothing else   *)
(* happened.                                                               *)
(***************************************************************************)
EXTENDS MCProposals, FiniteSetTheorems, WellFoundedInduction, TLAPS

(***************************************************************************)
(* ReviewCycles                                                            *)
(***************************************************************************)

RCallType == [at : {"idle", "list", "scan", "graph", "save", "head", "active", "report"},
              kind : {"begin", "changes", "review", "end"}, cycle : 0..MaxCycles,
              left : SUBSET Tracked, seen : Photo, graph : Photo]
CycleType == [snap : Photo, graph : Photo, saved : BOOLEAN]
ReviewTypes ==
  /\ ReviewTypeOK /\ cycles \in [CycleIds -> CycleType] /\ rcall \in [Reviewers -> RCallType]
  /\ home \in [Reviewers -> Servers]

\* What a call stands at, and the cycle that it is about.
CallStands(x) == ~RAt(x, "idle") =>
  /\ rcall[x].cycle \in 1..begun
  /\ rcall[x].kind = "begin" => (cycles[rcall[x].cycle].saved <=> rcall[x].at \in {"head", "active"})
  /\ rcall[x].kind # "begin" => cycles[rcall[x].cycle].saved
  /\ rcall[x].at \in {"save", "head", "active"} => rcall[x].kind = "begin"
  /\ rcall[x].at = "report" => rcall[x].kind # "begin"
\* Cycles that are named are on disk, and no two calls begin the same.
CyclesStand ==
  /\ named1 # 0 => cycles[named1].saved
  /\ \A v \in Servers : active[v] # 0 => cycles[active[v]].saved
  /\ \A i \in CycleIds : cycles[i].saved => i <= begun
  /\ \A x \in Reviewers : CallStands(x)
  /\ \A x, y \in Writing : rcall[x].cycle = rcall[y].cycle => x = y
\* A photograph is of the workspace, but for the files written since its cycle began.
AsBegun(photo, i) == \A f \in Tracked \ written[i] : Held(photo[f]) = Held(body[f])
\* What a call has read is still so, unless it was written since both began.
Read(x, f) == rcall[x].at \in {"save", "report"} \/ (RAt(x, "scan") /\ f \notin rcall[x].left)
SeenStands(x) == ~RAt(x, "idle") =>
  /\ RAt(x, "list") => rcall[x].seen = Blank0
  /\ \A f \in Tracked : Read(x, f) /\ (f \notin written[rcall[x].cycle] \/ f \notin stirred[x]) =>
                          Held(rcall[x].seen[f]) = Held(body[f])
  /\ RAt(x, "save") \/ (RAt(x, "report") /\ rcall[x].kind = "review") => AsBegun(rcall[x].graph, rcall[x].cycle)
PhotosTrue ==
  /\ DOMAIN stirred = Reviewers
  /\ \A i \in CycleIds : cycles[i].saved => AsBegun(cycles[i].snap, i) /\ AsBegun(cycles[i].graph, i)
  /\ \A x \in Reviewers : SeenStands(x)
\* Where a server is not left behind, nobody else begins a cycle.
NoneBehind ==
  /\ \A v \in Servers \ behind : \A x \in Writing : home[x] = v /\ \A y \in Writing : x = y
  /\ \A x \in Writing : RAt(x, "active") /\ home[x] \notin behind => named1 = rcall[x].cycle
  /\ ActiveFollowsHead
ReviewInv == ReviewTypes /\ CyclesStand /\ PhotosTrue /\ NoneBehind

-----------------------------------------------------------------------------
LEMMA BlankPhoto == Blank0 \in Photo /\ \A f \in Tracked : Blank0[f] = NoContent
BY DEF Blank0, Photo

LEMMA NoCallType == /\ NoRCall \in RCallType /\ NoRCall.at = "idle" /\ NoRCall.kind = "end" /\ NoRCall.cycle = 0
                    /\ NoRCall.seen = Blank0
<1>1. 0 \in 0..MaxCycles
  BY ReviewAssumption
<1> QED BY <1>1, BlankPhoto DEF NoRCall, RCallType

\* What a step of one call leaves to the others.
LEMMA OthersStay ==
  ASSUME ReviewTypes, NEW x \in Reviewers, NEW r, Turns(x, r)
  PROVE  /\ rcall'[x] = r /\ \A y \in Reviewers \ {x} : rcall'[y] = rcall[y]
         /\ r \in RCallType => rcall' \in [Reviewers -> RCallType]
BY DEF Turns, ReviewTypes

\* What the type invariant asks, of types alone.
LEMMA TypesGive ==
  ReviewTypes <=>
    /\ body \in Photo /\ named1 \in 0..MaxCycles /\ begun \in 0..MaxCycles
    /\ cycles \in [CycleIds -> CycleType] /\ rcall \in [Reviewers -> RCallType]
    /\ active \in [Servers -> 0..MaxCycles] /\ latch \in [Servers -> Reviewers \cup {NoReviewer}]
    /\ home \in [Reviewers -> Servers]
BY DEF ReviewTypes, ReviewTypeOK, CycleType, RCallType

LEMMA CallTypes ==
  ASSUME ReviewTypes, NEW x \in Reviewers
  PROVE  /\ rcall[x] \in RCallType /\ rcall[x].left \subseteq Tracked /\ rcall[x].cycle \in 0..MaxCycles
         /\ rcall[x].seen \in Photo /\ rcall[x].graph \in Photo /\ home[x] \in Servers
BY DEF ReviewTypes, RCallType

LEMMA HeldSame == ASSUME NEW c PROVE Held(IF c = NoContent THEN <<>> ELSE c) = Held(c)
BY DEF Held

-----------------------------------------------------------------------------
(* Types                                                                   *)

LEMMA ReviewTypesInit == ReviewInit => ReviewTypes
<1> SUFFICES ASSUME ReviewInit PROVE ReviewTypes
  OBVIOUS
<1>1. Unsaved \in CycleType
  BY BlankPhoto DEF Unsaved, CycleType
<1>2. 0 \in 0..MaxCycles
  BY ReviewAssumption
<1>3. body \in Photo
  BY DEF ReviewInit, Photo
<1> QED BY <1>1, <1>2, <1>3, NoCallType, TypesGive DEF ReviewInit

LEMMA ReviewTypesNext == ReviewTypes /\ [ReviewNext]_reviewVars => ReviewTypes'
<1> SUFFICES ASSUME ReviewTypes, [ReviewNext]_reviewVars PROVE ReviewTypes'
  OBVIOUS
<1>0. /\ body \in Photo /\ named1 \in 0..MaxCycles /\ begun \in 0..MaxCycles
      /\ cycles \in [CycleIds -> CycleType] /\ rcall \in [Reviewers -> RCallType]
      /\ active \in [Servers -> 0..MaxCycles] /\ latch \in [Servers -> Reviewers \cup {NoReviewer}]
      /\ home \in [Reviewers -> Servers] /\ 0 \in 0..MaxCycles /\ MaxCycles \in Nat
  BY TypesGive, ReviewAssumption
<1> DEFINE T == /\ body' \in Photo /\ named1' \in 0..MaxCycles /\ begun' \in 0..MaxCycles
                /\ cycles' \in [CycleIds -> CycleType] /\ rcall' \in [Reviewers -> RCallType]
                /\ active' \in [Servers -> 0..MaxCycles] /\ latch' \in [Servers -> Reviewers \cup {NoReviewer}]
                /\ home' \in [Reviewers -> Servers]
<1>1. SUFFICES T
  BY DEF ReviewTypes, ReviewTypeOK, CycleType, RCallType
<1>2. CASE UNCHANGED reviewVars
  BY <1>0, <1>2 DEF reviewVars
<1>3. ASSUME NEW f \in Tracked, NEW c \in Contents1 \cup {NoContent}, Rewrite(f, c) PROVE T
  <2>1. body' \in Photo
    BY <1>0, <1>3 DEF Rewrite, Photo
  <2> QED BY <2>1, <1>0, <1>3 DEF Rewrite, Memory
<1>4. ASSUME NEW v \in Servers, Restart1(v) PROVE T
  <2>1. rcall' \in [Reviewers -> RCallType]
    BY <1>0, <1>4, NoCallType DEF Restart1
  <2> QED BY <2>1, <1>0, <1>4 DEF Restart1, Disk
<1>5. ASSUME NEW x \in Reviewers, BeginCycle(x) PROVE T
  <2>1. begun' \in 0..MaxCycles
    BY <1>0, <1>5 DEF BeginCycle
  <2>2. [NoRCall EXCEPT !.at = "list", !.kind = "begin", !.cycle = begun'] \in RCallType
    BY <2>1, NoCallType DEF RCallType
  <2>3. rcall' \in [Reviewers -> RCallType]
    BY <2>2, <1>5, OthersStay DEF BeginCycle
  <2> QED BY <2>1, <2>3, <1>0, <1>5 DEF BeginCycle, Disk, Memory
<1>6. ASSUME NEW x \in Reviewers, NEW k \in {"changes", "review"}, BeginReport(x, k) PROVE T
  <2>1. home[x] \in Servers /\ active[home[x]] \in 0..MaxCycles
    BY <1>0
  <2>2. [NoRCall EXCEPT !.at = "list", !.kind = k, !.cycle = active[home[x]]] \in RCallType
    BY <2>1, NoCallType DEF RCallType
  <2>3. rcall' \in [Reviewers -> RCallType]
    BY <2>2, <1>6, OthersStay DEF BeginReport
  <2> QED BY <2>3, <1>0, <1>6 DEF BeginReport, Disk
<1>7. ASSUME NEW x \in Reviewers, Lists(x) PROVE T
  <2>1. [rcall[x] EXCEPT !.at = "scan", !.left = {f \in Tracked : body[f] # NoContent}] \in RCallType
    BY <1>0 DEF RCallType
  <2>2. rcall' \in [Reviewers -> RCallType]
    BY <2>1, <1>7, OthersStay DEF Lists
  <2> QED BY <2>2, <1>0, <1>7 DEF Lists, Disk, Memory, Bounds
<1>8. ASSUME NEW x \in Reviewers, NEW f \in Tracked, Scans(x, f) PROVE T
  <2> DEFINE h == IF body[f] = NoContent THEN <<>> ELSE body[f]
  <2>1. h \in Contents1 \cup {NoContent}
    BY <1>0, ReviewAssumption DEF Photo
  <2>2. rcall[x] \in RCallType /\ rcall[x].seen \in Photo
    BY CallTypes
  <2> HIDE DEF h
  <2> DEFINE p == [rcall[x].seen EXCEPT ![f] = h]
             l == rcall[x].left \ {f}
  <2>3. p \in Photo /\ l \in SUBSET Tracked
    BY <2>1, <2>2 DEF Photo, RCallType
  <2>4. Turns(x, [rcall[x] EXCEPT !.left = l, !.seen = p])
    BY <1>8 DEF Scans, h
  <2> HIDE DEF p, l
  <2>5. [rcall[x] EXCEPT !.left = l, !.seen = p] \in RCallType
    BY <2>2, <2>3 DEF RCallType
  <2>6. rcall' \in [Reviewers -> RCallType]
    BY <2>4, <2>5, OthersStay
  <2> QED BY <2>6, <1>0, <1>8 DEF Scans, Disk, Memory, Bounds
<1>9. ASSUME NEW x \in Reviewers, BuildsGraph(x) PROVE T
  <2> DEFINE r == [rcall[x] EXCEPT !.at = IF @ = "scan" /\ rcall[x].kind = "begin" THEN "save" ELSE "report",
                                   !.graph = IF rcall[x].kind = "changes" THEN Blank0 ELSE body]
  <2>1. r \in RCallType
    BY <1>0, BlankPhoto DEF RCallType
  <2>2. rcall' \in [Reviewers -> RCallType]
    BY <2>1, <1>9, OthersStay DEF BuildsGraph
  <2> QED BY <2>2, <1>0, <1>9 DEF BuildsGraph, Disk, Memory, Bounds
<1>10. ASSUME NEW x \in Reviewers, SaveSession(x) PROVE T
  <2>1. [rcall[x] EXCEPT !.at = "head"] \in RCallType
    BY <1>0 DEF RCallType
  <2>2. rcall' \in [Reviewers -> RCallType]
    BY <2>1, <1>10, OthersStay DEF SaveSession
  <2>3. [snap |-> rcall[x].seen, graph |-> rcall[x].graph, saved |-> TRUE] \in CycleType
    BY CallTypes DEF CycleType
  <2>4. cycles' \in [CycleIds -> CycleType]
    BY <2>3, <1>0, <1>10 DEF SaveSession
  <2> QED BY <2>2, <2>4, <1>0, <1>10 DEF SaveSession, Memory, Bounds
<1>11. ASSUME NEW x \in Reviewers, WriteHead(x) PROVE T
  <2>1. [rcall[x] EXCEPT !.at = "active"] \in RCallType
    BY <1>0 DEF RCallType
  <2>2. rcall' \in [Reviewers -> RCallType]
    BY <2>1, <1>11, OthersStay DEF WriteHead
  <2> QED BY <2>2, <1>0, <1>11, CallTypes DEF WriteHead, Memory, Bounds
<1>12. ASSUME NEW x \in Reviewers, SetActive(x) PROVE T
  <2>1. rcall' \in [Reviewers -> RCallType]
    BY <1>12, NoCallType, OthersStay DEF SetActive
  <2>2. active' \in [Servers -> 0..MaxCycles]
    BY <1>0, <1>12, CallTypes DEF SetActive
  <2> QED BY <2>1, <2>2, <1>0, <1>12 DEF SetActive, Disk, Bounds
<1>13. ASSUME NEW x \in Reviewers, Reports(x) PROVE T
  <2>1. rcall' \in [Reviewers -> RCallType]
    BY <1>13, NoCallType, OthersStay DEF Reports
  <2> QED BY <2>1, <1>0, <1>13 DEF Reports, Disk, Bounds
<1>14. ASSUME NEW x \in Reviewers, EndCycle(x) PROVE T
  BY <1>0, <1>14 DEF EndCycle
<1> HIDE DEF T
<1> QED BY <1>2, <1>3, <1>4, <1>5, <1>6, <1>7, <1>8, <1>9, <1>10, <1>11, <1>12, <1>13, <1>14 DEF ReviewNext

-----------------------------------------------------------------------------
(* Cycles and calls                                                        *)

\* A step of one call that keeps its kind and its cycle, or ends it.
LEMMA CallMoves ==
  ASSUME ReviewTypes, CyclesStand, NEW x \in Reviewers, NEW r \in RCallType, Turns(x, r),
         UNCHANGED <<named1, cycles, active, begun>>,
         \/ r.at = "idle"
         \/ /\ ~RAt(x, "idle") /\ r.kind = rcall[x].kind /\ r.cycle = rcall[x].cycle
            /\ r.kind = "begin" => r.at # "report" /\ (r.at \in {"head", "active"} <=> rcall[x].at \in {"head", "active"})
            /\ r.kind # "begin" => r.at \notin {"save", "head", "active"}
  PROVE  CyclesStand'
<1>1. rcall'[x] = r /\ \A y \in Reviewers \ {x} : rcall'[y] = rcall[y]
  BY OthersStay
<1>2. ASSUME NEW y \in Reviewers PROVE CallStands(y)'
  <2>1. CallStands(y)
    BY DEF CyclesStand
  <2>2. CASE y # x
    BY <2>1, <2>2, <1>1 DEF CallStands, RAt
  <2>3. CASE y = x
    BY <2>1, <2>3, <1>1 DEF CallStands, RAt, RCallType
  <2> QED BY <2>2, <2>3
<1>3. ASSUME NEW y \in Reviewers PROVE y \in Writing' => y \in Writing /\ rcall'[y].cycle = rcall[y].cycle
  <2>1. CASE y # x
    BY <2>1, <1>1 DEF Writing, RAt
  <2>2. CASE y = x
    BY <2>2, <1>1 DEF Writing, RAt
  <2> QED BY <2>1, <2>2
<1>4. \A y, z \in Writing' : rcall'[y].cycle = rcall'[z].cycle => y = z
  BY <1>3 DEF CyclesStand, Writing
<1> QED BY <1>2, <1>4 DEF CyclesStand

LEMMA CyclesStandInit == ReviewInit => CyclesStand
<1> SUFFICES ASSUME ReviewInit PROVE CyclesStand
  OBVIOUS
<1>1. \A x \in Reviewers : rcall[x] = NoRCall
  BY DEF ReviewInit
<1>2. \A i \in CycleIds : ~cycles[i].saved
  BY DEF ReviewInit, Unsaved
<1> QED BY <1>1, <1>2, NoCallType DEF CyclesStand, CallStands, Writing, RAt, ReviewInit

LEMMA CyclesStandNext == ReviewTypes /\ CyclesStand /\ [ReviewNext]_reviewVars => CyclesStand'
<1> SUFFICES ASSUME ReviewTypes, CyclesStand, [ReviewNext]_reviewVars PROVE CyclesStand'
  OBVIOUS
<1>0. /\ named1 \in 0..MaxCycles /\ begun \in 0..MaxCycles /\ cycles \in [CycleIds -> CycleType]
      /\ active \in [Servers -> 0..MaxCycles] /\ home \in [Reviewers -> Servers] /\ MaxCycles \in Nat
      /\ rcall \in [Reviewers -> RCallType]
  BY TypesGive, ReviewAssumption
<1>2. CASE UNCHANGED <<named1, cycles, active, begun, rcall>>
  BY <1>2 DEF CyclesStand, CallStands, Writing, RAt
<1>3. ASSUME NEW f \in Tracked, NEW c \in Contents1 \cup {NoContent}, Rewrite(f, c) PROVE CyclesStand'
  BY <1>2, <1>3 DEF Rewrite, Memory
<1>4. ASSUME NEW v \in Servers, Restart1(v) PROVE CyclesStand'
  <2>1. /\ rcall' = [x \in Reviewers |-> IF home[x] = v THEN NoRCall ELSE rcall[x]]
        /\ active' = [active EXCEPT ![v] = IF named1 # 0 /\ cycles[named1].saved THEN named1 ELSE 0]
        /\ named1' = named1 /\ cycles' = cycles /\ begun' = begun
    BY <1>4 DEF Restart1, Disk
  <2>2. ASSUME NEW y \in Reviewers PROVE rcall'[y] = NoRCall \/ rcall'[y] = rcall[y]
    BY <2>1
  <2>3. ASSUME NEW y \in Reviewers PROVE CallStands(y)'
    <3>1. CallStands(y)
      BY DEF CyclesStand
    <3> QED BY <3>1, <2>1, <2>2, NoCallType DEF CallStands, RAt
  <2>4. ASSUME NEW y \in Reviewers, y \in Writing' PROVE y \in Writing /\ rcall'[y] = rcall[y]
    BY <2>2, <2>4, NoCallType DEF Writing, RAt
  <2>5. \A y, z \in Writing' : rcall'[y].cycle = rcall'[z].cycle => y = z
    BY <2>4 DEF CyclesStand, Writing
  <2>6. ASSUME NEW u \in Servers, active'[u] # 0 PROVE cycles'[active'[u]].saved
    BY <2>1, <2>6, <1>0 DEF CyclesStand
  <2> QED BY <2>1, <2>3, <2>5, <2>6 DEF CyclesStand
<1>5. ASSUME NEW x \in Reviewers, BeginCycle(x) PROVE CyclesStand'
  <2> DEFINE r == [NoRCall EXCEPT !.at = "list", !.kind = "begin", !.cycle = begun']
  <2>1. Turns(x, r) /\ begun < MaxCycles /\ begun' = begun + 1 /\ UNCHANGED <<named1, cycles, active>>
    BY <1>5 DEF BeginCycle, Disk, Memory
  <2>2. r.at = "list" /\ r.kind = "begin" /\ r.cycle = begun'
    BY NoCallType DEF RCallType
  <2> HIDE DEF r
  <2>3. rcall'[x] = r /\ \A y \in Reviewers \ {x} : rcall'[y] = rcall[y]
    BY <2>1, OthersStay
  <2>4. begun' \in CycleIds /\ ~cycles[begun'].saved /\ begun' \in 1..begun' /\ 1..begun \subseteq 1..begun'
        /\ begun' \notin 1..begun
    BY <2>1, <1>0 DEF CyclesStand, CycleIds
  <2>5. ASSUME NEW y \in Reviewers PROVE CallStands(y)'
    <3>1. CallStands(y)
      BY DEF CyclesStand
    <3>2. CASE y # x
      BY <3>1, <3>2, <2>1, <2>3, <2>4 DEF CallStands, RAt
    <3>3. CASE y = x
      BY <3>3, <2>1, <2>2, <2>3, <2>4 DEF CallStands, RAt
    <3> QED BY <3>2, <3>3
  <2>6. ASSUME NEW y \in Writing' PROVE y = x \/ (y \in Writing /\ rcall'[y] = rcall[y] /\ rcall[y].cycle \in 1..begun)
    BY <2>3 DEF Writing, RAt, CyclesStand, CallStands
  <2>7. ASSUME NEW y \in Writing', NEW z \in Writing', rcall'[y].cycle = rcall'[z].cycle PROVE y = z
    BY <2>2, <2>3, <2>4, <2>6, <2>7 DEF CyclesStand
  <2>8. \A i \in CycleIds : cycles'[i].saved => i <= begun'
    BY <2>1, <1>0 DEF CyclesStand, CycleIds
  <2> QED BY <2>1, <2>5, <2>7, <2>8 DEF CyclesStand
<1>6. ASSUME NEW x \in Reviewers, NEW k \in {"changes", "review"}, BeginReport(x, k) PROVE CyclesStand'
  <2> DEFINE r == [NoRCall EXCEPT !.at = "list", !.kind = k, !.cycle = active[home[x]]]
  <2>1. Turns(x, r) /\ active[home[x]] # 0 /\ UNCHANGED <<named1, cycles, active, begun>>
    BY <1>6 DEF BeginReport, Disk
  <2>2. r.at = "list" /\ r.kind = k /\ k # "begin" /\ r.cycle = active[home[x]]
    BY NoCallType DEF RCallType
  <2> HIDE DEF r
  <2>3. rcall'[x] = r /\ \A y \in Reviewers \ {x} : rcall'[y] = rcall[y]
    BY <2>1, OthersStay
  <2>4. active[home[x]] \in CycleIds /\ cycles[active[home[x]]].saved /\ active[home[x]] \in 1..begun
    BY <2>1, <1>0 DEF CyclesStand, CycleIds
  <2>5. ASSUME NEW y \in Reviewers PROVE CallStands(y)'
    <3>1. CallStands(y)
      BY DEF CyclesStand
    <3>2. CASE y # x
      BY <3>1, <3>2, <2>1, <2>3 DEF CallStands, RAt
    <3>3. CASE y = x
      BY <3>3, <2>1, <2>2, <2>3, <2>4 DEF CallStands, RAt
    <3> QED BY <3>2, <3>3
  <2>6. ASSUME NEW y \in Writing' PROVE y \in Writing /\ rcall'[y] = rcall[y]
    BY <2>2, <2>3 DEF Writing, RAt
  <2>7. \A y, z \in Writing' : rcall'[y].cycle = rcall'[z].cycle => y = z
    BY <2>6 DEF CyclesStand
  <2> QED BY <2>1, <2>5, <2>7 DEF CyclesStand
<1>7. ASSUME NEW x \in Reviewers, Lists(x) PROVE CyclesStand'
  <2> DEFINE r == [rcall[x] EXCEPT !.at = "scan", !.left = {f \in Tracked : body[f] # NoContent}]
  <2>1. r \in RCallType /\ r.at = "scan" /\ r.kind = rcall[x].kind /\ r.cycle = rcall[x].cycle
    BY <1>0 DEF RCallType
  <2>2. Turns(x, r) /\ RAt(x, "list") /\ UNCHANGED <<named1, cycles, active, begun>>
    BY <1>7 DEF Lists, Disk, Memory, Bounds
  <2> HIDE DEF r
  <2> QED BY <2>1, <2>2, CallMoves DEF RAt
<1>8. ASSUME NEW x \in Reviewers, NEW f \in Tracked, Scans(x, f) PROVE CyclesStand'
  <2>1. PICK r : r = rcall'[x]
    OBVIOUS
  <2>2. rcall' \in [Reviewers -> RCallType]
    BY ReviewTypesNext DEF ReviewTypes
  <2>3. r \in RCallType /\ r.at = "scan" /\ r.kind = rcall[x].kind /\ r.cycle = rcall[x].cycle /\ Turns(x, r)
    BY <1>0, <1>8, <2>1, <2>2 DEF Scans, RCallType, Turns, RAt
  <2>4. RAt(x, "scan") /\ UNCHANGED <<named1, cycles, active, begun>>
    BY <1>8 DEF Scans, Disk, Memory, Bounds
  <2> QED BY <2>3, <2>4, CallMoves DEF RAt
<1>9. ASSUME NEW x \in Reviewers, BuildsGraph(x) PROVE CyclesStand'
  <2> DEFINE r == [rcall[x] EXCEPT !.at = IF @ = "scan" /\ rcall[x].kind = "begin" THEN "save" ELSE "report",
                                   !.graph = IF rcall[x].kind = "changes" THEN Blank0 ELSE body]
  <2>1. /\ r \in RCallType /\ r.at = (IF rcall[x].at = "scan" /\ rcall[x].kind = "begin" THEN "save" ELSE "report")
        /\ r.kind = rcall[x].kind /\ r.cycle = rcall[x].cycle
    BY <1>0, TypesGive, BlankPhoto DEF RCallType
  <2>2. Turns(x, r) /\ RAt(x, "scan") /\ UNCHANGED <<named1, cycles, active, begun>>
    BY <1>9 DEF BuildsGraph, Disk, Memory, Bounds
  <2> HIDE DEF r
  <2> QED BY <2>1, <2>2, CallMoves DEF RAt
<1>10. ASSUME NEW x \in Reviewers, SaveSession(x) PROVE CyclesStand'
  <2> DEFINE r == [rcall[x] EXCEPT !.at = "head"]
             i == rcall[x].cycle
             s == [snap |-> rcall[x].seen, graph |-> rcall[x].graph, saved |-> TRUE]
  <2>1. r.at = "head" /\ r.kind = rcall[x].kind /\ r.cycle = i
    BY <1>0 DEF RCallType
  <2>2. /\ Turns(x, r) /\ RAt(x, "save") /\ UNCHANGED <<named1, active, begun>>
        /\ cycles' = [cycles EXCEPT ![i] = s]
    BY <1>10 DEF SaveSession, Memory, Bounds
  <2> HIDE DEF r
  <2>3. rcall'[x] = r /\ \A y \in Reviewers \ {x} : rcall'[y] = rcall[y]
    BY <2>2, OthersStay
  <2>4. i \in 1..begun /\ i \in CycleIds /\ rcall[x].kind = "begin" /\ x \in Writing
    BY <2>2, <1>0 DEF CyclesStand, CallStands, RAt, CycleIds, Writing
  <2> HIDE DEF i
  <2>5. cycles'[i].saved /\ \A j \in CycleIds \ {i} : cycles'[j] = cycles[j]
    BY <2>2, <2>4, <1>0
  <2>6. ASSUME NEW y \in Reviewers PROVE CallStands(y)'
    <3>1. CallStands(y)
      BY DEF CyclesStand
    <3>2. CASE y # x
      <4>1. y \in Writing => rcall[y].cycle # i
        BY <3>2, <2>4 DEF CyclesStand, i
      <4>2. ~RAt(y, "idle") => rcall[y].cycle \in CycleIds
        BY <3>1, <1>0 DEF CallStands, CycleIds
      <4> QED BY <3>1, <3>2, <4>1, <4>2, <2>2, <2>3, <2>5 DEF CallStands, RAt, Writing
    <3>3. CASE y = x
      BY <3>3, <2>1, <2>2, <2>3, <2>4, <2>5 DEF CallStands, RAt
    <3> QED BY <3>2, <3>3
  <2>7. ASSUME NEW y \in Writing' PROVE y \in Writing /\ rcall'[y].cycle = rcall[y].cycle
    BY <2>1, <2>3, <2>4 DEF Writing, RAt, i
  <2>8. \A y, z \in Writing' : rcall'[y].cycle = rcall'[z].cycle => y = z
    BY <2>7 DEF CyclesStand
  <2>9. \A j \in CycleIds : cycles'[j].saved => j <= begun
    BY <2>4, <2>5, <1>0 DEF CyclesStand, CycleIds
  <2>10. \A j \in CycleIds : cycles[j].saved => cycles'[j].saved
    BY <2>5
  <2>11. /\ named1 # 0 => cycles'[named1].saved
         /\ \A v \in Servers : active[v] # 0 => cycles'[active[v]].saved
    BY <2>10, <1>0 DEF CyclesStand, CycleIds
  <2> QED BY <2>2, <2>6, <2>8, <2>9, <2>11 DEF CyclesStand
<1>11. ASSUME NEW x \in Reviewers, WriteHead(x) PROVE CyclesStand'
  <2> DEFINE r == [rcall[x] EXCEPT !.at = "active"]
  <2>1. r \in RCallType /\ r.at = "active" /\ r.kind = rcall[x].kind /\ r.cycle = rcall[x].cycle
    BY <1>0 DEF RCallType
  <2>2. /\ Turns(x, r) /\ RAt(x, "head") /\ UNCHANGED <<active, begun, cycles>> /\ named1' = rcall[x].cycle
    BY <1>11 DEF WriteHead, Memory, Bounds
  <2> HIDE DEF r
  <2>3. rcall'[x] = r /\ \A y \in Reviewers \ {x} : rcall'[y] = rcall[y]
    BY <2>2, OthersStay
  <2>4. rcall[x].kind = "begin" /\ cycles[rcall[x].cycle].saved
    BY <2>2 DEF CyclesStand, CallStands, RAt
  <2>5. ASSUME NEW y \in Reviewers PROVE CallStands(y)'
    <3>1. CallStands(y)
      BY DEF CyclesStand
    <3>2. CASE y # x
      BY <3>1, <3>2, <2>2, <2>3 DEF CallStands, RAt
    <3>3. CASE y = x
      BY <3>1, <3>3, <2>1, <2>2, <2>3, <2>4 DEF CallStands, RAt
    <3> QED BY <3>2, <3>3
  <2>6. ASSUME NEW y \in Writing' PROVE y \in Writing /\ rcall'[y].cycle = rcall[y].cycle
    BY <2>1, <2>2, <2>3, <2>4 DEF Writing, RAt
  <2>7. \A y, z \in Writing' : rcall'[y].cycle = rcall'[z].cycle => y = z
    BY <2>6 DEF CyclesStand
  <2> QED BY <2>2, <2>4, <2>5, <2>7 DEF CyclesStand
<1>12. ASSUME NEW x \in Reviewers, SetActive(x) PROVE CyclesStand'
  <2>1. /\ Turns(x, NoRCall) /\ RAt(x, "active") /\ UNCHANGED <<named1, begun, cycles>>
        /\ active' = [active EXCEPT ![home[x]] = rcall[x].cycle]
    BY <1>12 DEF SetActive, Disk, Bounds
  <2>2. rcall'[x] = NoRCall /\ \A y \in Reviewers \ {x} : rcall'[y] = rcall[y]
    BY <2>1, OthersStay
  <2>3. cycles[rcall[x].cycle].saved
    BY <2>1 DEF CyclesStand, CallStands, RAt
  <2>4. ASSUME NEW y \in Reviewers PROVE CallStands(y)'
    <3>1. CallStands(y)
      BY DEF CyclesStand
    <3>2. CASE y # x
      BY <3>1, <3>2, <2>1, <2>2 DEF CallStands, RAt
    <3>3. CASE y = x
      BY <3>3, <2>2, NoCallType DEF CallStands, RAt
    <3> QED BY <3>2, <3>3
  <2>5. ASSUME NEW y \in Writing' PROVE y \in Writing /\ rcall'[y] = rcall[y]
    BY <2>2, NoCallType DEF Writing, RAt
  <2>6. \A y, z \in Writing' : rcall'[y].cycle = rcall'[z].cycle => y = z
    BY <2>5 DEF CyclesStand
  <2>7. ASSUME NEW v \in Servers, active'[v] # 0 PROVE cycles[active'[v]].saved
    BY <2>1, <2>3, <2>7, <1>0 DEF CyclesStand
  <2> QED BY <2>1, <2>4, <2>6, <2>7 DEF CyclesStand
<1>13. ASSUME NEW x \in Reviewers, Reports(x) PROVE CyclesStand'
  <2>1. Turns(x, NoRCall) /\ UNCHANGED <<named1, cycles, active, begun>>
    BY <1>13 DEF Reports, Disk, Bounds
  <2> QED BY <2>1, NoCallType, CallMoves
<1>14. ASSUME NEW x \in Reviewers, EndCycle(x) PROVE CyclesStand'
  <2>1. /\ UNCHANGED <<cycles, rcall, begun>> /\ named1' = 0 /\ active' = [active EXCEPT ![home[x]] = 0]
    BY <1>14 DEF EndCycle
  <2>2. \A v \in Servers : active'[v] # 0 => active'[v] = active[v]
    BY <2>1, <1>0
  <2>3. ASSUME NEW y \in Reviewers PROVE CallStands(y)'
    BY <2>1 DEF CyclesStand, CallStands, RAt
  <2> QED BY <2>1, <2>2, <2>3 DEF CyclesStand, Writing, RAt
<1>15. CASE UNCHANGED reviewVars
  BY <1>2, <1>15 DEF reviewVars
<1> QED BY <1>3, <1>4, <1>5, <1>6, <1>7, <1>8, <1>9, <1>10, <1>11, <1>12, <1>13, <1>14, <1>15 DEF ReviewNext

-----------------------------------------------------------------------------
(* What is photographed and read                                           *)

LEMMA PhotosInit == ReviewInit => PhotosTrue
<1> SUFFICES ASSUME ReviewInit PROVE PhotosTrue
  OBVIOUS
<1>1. \A x \in Reviewers : rcall[x] = NoRCall
  BY DEF ReviewInit
<1>2. \A i \in CycleIds : ~cycles[i].saved
  BY DEF ReviewInit, Unsaved
<1> QED BY <1>1, <1>2, NoCallType DEF PhotosTrue, SeenStands, RAt, ReviewInit

\* A step of one call, while nobody writes and no cycle is saved.
LEMMA OneReads ==
  ASSUME ReviewTypes, PhotosTrue, UNCHANGED <<body, cycles, written>>, NEW x \in Reviewers, NEW r, Turns(x, r),
         DOMAIN stirred' = Reviewers, \A y \in Reviewers \ {x} : stirred'[y] = stirred[y],
         SeenStands(x)'
  PROVE  PhotosTrue'
<1>1. \A y \in Reviewers \ {x} : rcall'[y] = rcall[y]
  BY OthersStay
<1>2. ASSUME NEW y \in Reviewers PROVE SeenStands(y)'
  <2>1. CASE y # x
    <3>1. SeenStands(y) /\ rcall'[y] = rcall[y] /\ stirred'[y] = stirred[y]
      BY <2>1, <1>1 DEF PhotosTrue
    <3> QED BY <3>1 DEF SeenStands, RAt, Read, AsBegun
  <2>2. CASE y = x
    BY <2>2
  <2> QED BY <2>1, <2>2
<1>3. \A i \in CycleIds : cycles'[i].saved => AsBegun(cycles[i].snap, i)' /\ AsBegun(cycles[i].graph, i)'
  BY DEF PhotosTrue, AsBegun
<1> QED BY <1>2, <1>3 DEF PhotosTrue, AsBegun

LEMMA PhotosNext == ReviewTypes /\ CyclesStand /\ PhotosTrue /\ [ReviewNext]_reviewVars => PhotosTrue'
<1> SUFFICES ASSUME ReviewTypes, CyclesStand, PhotosTrue, [ReviewNext]_reviewVars PROVE PhotosTrue'
  OBVIOUS
<1>0. /\ body \in Photo /\ begun \in 0..MaxCycles /\ cycles \in [CycleIds -> CycleType]
      /\ home \in [Reviewers -> Servers] /\ MaxCycles \in Nat
      /\ rcall \in [Reviewers -> RCallType] /\ DOMAIN stirred = Reviewers
  BY TypesGive, ReviewAssumption DEF PhotosTrue
<1>1. \A x \in Reviewers : SeenStands(x) /\ CallStands(x)
  BY DEF PhotosTrue, CyclesStand
<1>2. CASE UNCHANGED <<body, cycles, written, stirred, rcall>>
  BY <1>2 DEF PhotosTrue, SeenStands, RAt, Read, AsBegun
<1>3. ASSUME NEW f \in Tracked, NEW c \in Contents1 \cup {NoContent}, Rewrite(f, c) PROVE PhotosTrue'
  <2>1. /\ body' = [body EXCEPT ![f] = c] /\ rcall' = rcall /\ cycles' = cycles
        /\ written' = [i \in CycleIds |-> IF i <= begun THEN written[i] \cup {f} ELSE {}]
        /\ stirred' = [x \in Reviewers |-> IF RAt(x, "idle") THEN {} ELSE stirred[x] \cup {f}]
    BY <1>3 DEF Rewrite
  <2>2. \A g \in Tracked \ {f} : body'[g] = body[g]
    BY <2>1, <1>0 DEF Photo
  <2>3. ASSUME NEW i \in CycleIds, i <= begun PROVE written'[i] = written[i] \cup {f}
    BY <2>1, <2>3
  <2>4. ASSUME NEW i \in CycleIds, i <= begun, NEW photo, AsBegun(photo, i)
        PROVE  \A g \in Tracked \ written'[i] : Held(photo[g]) = Held(body'[g])
    BY <2>2, <2>3, <2>4 DEF AsBegun
  <2>5. ASSUME NEW i \in CycleIds, cycles'[i].saved
        PROVE  \A g \in Tracked \ written'[i] :
                 Held(cycles'[i].snap[g]) = Held(body'[g]) /\ Held(cycles'[i].graph[g]) = Held(body'[g])
    BY <2>1, <2>4, <2>5 DEF PhotosTrue, CyclesStand
  <2>6. ASSUME NEW y \in Reviewers PROVE SeenStands(y)'
    <3> SUFFICES ASSUME ~RAt(y, "idle") PROVE SeenStands(y)'
      BY <2>1 DEF SeenStands, RAt
    <3> DEFINE i == rcall[y].cycle
    <3>1. i \in CycleIds /\ i <= begun /\ rcall'[y] = rcall[y] /\ stirred'[y] = stirred[y] \cup {f}
      BY <2>1, <1>0, <1>1 DEF CallStands, CycleIds
    <3>2. written'[i] = written[i] \cup {f}
      BY <3>1, <2>3
    <3>3. RAt(y, "list") => rcall[y].seen = Blank0
      BY <1>1 DEF SeenStands
    <3>4. ASSUME NEW g \in Tracked, Read(y, g), g \notin written'[i] \/ g \notin stirred'[y]
          PROVE  Held(rcall[y].seen[g]) = Held(body'[g])
      <4>1. g # f /\ (g \notin written[i] \/ g \notin stirred[y])
        BY <3>1, <3>2, <3>4
      <4> QED BY <4>1, <3>4, <2>2, <1>1 DEF SeenStands
    <3>5. RAt(y, "save") \/ (RAt(y, "report") /\ rcall[y].kind = "review") =>
            \A g \in Tracked \ written'[i] : Held(rcall[y].graph[g]) = Held(body'[g])
      BY <3>1, <2>4, <1>1 DEF SeenStands
    <3> QED BY <3>1, <3>3, <3>4, <3>5 DEF SeenStands, RAt, Read, AsBegun
  <2>7. DOMAIN stirred' = Reviewers
    BY <2>1
  <2> QED BY <2>5, <2>6, <2>7 DEF PhotosTrue, AsBegun
<1>4. ASSUME NEW v \in Servers, Restart1(v) PROVE PhotosTrue'
  <2>1. /\ rcall' = [x \in Reviewers |-> IF home[x] = v THEN NoRCall ELSE rcall[x]]
        /\ UNCHANGED <<body, cycles, written, stirred>>
    BY <1>4 DEF Restart1, Disk
  <2>2. ASSUME NEW y \in Reviewers PROVE rcall'[y] = NoRCall \/ rcall'[y] = rcall[y]
    BY <2>1
  <2>3. ASSUME NEW y \in Reviewers PROVE SeenStands(y)'
    BY <2>1, <2>2, <1>1, NoCallType DEF SeenStands, RAt, Read, AsBegun
  <2> QED BY <2>1, <2>3 DEF PhotosTrue, AsBegun
<1>5. ASSUME NEW x \in Reviewers,
             BeginCycle(x) \/ BeginReport(x, "changes") \/ BeginReport(x, "review")
      PROVE  PhotosTrue'
  <2>1. PICK k, i :
          /\ Turns(x, [NoRCall EXCEPT !.at = "list", !.kind = k, !.cycle = i])
          /\ stirred' = [stirred EXCEPT ![x] = {}] /\ UNCHANGED <<body, cycles, written>>
    BY <1>5 DEF BeginCycle, BeginReport, Disk
  <2> DEFINE r == [NoRCall EXCEPT !.at = "list", !.kind = k, !.cycle = i]
  <2>2. r.at = "list" /\ r.seen = Blank0
    BY DEF NoRCall
  <2> HIDE DEF r
  <2>3. rcall'[x] = r
    BY <2>1, OthersStay DEF r
  <2>4. SeenStands(x)'
    BY <2>2, <2>3 DEF SeenStands, RAt, Read
  <2>5. DOMAIN stirred' = Reviewers /\ \A y \in Reviewers \ {x} : stirred'[y] = stirred[y]
    BY <2>1, <1>0
  <2> QED BY <2>1, <2>4, <2>5, OneReads
<1>6. ASSUME NEW x \in Reviewers, Lists(x) PROVE PhotosTrue'
  <2> DEFINE r == [rcall[x] EXCEPT !.at = "scan", !.left = {f \in Tracked : body[f] # NoContent}]
  <2>1. /\ Turns(x, r) /\ RAt(x, "list") /\ UNCHANGED <<body, cycles, written, stirred>>
    BY <1>6 DEF Lists, Disk, histories
  <2>2. r.at = "scan" /\ r.seen = Blank0 /\ r.left = {f \in Tracked : body[f] # NoContent}
    BY <2>1, <1>0, <1>1 DEF RCallType, SeenStands, RAt
  <2> HIDE DEF r
  <2>3. rcall'[x] = r
    BY <2>1, OthersStay
  <2>4. ASSUME NEW f \in Tracked, f \notin r.left PROVE Held(r.seen[f]) = Held(body[f])
    BY <2>2, <2>4, BlankPhoto
  <2>5. SeenStands(x)'
    BY <2>1, <2>2, <2>3, <2>4 DEF SeenStands, RAt, Read
  <2> QED BY <2>1, <2>5, <1>0, OneReads
<1>7. ASSUME NEW x \in Reviewers, NEW f \in Tracked, Scans(x, f) PROVE PhotosTrue'
  <2> DEFINE h == IF body[f] = NoContent THEN <<>> ELSE body[f]
             p == [rcall[x].seen EXCEPT ![f] = h]
             l == rcall[x].left \ {f}
             r == [rcall[x] EXCEPT !.left = l, !.seen = p]
  <2>1. /\ Turns(x, r) /\ RAt(x, "scan") /\ UNCHANGED <<body, cycles, written, stirred>>
    BY <1>7 DEF Scans, Disk, histories
  <2>2. Held(h) = Held(body[f])
    BY HeldSame
  <2> HIDE DEF h
  <2>3. p[f] = h /\ \A g \in Tracked \ {f} : p[g] = rcall[x].seen[g]
    BY CallTypes DEF Photo
  <2> HIDE DEF p, l
  <2>4. r.at = "scan" /\ r.seen = p /\ r.left = l /\ r.cycle = rcall[x].cycle
    BY <2>1, <1>0 DEF RCallType, RAt
  <2> HIDE DEF r
  <2>5. rcall'[x] = r
    BY <2>1, OthersStay
  <2>6. ASSUME NEW g \in Tracked, g \notin l, g \notin written[r.cycle] \/ g \notin stirred[x]
        PROVE  Held(p[g]) = Held(body[g])
    <3>1. CASE g = f
      BY <3>1, <2>2, <2>3
    <3>2. CASE g # f
      BY <3>2, <2>1, <2>3, <2>4, <2>6, <1>1 DEF SeenStands, Read, RAt, l
    <3> QED BY <3>1, <3>2
  <2>7. SeenStands(x)'
    BY <2>1, <2>4, <2>5, <2>6 DEF SeenStands, RAt, Read
  <2> QED BY <2>1, <2>7, <1>0, OneReads
<1>8. ASSUME NEW x \in Reviewers, BuildsGraph(x) PROVE PhotosTrue'
  <2> DEFINE r == [rcall[x] EXCEPT !.at = IF @ = "scan" /\ rcall[x].kind = "begin" THEN "save" ELSE "report",
                                   !.graph = IF rcall[x].kind = "changes" THEN Blank0 ELSE body]
  <2>1. Turns(x, r) /\ RAt(x, "scan") /\ rcall[x].left = {} /\ UNCHANGED <<body, cycles, written, stirred>>
    BY <1>8 DEF BuildsGraph, Disk, histories
  <2>2. /\ r.at = (IF rcall[x].kind = "begin" THEN "save" ELSE "report") /\ r.kind = rcall[x].kind
        /\ r.cycle = rcall[x].cycle /\ r.seen = rcall[x].seen
        /\ r.graph = IF rcall[x].kind = "changes" THEN Blank0 ELSE body
    BY <2>1, <1>0 DEF RCallType, RAt
  <2> HIDE DEF r
  <2>3. rcall'[x] = r
    BY <2>1, OthersStay
  <2>4. ASSUME NEW f \in Tracked, f \notin written[r.cycle] \/ f \notin stirred[x]
        PROVE  Held(r.seen[f]) = Held(body[f])
    BY <2>1, <2>2, <2>4, <1>1 DEF SeenStands, Read, RAt
  <2>5. r.at = "save" \/ (r.at = "report" /\ r.kind = "review") => r.graph = body
    BY <2>2
  <2>6. SeenStands(x)'
    BY <2>1, <2>2, <2>3, <2>4, <2>5 DEF SeenStands, RAt, Read, AsBegun
  <2> QED BY <2>1, <2>6, <1>0, OneReads
<1>9. ASSUME NEW x \in Reviewers, SaveSession(x) PROVE PhotosTrue'
  <2> DEFINE r == [rcall[x] EXCEPT !.at = "head"]
             i == rcall[x].cycle
             s == [snap |-> rcall[x].seen, graph |-> rcall[x].graph, saved |-> TRUE]
  <2>1. /\ Turns(x, r) /\ RAt(x, "save") /\ UNCHANGED <<body, written, stirred>>
        /\ cycles' = [cycles EXCEPT ![i] = s]
    BY <1>9 DEF SaveSession, histories
  <2>2. r.at = "head"
    BY <1>0 DEF RCallType
  <2> HIDE DEF r
  <2>3. rcall'[x] = r /\ \A y \in Reviewers \ {x} : rcall'[y] = rcall[y]
    BY <2>1, OthersStay
  <2>4. AsBegun(rcall[x].seen, i) /\ AsBegun(rcall[x].graph, i)
    BY <2>1, <1>1 DEF SeenStands, AsBegun, Read, RAt
  <2>5. ASSUME NEW j \in CycleIds, cycles'[j].saved
        PROVE  AsBegun(cycles'[j].snap, j) /\ AsBegun(cycles'[j].graph, j)
    <3>1. CASE j = i
      BY <3>1, <2>1, <2>4, <1>0
    <3>2. CASE j # i
      BY <3>2, <2>1, <2>5, <1>0 DEF PhotosTrue
    <3> QED BY <3>1, <3>2
  <2>6. ASSUME NEW y \in Reviewers PROVE SeenStands(y)'
    <3>1. CASE y = x
      BY <3>1, <2>2, <2>3 DEF SeenStands, RAt, Read
    <3>2. CASE y # x
      BY <3>2, <2>1, <2>3, <1>1 DEF SeenStands, RAt, Read, AsBegun
    <3> QED BY <3>1, <3>2
  <2> QED BY <2>1, <2>5, <2>6, <1>0 DEF PhotosTrue, AsBegun
<1>10. ASSUME NEW x \in Reviewers, WriteHead(x) PROVE PhotosTrue'
  <2> DEFINE r == [rcall[x] EXCEPT !.at = "active"]
  <2>1. Turns(x, r) /\ UNCHANGED <<body, cycles, written, stirred>>
    BY <1>10 DEF WriteHead, histories
  <2>2. r.at = "active"
    BY <1>0 DEF RCallType
  <2> HIDE DEF r
  <2>3. SeenStands(x)'
    BY <2>1, <2>2, OthersStay DEF SeenStands, RAt, Read
  <2> QED BY <2>1, <2>3, <1>0, OneReads
<1>11. ASSUME NEW x \in Reviewers, SetActive(x) \/ Reports(x) PROVE PhotosTrue'
  <2>1. Turns(x, NoRCall) /\ UNCHANGED <<body, cycles, written, stirred>>
    BY <1>11 DEF SetActive, Reports, Disk, histories
  <2>2. SeenStands(x)'
    BY <2>1, NoCallType, OthersStay DEF SeenStands, RAt
  <2> QED BY <2>1, <2>2, <1>0, OneReads
<1>12. ASSUME NEW x \in Reviewers, EndCycle(x) PROVE PhotosTrue'
  BY <1>2, <1>12 DEF EndCycle
<1>13. CASE UNCHANGED reviewVars
  BY <1>2, <1>13 DEF reviewVars
<1> QED BY <1>3, <1>4, <1>5, <1>6, <1>7, <1>8, <1>9, <1>10, <1>11, <1>12, <1>13 DEF ReviewNext

-----------------------------------------------------------------------------
(* HEAD and the cycles of the servers                                      *)

LEMMA NoneBehindInit == ReviewInit => NoneBehind
<1> SUFFICES ASSUME ReviewInit PROVE NoneBehind
  OBVIOUS
<1>1. Writing = {}
  BY NoCallType DEF ReviewInit, Writing, RAt
<1> QED BY <1>1 DEF NoneBehind, ActiveFollowsHead, ReviewInit

\* A step that begins and ends no cycle.
LEMMA SameWriting ==
  ASSUME NoneBehind, UNCHANGED <<named1, active, behind, home>>, Writing' = Writing,
         \A y \in Writing : rcall'[y].cycle = rcall[y].cycle /\ (rcall'[y].at = "active" => rcall[y].at = "active")
  PROVE  NoneBehind'
<1>1. \A v \in (Servers \ behind)' : \A x \in Writing' : home'[x] = v /\ \A y \in Writing' : x = y
  BY DEF NoneBehind
<1>2. \A x \in Writing' : RAt(x, "active")' /\ home'[x] \notin behind' => named1' = rcall'[x].cycle
  BY DEF NoneBehind, RAt
<1>3. ActiveFollowsHead'
  BY DEF NoneBehind, ActiveFollowsHead
<1> QED BY <1>1, <1>2, <1>3 DEF NoneBehind

\* So does a step of one call that keeps its kind and its cycle.
LEMMA SameKind ==
  ASSUME ReviewTypes, NoneBehind, UNCHANGED <<named1, active, behind, home>>, NEW x \in Reviewers, NEW r, Turns(x, r),
         r.at # "active",
         \/ ~RAt(x, "idle") /\ r.at # "idle" /\ r.kind = rcall[x].kind /\ r.cycle = rcall[x].cycle
         \/ (RAt(x, "idle") \/ rcall[x].kind # "begin") /\ (r.at = "idle" \/ r.kind # "begin")
  PROVE  NoneBehind'
<1>1. rcall'[x] = r /\ \A y \in Reviewers \ {x} : rcall'[y] = rcall[y]
  BY OthersStay
<1>2. Writing' = Writing
  <2>1. ASSUME NEW y \in Reviewers PROVE y \in Writing' <=> y \in Writing
    <3>1. CASE y = x
      BY <3>1, <1>1 DEF Writing, RAt
    <3>2. CASE y # x
      BY <3>2, <1>1 DEF Writing, RAt
    <3> QED BY <3>1, <3>2
  <2> QED BY <2>1 DEF Writing
<1>3. ASSUME NEW y \in Writing
      PROVE  rcall'[y].cycle = rcall[y].cycle /\ (rcall'[y].at = "active" => rcall[y].at = "active")
  BY <1>1 DEF Writing, RAt
<1> QED BY <1>2, <1>3, SameWriting

LEMMA NoneBehindNext == ReviewTypes /\ CyclesStand /\ NoneBehind /\ [ReviewNext]_reviewVars => NoneBehind'
<1> SUFFICES ASSUME ReviewTypes, CyclesStand, NoneBehind, [ReviewNext]_reviewVars PROVE NoneBehind'
  OBVIOUS
<1>0. /\ active \in [Servers -> 0..MaxCycles] /\ home \in [Reviewers -> Servers]
      /\ rcall \in [Reviewers -> RCallType]
  BY TypesGive
<1>1. \A x \in Reviewers : CallStands(x)
  BY DEF CyclesStand
<1>2. CASE UNCHANGED <<named1, active, behind, home, rcall>>
  BY <1>2, SameWriting DEF Writing, RAt
<1>3. ASSUME NEW f \in Tracked, NEW c \in Contents1 \cup {NoContent}, Rewrite(f, c) PROVE NoneBehind'
  BY <1>2, <1>3 DEF Rewrite, Memory
<1>4. ASSUME NEW v \in Servers, Restart1(v) PROVE NoneBehind'
  <2>1. /\ rcall' = [x \in Reviewers |-> IF home[x] = v THEN NoRCall ELSE rcall[x]]
        /\ active' = [active EXCEPT ![v] = IF named1 # 0 /\ cycles[named1].saved THEN named1 ELSE 0]
        /\ behind' = (IF {x \in Writing : home[x] # v} = {} THEN behind \ {v} ELSE behind)
        /\ named1' = named1 /\ home' = home
    BY <1>4 DEF Restart1, Disk
  <2>2. active'[v] = named1 /\ \A u \in Servers \ {v} : active'[u] = active[u]
    BY <2>1, <1>0 DEF CyclesStand
  <2>3. ASSUME NEW x \in Reviewers PROVE x \in Writing' <=> x \in Writing /\ home[x] # v
    BY <2>1, NoCallType DEF Writing, RAt
  <2>4. \A x \in Writing' : x \in Reviewers /\ rcall'[x] = rcall[x]
    BY <2>1, <2>3 DEF Writing
  <2>5. ASSUME NEW u \in Servers \ behind'
        PROVE  /\ \A x \in Writing' : home[x] = u /\ \A y \in Writing' : x = y
               /\ (\A x \in Writing' : home[x] # u) => active'[u] = named1
    <3>1. CASE u \in behind
      <4>1. u = v /\ {x \in Writing : home[x] # v} = {}
        BY <2>1, <2>5, <3>1
      <4>2. Writing' = {}
        BY <4>1, <2>3, <2>4
      <4> QED BY <4>1, <4>2, <2>2
    <3>2. CASE u \notin behind
      <4>1. \A x \in Writing : home[x] = u /\ \A y \in Writing : x = y
        BY <3>2 DEF NoneBehind
      <4>2. \A x \in Writing' : x \in Writing
        BY <2>3, <2>4
      <4>3. CASE u = v
        BY <4>1, <4>2, <4>3, <2>2
      <4>4. CASE u # v
        <5>1. \A x \in Writing : x \in Writing'
          BY <4>1, <4>4, <2>3 DEF Writing
        <5>2. (\A x \in Writing : home[x] # u) => active[u] = named1
          BY <3>2 DEF NoneBehind, ActiveFollowsHead
        <5> QED BY <4>1, <4>2, <4>4, <5>1, <5>2, <2>2
      <4> QED BY <4>3, <4>4
    <3> QED BY <3>1, <3>2
  <2>6. ASSUME NEW x \in Writing', RAt(x, "active")', home[x] \notin behind' PROVE named1 = rcall'[x].cycle
    <3>1. x \in Writing /\ RAt(x, "active") /\ home[x] # v
      BY <2>3, <2>4, <2>6 DEF RAt
    <3>2. home[x] \notin behind
      BY <2>1, <2>6, <3>1
    <3> QED BY <3>1, <3>2, <2>4 DEF NoneBehind
  <2>7. ActiveFollowsHead'
    BY <2>1, <2>5 DEF ActiveFollowsHead
  <2> QED BY <2>1, <2>5, <2>6, <2>7 DEF NoneBehind
<1>5. ASSUME NEW x \in Reviewers, BeginCycle(x) PROVE NoneBehind'
  <2> DEFINE r == [NoRCall EXCEPT !.at = "list", !.kind = "begin", !.cycle = begun']
  <2>1. Turns(x, r) /\ RAt(x, "idle") /\ UNCHANGED <<named1, active, home>> /\ Leaves1(x)
    BY <1>5 DEF BeginCycle, Disk, Memory
  <2>2. r.at = "list" /\ r.kind = "begin"
    BY DEF NoRCall
  <2> HIDE DEF r
  <2>3. rcall'[x] = r /\ \A y \in Reviewers \ {x} : rcall'[y] = rcall[y]
    BY <2>1, OthersStay
  <2>4. x \notin Writing /\ x \in Writing' /\ \A y \in Reviewers \ {x} : y \in Writing' <=> y \in Writing
    BY <2>1, <2>2, <2>3 DEF Writing, RAt
  <2>5. Writing \subseteq Reviewers /\ Writing' \subseteq Reviewers
    BY DEF Writing
  <2>6. behind' = behind \cup (IF Writing = {} THEN Servers \ {home[x]} ELSE Servers)
    BY <2>1, <2>4 DEF Leaves1
  <2>7. ASSUME NEW u \in Servers \ behind' PROVE u = home[x] /\ u \notin behind /\ \A y \in Writing' : y = x
    BY <2>4, <2>5, <2>6, <2>7
  <2>8. ASSUME NEW y \in Writing', RAt(y, "active")', home[y] \notin behind' PROVE named1 = rcall'[y].cycle
    <3>1. y # x
      BY <2>2, <2>3, <2>8 DEF RAt
    <3>2. home[y] \in Servers /\ y \in Reviewers
      BY <2>5, <1>0
    <3> QED BY <3>1, <3>2, <2>7, <2>8
  <2>9. \A v \in (Servers \ behind)' : \A y \in Writing' : home'[y] = v /\ \A z \in Writing' : y = z
    BY <2>1, <2>7
  <2>10. ActiveFollowsHead'
    BY <2>1, <2>4, <2>7 DEF ActiveFollowsHead
  <2> QED BY <2>1, <2>8, <2>9, <2>10 DEF NoneBehind
<1>6. ASSUME NEW x \in Reviewers, NEW k \in {"changes", "review"}, BeginReport(x, k) PROVE NoneBehind'
  <2> DEFINE r == [NoRCall EXCEPT !.at = "list", !.kind = k, !.cycle = active[home[x]]]
  <2>1. Turns(x, r) /\ RAt(x, "idle") /\ UNCHANGED <<named1, active, behind, home>>
    BY <1>6 DEF BeginReport, Disk
  <2>2. r.at = "list" /\ r.kind # "begin"
    BY DEF NoRCall
  <2> HIDE DEF r
  <2> QED BY <2>1, <2>2, SameKind
<1>7a. ASSUME NEW x \in Reviewers, Lists(x) PROVE NoneBehind'
  <2> DEFINE r == [rcall[x] EXCEPT !.at = "scan", !.left = {f \in Tracked : body[f] # NoContent}]
  <2>1. Turns(x, r) /\ ~RAt(x, "idle") /\ UNCHANGED <<named1, active, behind, home>>
    BY <1>7a DEF Lists, Disk, Memory, RAt, histories
  <2>2. r.at \in {"scan"} /\ r.kind = rcall[x].kind /\ r.cycle = rcall[x].cycle
    BY <1>7a, <1>0 DEF RCallType, Lists, RAt
  <2> HIDE DEF r
  <2> QED BY <2>1, <2>2, SameKind
<1>7b. ASSUME NEW x \in Reviewers, NEW f \in Tracked, Scans(x, f) PROVE NoneBehind'
  <2> DEFINE r == [rcall[x] EXCEPT !.left = @ \ {f}, !.seen[f] = IF body[f] = NoContent THEN <<>> ELSE body[f]]
  <2>1. Turns(x, r) /\ ~RAt(x, "idle") /\ UNCHANGED <<named1, active, behind, home>>
    BY <1>7b DEF Scans, Disk, Memory, RAt, histories
  <2>2. r.at \in {"scan"} /\ r.kind = rcall[x].kind /\ r.cycle = rcall[x].cycle
    BY <1>7b, <1>0 DEF RCallType, Scans, RAt
  <2> HIDE DEF r
  <2> QED BY <2>1, <2>2, SameKind
<1>7c. ASSUME NEW x \in Reviewers, BuildsGraph(x) PROVE NoneBehind'
  <2> DEFINE r == [rcall[x] EXCEPT !.at = IF @ = "scan" /\ rcall[x].kind = "begin" THEN "save" ELSE "report",
                                   !.graph = IF rcall[x].kind = "changes" THEN Blank0 ELSE body]
  <2>1. Turns(x, r) /\ ~RAt(x, "idle") /\ UNCHANGED <<named1, active, behind, home>>
    BY <1>7c DEF BuildsGraph, Disk, Memory, RAt, histories
  <2>2. r.at \in {"save", "report"} /\ r.kind = rcall[x].kind /\ r.cycle = rcall[x].cycle
    BY <1>7c, <1>0 DEF RCallType, BuildsGraph, RAt
  <2> HIDE DEF r
  <2> QED BY <2>1, <2>2, SameKind
<1>7d. ASSUME NEW x \in Reviewers, SaveSession(x) PROVE NoneBehind'
  <2> DEFINE r == [rcall[x] EXCEPT !.at = "head"]
  <2>1. Turns(x, r) /\ ~RAt(x, "idle") /\ UNCHANGED <<named1, active, behind, home>>
    BY <1>7d DEF SaveSession, Memory, RAt, histories
  <2>2. r.at \in {"head"} /\ r.kind = rcall[x].kind /\ r.cycle = rcall[x].cycle
    BY <1>7d, <1>0 DEF RCallType, SaveSession, RAt
  <2> HIDE DEF r
  <2> QED BY <2>1, <2>2, SameKind
<1>8. ASSUME NEW x \in Reviewers, WriteHead(x) PROVE NoneBehind'
  <2> DEFINE r == [rcall[x] EXCEPT !.at = "active"]
  <2>1. Turns(x, r) /\ RAt(x, "head") /\ named1' = rcall[x].cycle /\ UNCHANGED <<active, behind, home>>
    BY <1>8 DEF WriteHead, Memory, histories
  <2>2. r.at = "active" /\ r.kind = rcall[x].kind /\ r.cycle = rcall[x].cycle /\ rcall[x].kind = "begin"
    BY <2>1, <1>0, <1>1 DEF RCallType, CallStands, RAt
  <2> HIDE DEF r
  <2>3. rcall'[x] = r /\ \A y \in Reviewers \ {x} : rcall'[y] = rcall[y]
    BY <2>1, OthersStay
  <2>4. Writing' = Writing /\ x \in Writing
    <3>1. ASSUME NEW y \in Reviewers PROVE y \in Writing' <=> y \in Writing
      <4>1. CASE y = x
        BY <4>1, <2>1, <2>2, <2>3 DEF Writing, RAt
      <4>2. CASE y # x
        BY <4>2, <2>3 DEF Writing, RAt
      <4> QED BY <4>1, <4>2
    <3>2. x \in Writing
      BY <2>1, <2>2 DEF Writing, RAt
    <3> QED BY <3>1, <3>2 DEF Writing
  <2>5. \A v \in Servers \ behind : v = home[x] /\ \A y \in Writing : home[y] = v /\ y = x
    BY <2>4 DEF NoneBehind
  <2>6. ASSUME NEW y \in Writing', RAt(y, "active")', home[y] \notin behind PROVE named1' = rcall'[y].cycle
    <3>1. home[y] \in Servers
      BY <1>0 DEF Writing
    <3>2. y = x
      BY <3>1, <2>4, <2>5, <2>6
    <3> QED BY <3>2, <2>1, <2>2, <2>3
  <2>7. ActiveFollowsHead'
    BY <2>1, <2>4, <2>5 DEF ActiveFollowsHead
  <2>8. \A v \in (Servers \ behind)' : \A y \in Writing' : home'[y] = v /\ \A z \in Writing' : y = z
    BY <2>1, <2>4, <2>5
  <2> QED BY <2>1, <2>6, <2>7, <2>8 DEF NoneBehind
<1>9. ASSUME NEW x \in Reviewers, SetActive(x) PROVE NoneBehind'
  <2>1. /\ Turns(x, NoRCall) /\ RAt(x, "active") /\ active' = [active EXCEPT ![home[x]] = rcall[x].cycle]
        /\ UNCHANGED <<named1, home, behind>>
    BY <1>9 DEF SetActive, Disk, histories
  <2>2. rcall'[x] = NoRCall /\ \A y \in Reviewers \ {x} : rcall'[y] = rcall[y]
    BY <2>1, OthersStay
  <2>3. x \in Writing
    BY <2>1, <1>1 DEF Writing, CallStands, RAt
  <2>4. \A y \in Writing' : y \in Writing /\ y # x /\ rcall'[y] = rcall[y]
    BY <2>2, NoCallType DEF Writing, RAt
  <2>5. ASSUME NEW u \in Servers \ behind
        PROVE  u = home[x] /\ Writing' = {} /\ active'[u] = named1
    <3>1. u = home[x] /\ \A y \in Writing : x = y
      BY <2>3, <2>5 DEF NoneBehind
    <3>2. Writing' = {}
      BY <3>1, <2>4
    <3>3. named1 = rcall[x].cycle
      BY <3>1, <2>1, <2>3, <2>5 DEF NoneBehind
    <3> QED BY <3>1, <3>2, <3>3, <2>1, <1>0
  <2>6. ASSUME NEW y \in Writing', home[y] \notin behind PROVE FALSE
    <3>1. home[y] \in Servers
      BY <2>4, <1>0 DEF Writing
    <3> QED BY <3>1, <2>5, <2>6
  <2>7. ActiveFollowsHead'
    BY <2>1, <2>5 DEF ActiveFollowsHead
  <2> QED BY <2>1, <2>5, <2>6, <2>7 DEF NoneBehind
<1>10. ASSUME NEW x \in Reviewers, Reports(x) PROVE NoneBehind'
  <2>1. Turns(x, NoRCall) /\ rcall[x].kind # "begin" /\ UNCHANGED <<named1, active, behind, home>>
    BY <1>1, <1>10 DEF Reports, Disk, histories, CallStands, RAt
  <2> QED BY <2>1, NoCallType, SameKind
<1>11. ASSUME NEW x \in Reviewers, EndCycle(x) PROVE NoneBehind'
  <2>1. /\ RAt(x, "idle") /\ active' = [active EXCEPT ![home[x]] = 0] /\ named1' = 0 /\ Leaves1(x)
        /\ UNCHANGED <<home, rcall>>
    BY <1>11 DEF EndCycle
  <2>2. Writing' = Writing /\ x \notin Writing
    BY <2>1 DEF Writing, RAt
  <2>3. behind' = behind \cup (IF Writing = {} THEN Servers \ {home[x]} ELSE Servers)
    BY <2>1, <2>2 DEF Leaves1
  <2>4. ASSUME NEW u \in Servers \ behind' PROVE u = home[x] /\ Writing = {} /\ active'[u] = 0
    BY <2>1, <2>3, <2>4, <1>0
  <2>5. ASSUME NEW y \in Writing', home[y] \notin behind' PROVE FALSE
    <3>1. home[y] \in Servers /\ Writing # {}
      BY <2>2, <1>0 DEF Writing
    <3> QED BY <3>1, <2>4, <2>5
  <2>6. ActiveFollowsHead'
    BY <2>1, <2>4 DEF ActiveFollowsHead
  <2> QED BY <2>1, <2>2, <2>4, <2>5, <2>6 DEF NoneBehind
<1>12. CASE UNCHANGED reviewVars
  BY <1>2, <1>12 DEF reviewVars
<1> QED BY <1>3, <1>4, <1>5, <1>6, <1>7a, <1>7b, <1>7c, <1>7d, <1>8, <1>9, <1>10, <1>11, <1>12 DEF ReviewNext

-----------------------------------------------------------------------------
LEMMA ReviewInvKeeps == ReviewInv => CyclesKeep
<1> SUFFICES ASSUME ReviewInv PROVE CyclesKeep
  OBVIOUS
<1>1. ReviewTypes /\ CyclesStand /\ PhotosTrue /\ NoneBehind
  BY DEF ReviewInv
<1>2. ReviewTypeOK /\ HeadOnDisk /\ ActiveFollowsHead
  BY <1>1 DEF ReviewTypes, CyclesStand, HeadOnDisk, NoneBehind
<1>3. ASSUME NEW x \in Reviewers, RAt(x, "report")
      PROVE  /\ Changed(CycleOf(x).snap, rcall[x].seen) \subseteq written[rcall[x].cycle]
             /\ rcall[x].kind = "review" => Changed(CycleOf(x).graph, rcall[x].graph) \subseteq written[rcall[x].cycle]
             /\ \A f \in Changed(CycleOf(x).snap, body) \ stirred[x] : f \in Changed(CycleOf(x).snap, rcall[x].seen)
  <2> DEFINE i == rcall[x].cycle
  <2>1. i \in 1..begun /\ cycles[i].saved
    BY <1>1, <1>3 DEF CyclesStand, CallStands, RAt
  <2>2. i \in CycleIds
    <3>1. begun \in 0..MaxCycles /\ MaxCycles \in Nat
      BY <1>1, TypesGive, ReviewAssumption
    <3> QED BY <3>1, <2>1 DEF CycleIds
  <2>3. AsBegun(cycles[i].snap, i) /\ AsBegun(cycles[i].graph, i)
    BY <2>1, <2>2, <1>1 DEF PhotosTrue
  <2>4. /\ \A f \in Tracked : f \notin written[i] \/ f \notin stirred[x] => Held(rcall[x].seen[f]) = Held(body[f])
        /\ rcall[x].kind = "review" => AsBegun(rcall[x].graph, i)
    BY <1>1, <1>3 DEF PhotosTrue, SeenStands, RAt, Read
  <2>5. Changed(cycles[i].snap, rcall[x].seen) \subseteq written[i]
    BY <2>3, <2>4 DEF Changed, AsBegun
  <2>6. rcall[x].kind = "review" => Changed(cycles[i].graph, rcall[x].graph) \subseteq written[i]
    BY <2>3, <2>4 DEF Changed, AsBegun
  <2>7. \A f \in Changed(cycles[i].snap, body) \ stirred[x] : f \in Changed(cycles[i].snap, rcall[x].seen)
    BY <2>4 DEF Changed
  <2> QED BY <2>5, <2>6, <2>7 DEF CycleOf
<1>4. ReportsTrue
  BY <1>3 DEF ReportsTrue
<1> QED BY <1>2, <1>4 DEF CyclesKeep

LEMMA ReviewStart == ReviewInit => ReviewInv
  BY ReviewTypesInit, CyclesStandInit, PhotosInit, NoneBehindInit DEF ReviewInv
LEMMA ReviewSteps == ReviewInv /\ [ReviewNext]_reviewVars => ReviewInv'
  BY ReviewTypesNext, CyclesStandNext, PhotosNext, NoneBehindNext DEF ReviewInv

\* What review cycles keep, for any files, calls and servers: a report names what was
\* written and misses nothing that stands still, HEAD's cycle is on disk, and a server
\* that no other left behind works on it.
THEOREM ReviewSafe == ReviewSpec => []CyclesKeep
  BY ReviewStart, ReviewSteps, ReviewInvKeeps, PTL DEF ReviewSpec

-----------------------------------------------------------------------------
(* The comparison of two texts.  Its table and its walk exist and do what   *)
(* they should, from the end of the texts up: the first distance from the   *)
(* end at which they would not leads to a contradiction.                    *)

LEMMA LeastNumber == ASSUME NEW S \in SUBSET Nat, S # {} PROVE \E i \in S : \A j \in S : i <= j
<1>1. PICK i \in S : \A j \in S : ~(<<j, i>> \in OpToRel(<, Nat))
  BY NatLessThanWellFounded, WFMin
<1>2. \A j \in S : ~(j < i)
  BY <1>1 DEF OpToRel
<1> QED BY <1>2

\* v is how many pairs a matching of what comes after i and j can have.
Beyond(M, i, j) == \A p \in M : p[1] > i /\ p[2] > j
Best(s, t, i, j, v) ==
  /\ v \in Nat
  /\ \E M \in Matchings(s, t) : Beyond(M, i, j) /\ Cardinality(M) = v
  /\ \A M \in Matchings(s, t) : Beyond(M, i, j) => Cardinality(M) <= v
Texts == Seq(Lines)

LEMMA MatchingsFinite ==
  ASSUME NEW s \in Texts, NEW t \in Texts, NEW M \in Matchings(s, t)
  PROVE  /\ IsFiniteSet(M) /\ Cardinality(M) \in Nat
         /\ \A p \in M : /\ p[1] \in 1..Len(s) /\ p[2] \in 1..Len(t) /\ p = <<p[1], p[2]>>
                         /\ p[1] \in Nat /\ p[2] \in Nat /\ s[p[1]] = t[p[2]]
         /\ Len(s) \in Nat /\ Len(t) \in Nat
<1>1. Len(s) \in Nat /\ Len(t) \in Nat /\ DOMAIN s = 1..Len(s) /\ DOMAIN t = 1..Len(t)
  BY DEF Texts
<1>2. IsFiniteSet(1..Len(s)) /\ IsFiniteSet(1..Len(t))
  BY <1>1, FS_Interval
<1>3. IsFiniteSet((1..Len(s)) \X (1..Len(t)))
  BY <1>2, FS_Product
<1>4. M \subseteq (1..Len(s)) \X (1..Len(t)) /\ \A p \in M : s[p[1]] = t[p[2]]
  <2>1. M \subseteq {p \in (1..Len(s)) \X (1..Len(t)) : s[p[1]] = t[p[2]]}
    BY DEF Matchings
  <2>2. \A p \in M : p \in (1..Len(s)) \X (1..Len(t)) /\ s[p[1]] = t[p[2]]
    BY <2>1
  <2> QED BY <1>1, <2>2
<1>5. IsFiniteSet(M) /\ Cardinality(M) \in Nat
  BY <1>3, <1>4, FS_Subset, FS_CardinalityType
<1> QED BY <1>1, <1>4, <1>5

\* A part of a matching is one, and so is one more pair before all others.
LEMMA MatchingsPart ==
  ASSUME NEW s, NEW t, NEW M \in Matchings(s, t), NEW N \in SUBSET M PROVE N \in Matchings(s, t)
BY DEF Matchings
LEMMA MatchingsMore ==
  ASSUME NEW s \in Texts, NEW t \in Texts, NEW M \in Matchings(s, t),
         NEW i \in 0..Len(s), NEW j \in 0..Len(t), i < Len(s), j < Len(t), s[i + 1] = t[j + 1], Beyond(M, i + 1, j + 1)
  PROVE  /\ M \cup {<<i + 1, j + 1>>} \in Matchings(s, t) /\ Beyond(M \cup {<<i + 1, j + 1>>}, i, j)
         /\ <<i + 1, j + 1>> \notin M
<1> DEFINE e == <<i + 1, j + 1>>
<1>1. Len(s) \in Nat /\ Len(t) \in Nat /\ DOMAIN s = 1..Len(s) /\ DOMAIN t = 1..Len(t)
  BY DEF Texts
<1>2. i \in Nat /\ j \in Nat /\ i + 1 \in 1..Len(s) /\ j + 1 \in 1..Len(t)
  BY <1>1
<1>3. e \in {p \in (1..Len(s)) \X (1..Len(t)) : s[p[1]] = t[p[2]]} /\ e[1] = i + 1 /\ e[2] = j + 1
  <2>1. e \in (1..Len(s)) \X (1..Len(t)) /\ e[1] = i + 1 /\ e[2] = j + 1
    BY <1>1, <1>2
  <2> HIDE DEF e
  <2>2. s[e[1]] = t[e[2]]
    BY <2>1
  <2> QED BY <2>1, <2>2
<1>4. \A p \in M : p[1] > i + 1 /\ p[2] > j + 1 /\ p[1] \in Nat /\ p[2] \in Nat
  BY MatchingsFinite DEF Beyond
<1> HIDE DEF e
<1>5. \A p \in M : /\ e[1] < p[1] /\ e[2] < p[2] /\ ~(p[1] < e[1]) /\ ~(p[2] < e[2])
  BY <1>2, <1>3, <1>4
<1>6. ~(e[1] < e[1]) /\ ~(e[2] < e[2])
  BY <1>2, <1>3
<1>7. M \in SUBSET {p \in (1..Len(s)) \X (1..Len(t)) : s[p[1]] = t[p[2]]} /\ \A p, q \in M : p[1] < q[1] <=> p[2] < q[2]
  BY DEF Matchings
<1>8. \A p, q \in M \cup {e} : p[1] < q[1] <=> p[2] < q[2]
  BY <1>5, <1>6, <1>7
<1>9. M \cup {e} \in Matchings(s, t)
  BY <1>3, <1>7, <1>8 DEF Matchings
<1>10. Beyond(M \cup {e}, i, j)
  BY <1>2, <1>3, <1>4 DEF Beyond
<1>11. e \notin M
  BY <1>5, <1>6
<1> QED BY <1>9, <1>10, <1>11 DEF e

\* No two pairs of a matching are both at the next line of a or of b.
LEMMA OneNext ==
  ASSUME NEW s \in Texts, NEW t \in Texts, NEW M \in Matchings(s, t), NEW i \in Nat, NEW j \in Nat, Beyond(M, i, j),
         NEW p \in M, NEW q \in M, p[1] = i + 1 \/ p[2] = j + 1, q[1] = i + 1 \/ q[2] = j + 1
  PROVE  p = q
<1>1. /\ p[1] \in Nat /\ p[2] \in Nat /\ q[1] \in Nat /\ q[2] \in Nat
      /\ p = <<p[1], p[2]>> /\ q = <<q[1], q[2]>>
  BY MatchingsFinite
<1>2. p[1] > i /\ p[2] > j /\ q[1] > i /\ q[2] > j
  BY DEF Beyond
<1>3. (p[1] < q[1] <=> p[2] < q[2]) /\ (q[1] < p[1] <=> q[2] < p[2])
  BY DEF Matchings
<1>4. p[1] = q[1] /\ p[2] = q[2]
  BY <1>1, <1>2, <1>3
<1> QED BY <1>1, <1>4

LEMMA BestAtEnd ==
  ASSUME NEW s \in Texts, NEW t \in Texts, NEW i \in 0..Len(s), NEW j \in 0..Len(t), i = Len(s) \/ j = Len(t)
  PROVE  Best(s, t, i, j, 0)
<1>1. {} \in Matchings(s, t) /\ Cardinality({}) = 0 /\ Beyond({}, i, j)
  BY FS_EmptySet DEF Matchings, Beyond
<1>2. ASSUME NEW M \in Matchings(s, t), Beyond(M, i, j) PROVE Cardinality(M) <= 0
  <2>1. \A p \in M : FALSE
    BY <1>2, MatchingsFinite DEF Beyond
  <2>2. M = {}
    BY <2>1
  <2> QED BY <1>1, <2>2
<1> QED BY <1>1, <1>2 DEF Best

LEMMA BestEqual ==
  ASSUME NEW s \in Texts, NEW t \in Texts, NEW i \in 0..Len(s), NEW j \in 0..Len(t), i < Len(s), j < Len(t),
         s[i + 1] = t[j + 1], NEW v, Best(s, t, i + 1, j + 1, v)
  PROVE  Best(s, t, i, j, v + 1)
<1>0. v \in Nat /\ i \in Nat /\ j \in Nat
  BY DEF Best, Texts
<1>1. \E N \in Matchings(s, t) : Beyond(N, i, j) /\ Cardinality(N) = v + 1
  <2>1. PICK M \in Matchings(s, t) : Beyond(M, i + 1, j + 1) /\ Cardinality(M) = v
    BY DEF Best
  <2> DEFINE e == <<i + 1, j + 1>>
  <2>2. M \cup {e} \in Matchings(s, t) /\ Beyond(M \cup {e}, i, j) /\ e \notin M
    BY <2>1, MatchingsMore
  <2> HIDE DEF e
  <2>3. IsFiniteSet(M)
    BY MatchingsFinite
  <2>4. Cardinality(M \cup {e}) = v + 1
    BY <2>1, <2>2, <2>3, FS_AddElement
  <2> QED BY <2>2, <2>4
<1>2. ASSUME NEW M \in Matchings(s, t), Beyond(M, i, j) PROVE Cardinality(M) <= v + 1
  <2> DEFINE Next1 == {p \in M : p[1] = i + 1 \/ p[2] = j + 1}
             N == M \ Next1
  <2>1. N \in Matchings(s, t)
    BY MatchingsPart
  <2>2. Beyond(N, i + 1, j + 1)
    <3> SUFFICES ASSUME NEW p \in M, p[1] # i + 1, p[2] # j + 1 PROVE p[1] > i + 1 /\ p[2] > j + 1
      BY DEF Beyond
    <3>1. p[1] > i /\ p[2] > j /\ p[1] \in Nat /\ p[2] \in Nat
      BY <1>2, MatchingsFinite DEF Beyond
    <3> QED BY <1>0, <3>1
  <2>3. Cardinality(N) <= v /\ Cardinality(N) \in Nat /\ IsFiniteSet(N) /\ IsFiniteSet(M) /\ Cardinality(M) \in Nat
    BY <2>1, <2>2, MatchingsFinite DEF Best
  <2>4. \A p, q \in Next1 : p = q
    BY <1>0, <1>2, OneNext
  <2>5. Next1 = {} \/ \E p \in M : Next1 = {p}
    BY <2>4
  <2>6. M = N \/ \E p \in M : M = N \cup {p} /\ p \notin N
    BY <2>5
  <2> HIDE DEF N, Next1
  <2>7. Cardinality(M) <= Cardinality(N) + 1
    BY <2>3, <2>6, FS_AddElement
  <2> QED BY <1>0, <2>3, <2>7
<1> QED BY <1>0, <1>1, <1>2 DEF Best

LEMMA BestUnequal ==
  ASSUME NEW s \in Texts, NEW t \in Texts, NEW i \in 0..Len(s), NEW j \in 0..Len(t), i < Len(s), j < Len(t),
         s[i + 1] # t[j + 1], NEW v, NEW w, Best(s, t, i + 1, j, v), Best(s, t, i, j + 1, w)
  PROVE  Best(s, t, i, j, IF v >= w THEN v ELSE w)
<1> DEFINE m == IF v >= w THEN v ELSE w
<1>0. v \in Nat /\ w \in Nat /\ i \in Nat /\ j \in Nat
  BY DEF Best, Texts
<1>1. m \in Nat /\ v <= m /\ w <= m /\ m \in {v, w}
  BY <1>0
<1> HIDE DEF m
<1>2. \A M \in Matchings(s, t) : Beyond(M, i + 1, j) \/ Beyond(M, i, j + 1) => Beyond(M, i, j)
  BY <1>0, MatchingsFinite DEF Beyond
<1>3. \E M \in Matchings(s, t) : Beyond(M, i, j) /\ Cardinality(M) = m
  <2>1. CASE m = v
    BY <2>1, <1>2 DEF Best
  <2>2. CASE m = w
    BY <2>2, <1>2 DEF Best
  <2> QED BY <1>1, <2>1, <2>2
<1>4. ASSUME NEW M \in Matchings(s, t), Beyond(M, i, j) PROVE Cardinality(M) <= m
  <2>1. \A p \in M : p[1] \in Nat /\ p[2] \in Nat /\ s[p[1]] = t[p[2]] /\ p[1] > i /\ p[2] > j
    BY <1>4, MatchingsFinite DEF Beyond
  <2>2. Beyond(M, i + 1, j) \/ Beyond(M, i, j + 1)
    <3> SUFFICES ASSUME NEW p \in M, p[1] = i + 1, NEW q \in M, q[2] = j + 1 PROVE FALSE
      BY <1>0, <2>1 DEF Beyond
    <3>1. p = q
      BY <1>0, <1>4, OneNext
    <3> QED BY <2>1, <3>1
  <2>3. Cardinality(M) <= v \/ Cardinality(M) <= w
    BY <2>2 DEF Best
  <2>4. Cardinality(M) \in Nat
    BY MatchingsFinite
  <2> QED BY <1>0, <1>1, <2>3, <2>4
<1> QED BY <1>1, <1>3, <1>4 DEF Best, m

-----------------------------------------------------------------------------
ToGo(s, t, p) == (Len(s) - p[1]) + (Len(t) - p[2])
\* What the two loops compute at a cell from those after it.
LongestAt(dp, s, t, i, j) ==
  IF i = Len(s) \/ j = Len(t) THEN 0
  ELSE IF s[i + 1] = t[j + 1] THEN dp[<<i + 1, j + 1>>] + 1
  ELSE IF dp[<<i + 1, j>>] >= dp[<<i, j + 1>>] THEN dp[<<i + 1, j>>] ELSE dp[<<i, j + 1>>]
StepAt(walk, dp, s, t, i, j) ==
  IF i = Len(s) THEN [added |-> (j + 1)..Len(t), removed |-> 0]
  ELSE IF j = Len(t) THEN [added |-> {}, removed |-> Len(s) - i]
  ELSE IF s[i + 1] = t[j + 1] THEN walk[<<i + 1, j + 1>>]
  ELSE IF dp[<<i + 1, j>>] >= dp[<<i, j + 1>>] THEN [walk[<<i + 1, j>>] EXCEPT !.removed = @ + 1]
  ELSE [walk[<<i, j + 1>>] EXCEPT !.added = @ \cup {j + 1}]

\* There is such a table: up to the first distance from the end where there would be none.
LEMMA CommonExists ==
  ASSUME NEW s \in Texts, NEW t \in Texts
  PROVE  \E f : f = [p \in Cells(s, t) |-> LongestAt(f, s, t, p[1], p[2])]
<1>1. Len(s) \in Nat /\ Len(t) \in Nat
  BY DEF Texts
<1>2. \A p \in Cells(s, t) : p = <<p[1], p[2]>> /\ p[1] \in 0..Len(s) /\ p[2] \in 0..Len(t) /\ ToGo(s, t, p) \in Nat
  BY <1>1 DEF Cells, ToGo
<1>3. ASSUME NEW p \in Cells(s, t), p[1] # Len(s), p[2] # Len(t)
      PROVE  \A q \in {<<p[1] + 1, p[2] + 1>>, <<p[1] + 1, p[2]>>, <<p[1], p[2] + 1>>} :
               q \in Cells(s, t) /\ ToGo(s, t, q) < ToGo(s, t, p)
  BY <1>1, <1>2, <1>3 DEF Cells, ToGo
\* A cell takes from another function what that has alike at the cells it looks at.
<1>4. ASSUME NEW f, NEW g, NEW p \in Cells(s, t), \A q \in Cells(s, t) : ToGo(s, t, q) < ToGo(s, t, p) => f[q] = g[q]
      PROVE  LongestAt(f, s, t, p[1], p[2]) = LongestAt(g, s, t, p[1], p[2])
  <2>1. CASE p[1] # Len(s) /\ p[2] # Len(t)
    <3>1. /\ f[<<p[1] + 1, p[2] + 1>>] = g[<<p[1] + 1, p[2] + 1>>]
          /\ f[<<p[1] + 1, p[2]>>] = g[<<p[1] + 1, p[2]>>] /\ f[<<p[1], p[2] + 1>>] = g[<<p[1], p[2] + 1>>]
      BY <1>3, <1>4, <2>1
    <3> QED BY <3>1 DEF LongestAt
  <2>2. CASE ~(p[1] # Len(s) /\ p[2] # Len(t))
    BY <2>2 DEF LongestAt
  <2> QED BY <2>1, <2>2
<1> DEFINE Agrees(f, k) == \A p \in Cells(s, t) : ToGo(s, t, p) < k => f[p] = LongestAt(f, s, t, p[1], p[2])
           Bad == {k \in Nat : ~\E f : Agrees(f, k)}
<1>5. Bad = {}
  <2> SUFFICES ASSUME Bad # {} PROVE FALSE
    OBVIOUS
  <2>1. PICK k \in Bad : \A j \in Bad : k <= j
    <3>1. Bad \in SUBSET Nat
      OBVIOUS
    <3> HIDE DEF Bad
    <3> QED BY <3>1, LeastNumber
  <2>2. k \in Nat /\ ~\E f : Agrees(f, k)
    OBVIOUS
  <2>3. CASE k = 0
    <3>1. \A p \in Cells(s, t) : ~(ToGo(s, t, p) < 0)
      BY <1>2
    <3>2. Agrees(<<>>, 0)
      BY <3>1
    <3> QED BY <2>2, <2>3, <3>2
  <2>4. CASE k # 0
    <3>1. k - 1 \in Nat /\ ~(k <= k - 1)
      BY <2>2, <2>4
    <3>2. PICK f : Agrees(f, k - 1)
      BY <2>1, <3>1
    <3> DEFINE g == [p \in Cells(s, t) |-> LongestAt(f, s, t, p[1], p[2])]
    <3>3. \A p \in Cells(s, t) : g[p] = LongestAt(f, s, t, p[1], p[2])
      OBVIOUS
    <3>4. \A q \in Cells(s, t) : ToGo(s, t, q) < k - 1 => f[q] = g[q]
      BY <3>2, <3>3
    <3> HIDE DEF g
    <3>5. ASSUME NEW p \in Cells(s, t), ToGo(s, t, p) < k PROVE g[p] = LongestAt(g, s, t, p[1], p[2])
      <4>1. \A q \in Cells(s, t) : ToGo(s, t, q) < ToGo(s, t, p) => f[q] = g[q]
        BY <1>2, <2>2, <3>4, <3>5
      <4> QED BY <1>4, <3>3, <4>1
    <3>6. Agrees(g, k)
      BY <3>5
    <3> QED BY <2>2, <3>6
  <2> QED BY <2>3, <2>4
<1>6. Len(s) + Len(t) + 1 \in Nat /\ \A p \in Cells(s, t) : ToGo(s, t, p) < Len(s) + Len(t) + 1
  BY <1>1, <1>2 DEF ToGo
<1>7. PICK f : Agrees(f, Len(s) + Len(t) + 1)
  BY <1>5, <1>6
<1> DEFINE g == [p \in Cells(s, t) |-> LongestAt(f, s, t, p[1], p[2])]
<1>8. \A p \in Cells(s, t) : g[p] = LongestAt(f, s, t, p[1], p[2]) /\ f[p] = g[p]
  BY <1>6, <1>7
<1>9. \A p \in Cells(s, t) : LongestAt(f, s, t, p[1], p[2]) = LongestAt(g, s, t, p[1], p[2])
  <2> HIDE DEF g
  <2> QED BY <1>4, <1>8
<1>10. g = [p \in Cells(s, t) |-> LongestAt(g, s, t, p[1], p[2])]
  BY <1>9
<1> QED BY <1>10

\* And there is such a walk, by the same argument.
LEMMA WalkExists ==
  ASSUME NEW s \in Texts, NEW t \in Texts, NEW dp
  PROVE  \E f : f = [p \in Cells(s, t) |-> StepAt(f, dp, s, t, p[1], p[2])]
<1>1. Len(s) \in Nat /\ Len(t) \in Nat
  BY DEF Texts
<1>2. \A p \in Cells(s, t) : p = <<p[1], p[2]>> /\ p[1] \in 0..Len(s) /\ p[2] \in 0..Len(t) /\ ToGo(s, t, p) \in Nat
  BY <1>1 DEF Cells, ToGo
<1>3. ASSUME NEW p \in Cells(s, t), p[1] # Len(s), p[2] # Len(t)
      PROVE  \A q \in {<<p[1] + 1, p[2] + 1>>, <<p[1] + 1, p[2]>>, <<p[1], p[2] + 1>>} :
               q \in Cells(s, t) /\ ToGo(s, t, q) < ToGo(s, t, p)
  BY <1>1, <1>2, <1>3 DEF Cells, ToGo
\* A cell takes from another function what that has alike at the cells it looks at.
<1>4. ASSUME NEW f, NEW g, NEW p \in Cells(s, t), \A q \in Cells(s, t) : ToGo(s, t, q) < ToGo(s, t, p) => f[q] = g[q]
      PROVE  StepAt(f, dp, s, t, p[1], p[2]) = StepAt(g, dp, s, t, p[1], p[2])
  <2>1. CASE p[1] # Len(s) /\ p[2] # Len(t)
    <3>1. /\ f[<<p[1] + 1, p[2] + 1>>] = g[<<p[1] + 1, p[2] + 1>>]
          /\ f[<<p[1] + 1, p[2]>>] = g[<<p[1] + 1, p[2]>>] /\ f[<<p[1], p[2] + 1>>] = g[<<p[1], p[2] + 1>>]
      BY <1>3, <1>4, <2>1
    <3> QED BY <3>1 DEF StepAt
  <2>2. CASE ~(p[1] # Len(s) /\ p[2] # Len(t))
    BY <2>2 DEF StepAt
  <2> QED BY <2>1, <2>2
<1> DEFINE Agrees(f, k) == \A p \in Cells(s, t) : ToGo(s, t, p) < k => f[p] = StepAt(f, dp, s, t, p[1], p[2])
           Bad == {k \in Nat : ~\E f : Agrees(f, k)}
<1>5. Bad = {}
  <2> SUFFICES ASSUME Bad # {} PROVE FALSE
    OBVIOUS
  <2>1. PICK k \in Bad : \A j \in Bad : k <= j
    <3>1. Bad \in SUBSET Nat
      OBVIOUS
    <3> HIDE DEF Bad
    <3> QED BY <3>1, LeastNumber
  <2>2. k \in Nat /\ ~\E f : Agrees(f, k)
    OBVIOUS
  <2>3. CASE k = 0
    <3>1. \A p \in Cells(s, t) : ~(ToGo(s, t, p) < 0)
      BY <1>2
    <3>2. Agrees(<<>>, 0)
      BY <3>1
    <3> QED BY <2>2, <2>3, <3>2
  <2>4. CASE k # 0
    <3>1. k - 1 \in Nat /\ ~(k <= k - 1)
      BY <2>2, <2>4
    <3>2. PICK f : Agrees(f, k - 1)
      BY <2>1, <3>1
    <3> DEFINE g == [p \in Cells(s, t) |-> StepAt(f, dp, s, t, p[1], p[2])]
    <3>3. \A p \in Cells(s, t) : g[p] = StepAt(f, dp, s, t, p[1], p[2])
      OBVIOUS
    <3>4. \A q \in Cells(s, t) : ToGo(s, t, q) < k - 1 => f[q] = g[q]
      BY <3>2, <3>3
    <3> HIDE DEF g
    <3>5. ASSUME NEW p \in Cells(s, t), ToGo(s, t, p) < k PROVE g[p] = StepAt(g, dp, s, t, p[1], p[2])
      <4>1. \A q \in Cells(s, t) : ToGo(s, t, q) < ToGo(s, t, p) => f[q] = g[q]
        BY <1>2, <2>2, <3>4, <3>5
      <4> QED BY <1>4, <3>3, <4>1
    <3>6. Agrees(g, k)
      BY <3>5
    <3> QED BY <2>2, <3>6
  <2> QED BY <2>3, <2>4
<1>6. Len(s) + Len(t) + 1 \in Nat /\ \A p \in Cells(s, t) : ToGo(s, t, p) < Len(s) + Len(t) + 1
  BY <1>1, <1>2 DEF ToGo
<1>7. PICK f : Agrees(f, Len(s) + Len(t) + 1)
  BY <1>5, <1>6
<1> DEFINE g == [p \in Cells(s, t) |-> StepAt(f, dp, s, t, p[1], p[2])]
<1>8. \A p \in Cells(s, t) : g[p] = StepAt(f, dp, s, t, p[1], p[2]) /\ f[p] = g[p]
  BY <1>6, <1>7
<1>9. \A p \in Cells(s, t) : StepAt(f, dp, s, t, p[1], p[2]) = StepAt(g, dp, s, t, p[1], p[2])
  <2> HIDE DEF g
  <2> QED BY <1>4, <1>8
<1>10. g = [p \in Cells(s, t) |-> StepAt(g, dp, s, t, p[1], p[2])]
  BY <1>9
<1> QED BY <1>10

LEMMA CommonIs ==
  ASSUME NEW s \in Texts, NEW t \in Texts, NEW i \in 0..Len(s), NEW j \in 0..Len(t)
  PROVE  Common(s, t)[<<i, j>>] = LongestAt(Common(s, t), s, t, i, j)
<1> DEFINE dp == CHOOSE f : f = [p \in Cells(s, t) |-> LongestAt(f, s, t, p[1], p[2])]
<1>1. dp = [p \in Cells(s, t) |-> LongestAt(dp, s, t, p[1], p[2])]
  BY CommonExists
<1>2. Common(s, t) = dp
  BY DEF Common, LongestAt
<1> HIDE DEF dp
<1>3. <<i, j>> \in Cells(s, t)
  BY DEF Cells
<1>4. dp[<<i, j>>] = LongestAt(dp, s, t, i, j)
  BY <1>1, <1>3
<1> QED BY <1>2, <1>4

\* What the table has is the most that can be matched.
LEMMA CommonIsBest ==
  ASSUME NEW s \in Texts, NEW t \in Texts
  PROVE  \A i \in 0..Len(s), j \in 0..Len(t) : Best(s, t, i, j, Common(s, t)[<<i, j>>])
<1> DEFINE dp == Common(s, t)
           Bad == {k \in Nat : \E i \in 0..Len(s), j \in 0..Len(t) : k = (Len(s) - i) + (Len(t) - j) /\ ~Best(s, t, i, j, dp[<<i, j>>])}
<1>1. Len(s) \in Nat /\ Len(t) \in Nat
  BY DEF Texts
<1>2. Bad = {}
  <2> SUFFICES ASSUME Bad # {} PROVE FALSE
    OBVIOUS
  <2>1. PICK k \in Bad : \A m \in Bad : k <= m
    <3>1. Bad \in SUBSET Nat
      OBVIOUS
    <3> HIDE DEF Bad
    <3> QED BY <3>1, LeastNumber
  <2>2. PICK i \in 0..Len(s), j \in 0..Len(t) : k = (Len(s) - i) + (Len(t) - j) /\ ~Best(s, t, i, j, dp[<<i, j>>])
    OBVIOUS
  <2>3. dp[<<i, j>>] = LongestAt(dp, s, t, i, j)
    BY CommonIs
  <2>4. i # Len(s) /\ j # Len(t)
    BY <2>2, <2>3, BestAtEnd DEF LongestAt
  <2>5. /\ i + 1 \in 0..Len(s) /\ j + 1 \in 0..Len(t) /\ i < Len(s) /\ j < Len(t)
        /\ (Len(s) - (i + 1)) + (Len(t) - (j + 1)) \in Nat /\ (Len(s) - (i + 1)) + (Len(t) - j) \in Nat
        /\ (Len(s) - i) + (Len(t) - (j + 1)) \in Nat
        /\ ~(k <= (Len(s) - (i + 1)) + (Len(t) - (j + 1))) /\ ~(k <= (Len(s) - (i + 1)) + (Len(t) - j))
        /\ ~(k <= (Len(s) - i) + (Len(t) - (j + 1)))
    <3>1. PICK m \in Nat, n \in Nat : m = Len(s) /\ n = Len(t)
      BY <1>1
    <3>2. i \in 0..m /\ j \in 0..n /\ k = (m - i) + (n - j) /\ i # m /\ j # n
      BY <2>2, <2>4, <3>1
    <3>3. /\ i + 1 \in 0..m /\ j + 1 \in 0..n /\ i < m /\ j < n
          /\ (m - (i + 1)) + (n - (j + 1)) \in Nat /\ (m - (i + 1)) + (n - j) \in Nat /\ (m - i) + (n - (j + 1)) \in Nat
          /\ ~(k <= (m - (i + 1)) + (n - (j + 1))) /\ ~(k <= (m - (i + 1)) + (n - j)) /\ ~(k <= (m - i) + (n - (j + 1)))
      BY ONLY <3>1, <3>2
    <3> QED BY <3>1, <3>3
  <2>6. ASSUME NEW x \in 0..Len(s), NEW y \in 0..Len(t), (Len(s) - x) + (Len(t) - y) \in Nat, ~(k <= (Len(s) - x) + (Len(t) - y))
        PROVE  Best(s, t, x, y, dp[<<x, y>>])
    BY <2>1, <2>6
  <2>7. /\ Best(s, t, i + 1, j + 1, dp[<<i + 1, j + 1>>]) /\ Best(s, t, i + 1, j, dp[<<i + 1, j>>])
        /\ Best(s, t, i, j + 1, dp[<<i, j + 1>>])
    BY <2>5, <2>6
  <2> HIDE DEF dp, Bad
  <2>8. CASE s[i + 1] = t[j + 1]
    <3>1. dp[<<i, j>>] = dp[<<i + 1, j + 1>>] + 1
      BY <2>3, <2>4, <2>8 DEF LongestAt
    <3> QED BY <2>2, <2>5, <2>7, <2>8, <3>1, BestEqual
  <2>9. CASE s[i + 1] # t[j + 1]
    <3>1. dp[<<i, j>>] = IF dp[<<i + 1, j>>] >= dp[<<i, j + 1>>] THEN dp[<<i + 1, j>>] ELSE dp[<<i, j + 1>>]
      BY <2>3, <2>4, <2>9 DEF LongestAt
    <3> QED BY <2>2, <2>5, <2>7, <2>9, <3>1, BestUnequal
  <2> QED BY <2>8, <2>9
<1> QED
  <2> SUFFICES ASSUME NEW i \in 0..Len(s), NEW j \in 0..Len(t), ~Best(s, t, i, j, dp[<<i, j>>]) PROVE FALSE
    OBVIOUS
  <2>1. (Len(s) - i) + (Len(t) - j) \in Nat
    BY <1>1
  <2>2. (Len(s) - i) + (Len(t) - j) \in Bad
    BY <2>1
  <2> QED BY <1>2, <2>2

LEMMA WalkIs ==
  ASSUME NEW s \in Texts, NEW t \in Texts
  PROVE  \E walk : /\ Walk(s, t) = walk[<<0, 0>>]
                   /\ \A i \in 0..Len(s), j \in 0..Len(t) : walk[<<i, j>>] = StepAt(walk, Common(s, t), s, t, i, j)
<1> DEFINE dp == Common(s, t)
           walk == CHOOSE f : f = [p \in Cells(s, t) |-> StepAt(f, dp, s, t, p[1], p[2])]
<1>1. walk = [p \in Cells(s, t) |-> StepAt(walk, dp, s, t, p[1], p[2])]
  BY WalkExists
<1>2. Walk(s, t) = walk[<<0, 0>>]
  BY DEF Walk, StepAt
<1> HIDE DEF walk, dp
<1>3. \A i \in 0..Len(s), j \in 0..Len(t) : walk[<<i, j>>] = StepAt(walk, dp, s, t, i, j)
  <2> TAKE i \in 0..Len(s), j \in 0..Len(t)
  <2>1. <<i, j>> \in Cells(s, t)
    BY DEF Cells
  <2> QED BY <1>1, <2>1
<1> QED BY <1>2, <1>3 DEF dp

\* The walk from a cell adds lines after j, and keeps of both as many as the table says.
Kept(s, t, i, j, w, v) ==
  /\ w.added \in SUBSET ((j + 1)..Len(t)) /\ w.removed \in Nat
  /\ w = [added |-> w.added, removed |-> w.removed]
  /\ w.removed + v = Len(s) - i /\ Cardinality(w.added) + v = Len(t) - j

LEMMA WalkKeeps ==
  ASSUME NEW s \in Texts, NEW t \in Texts, NEW walk,
         \A i \in 0..Len(s), j \in 0..Len(t) : walk[<<i, j>>] = StepAt(walk, Common(s, t), s, t, i, j)
  PROVE  \A i \in 0..Len(s), j \in 0..Len(t) : Kept(s, t, i, j, walk[<<i, j>>], Common(s, t)[<<i, j>>])
<1> DEFINE dp == Common(s, t)
           Bad == {k \in Nat : \E i \in 0..Len(s), j \in 0..Len(t) :
                     k = (Len(s) - i) + (Len(t) - j) /\ ~Kept(s, t, i, j, walk[<<i, j>>], dp[<<i, j>>])}
<1>1. Len(s) \in Nat /\ Len(t) \in Nat
  BY DEF Texts
<1>2. Bad = {}
  <2> SUFFICES ASSUME Bad # {} PROVE FALSE
    OBVIOUS
  <2>1. PICK k \in Bad : \A m \in Bad : k <= m
    <3>1. Bad \in SUBSET Nat
      OBVIOUS
    <3> HIDE DEF Bad
    <3> QED BY <3>1, LeastNumber
  <2>2. PICK i \in 0..Len(s), j \in 0..Len(t) :
          k = (Len(s) - i) + (Len(t) - j) /\ ~Kept(s, t, i, j, walk[<<i, j>>], dp[<<i, j>>])
    OBVIOUS
  <2>3. dp[<<i, j>>] = LongestAt(dp, s, t, i, j) /\ walk[<<i, j>>] = StepAt(walk, dp, s, t, i, j)
    BY CommonIs
  <2> DEFINE w == walk[<<i, j>>]
             v == dp[<<i, j>>]
  <2>4. i # Len(s)
    <3> SUFFICES ASSUME i = Len(s) PROVE FALSE
      OBVIOUS
    <3>1. w = [added |-> (j + 1)..Len(t), removed |-> 0] /\ v = 0
      BY <2>3 DEF StepAt, LongestAt
    <3>2. Cardinality((j + 1)..Len(t)) = Len(t) - j
      <4>1. j + 1 \in Int /\ Len(t) \in Int /\ j \in 0..Len(t)
        BY <1>1
      <4>2. Cardinality((j + 1)..Len(t)) = IF j + 1 > Len(t) THEN 0 ELSE Len(t) - (j + 1) + 1
        BY <4>1, FS_Interval
      <4> QED BY <4>1, <4>2
    <3>3. Kept(s, t, i, j, w, v)
      <4> HIDE DEF w, v
      <4> QED BY <1>1, <3>1, <3>2 DEF Kept
    <3> QED BY <2>2, <3>3
  <2>5. j # Len(t)
    <3> SUFFICES ASSUME j = Len(t) PROVE FALSE
      OBVIOUS
    <3>1. w = [added |-> {}, removed |-> Len(s) - i] /\ v = 0
      BY <2>3, <2>4 DEF StepAt, LongestAt
    <3>2. Cardinality({}) = 0 /\ Len(s) - i \in Nat
      BY <1>1, FS_EmptySet
    <3>3. Kept(s, t, i, j, w, v)
      <4> HIDE DEF w, v
      <4> QED BY <1>1, <3>1, <3>2 DEF Kept
    <3> QED BY <2>2, <3>3
  <2>6. PICK m \in Nat, n \in Nat : m = Len(s) /\ n = Len(t)
    BY <1>1
  <2>7. i \in 0..m /\ j \in 0..n /\ k = (m - i) + (n - j) /\ i # m /\ j # n
    BY <2>2, <2>4, <2>5, <2>6
  <2>8. /\ i + 1 \in 0..m /\ j + 1 \in 0..n /\ i < m /\ j < n
        /\ (m - (i + 1)) + (n - (j + 1)) \in Nat /\ (m - (i + 1)) + (n - j) \in Nat /\ (m - i) + (n - (j + 1)) \in Nat
        /\ ~(k <= (m - (i + 1)) + (n - (j + 1))) /\ ~(k <= (m - (i + 1)) + (n - j)) /\ ~(k <= (m - i) + (n - (j + 1)))
    BY ONLY <2>6, <2>7
  <2>9. ASSUME NEW x \in 0..Len(s), NEW y \in 0..Len(t), (Len(s) - x) + (Len(t) - y) \in Nat, ~(k <= (Len(s) - x) + (Len(t) - y))
        PROVE  Kept(s, t, x, y, walk[<<x, y>>], dp[<<x, y>>])
    BY <2>1, <2>9
  <2>10. /\ Kept(s, t, i + 1, j + 1, walk[<<i + 1, j + 1>>], dp[<<i + 1, j + 1>>])
         /\ Kept(s, t, i + 1, j, walk[<<i + 1, j>>], dp[<<i + 1, j>>])
         /\ Kept(s, t, i, j + 1, walk[<<i, j + 1>>], dp[<<i, j + 1>>])
    BY <2>6, <2>8, <2>9
  <2>11. dp[<<i + 1, j + 1>>] \in Nat /\ dp[<<i + 1, j>>] \in Nat /\ dp[<<i, j + 1>>] \in Nat
    BY <2>6, <2>8, CommonIsBest DEF Best
  <2>12. ~Kept(s, t, i, j, w, v)
    BY <2>2
  <2>13. CASE s[i + 1] = t[j + 1]
    <3> DEFINE next == walk[<<i + 1, j + 1>>]
               rest == dp[<<i + 1, j + 1>>]
    <3>1. w = next /\ v = rest + 1
      BY <2>3, <2>4, <2>5, <2>13 DEF StepAt, LongestAt
    <3>2. Kept(s, t, i + 1, j + 1, next, rest) /\ rest \in Nat
      BY <2>10, <2>11
    <3> HIDE DEF w, v, next, rest
    <3>3. IsFiniteSet((j + 1)..n)
      BY <2>7, FS_Interval
    <3>4. /\ next.added \in SUBSET ((j + 1 + 1)..n) /\ next.removed \in Nat /\ next = [added |-> next.added, removed |-> next.removed]
          /\ next.removed + rest = m - (i + 1) /\ Cardinality(next.added) + rest = n - (j + 1)
      BY <2>6, <3>2 DEF Kept
    <3>5. (j + 1 + 1)..n \subseteq (j + 1)..n
      BY <2>7
    <3>6. next.added \in SUBSET ((j + 1)..n) /\ IsFiniteSet(next.added) /\ Cardinality(next.added) \in Nat
      BY <3>3, <3>4, <3>5, FS_Subset, FS_CardinalityType
    <3>7. next.removed + (rest + 1) = m - i /\ Cardinality(next.added) + (rest + 1) = n - j
      <4>1. PICK x \in Nat, y \in Nat : x = next.removed /\ y = Cardinality(next.added)
        BY <3>4, <3>6
      <4>2. x + rest = m - (i + 1) /\ y + rest = n - (j + 1) /\ rest \in Nat
        BY <3>2, <3>4, <4>1
      <4>3. x + (rest + 1) = m - i /\ y + (rest + 1) = n - j
        BY ONLY <2>7, <4>2, m \in Nat, n \in Nat, x \in Nat, y \in Nat
      <4> QED BY <4>1, <4>3
    <3>8. Kept(s, t, i, j, w, v)
      BY <2>6, <3>1, <3>4, <3>6, <3>7 DEF Kept
    <3> QED BY <2>12, <3>8
  <2>14. CASE s[i + 1] # t[j + 1] /\ dp[<<i + 1, j>>] >= dp[<<i, j + 1>>]
    <3> DEFINE next == walk[<<i + 1, j>>]
               rest == dp[<<i + 1, j>>]
    <3>1. w = [next EXCEPT !.removed = @ + 1] /\ v = rest
      BY <2>3, <2>4, <2>5, <2>14 DEF StepAt, LongestAt
    <3>2. Kept(s, t, i + 1, j, next, rest) /\ rest \in Nat
      BY <2>10, <2>11
    <3> HIDE DEF w, v, next, rest
    <3>3. /\ next.added \in SUBSET ((j + 1)..n) /\ next.removed \in Nat /\ next = [added |-> next.added, removed |-> next.removed]
          /\ next.removed + rest = m - (i + 1) /\ Cardinality(next.added) + rest = n - j
      BY <2>6, <3>2 DEF Kept
    <3>4. w = [added |-> next.added, removed |-> next.removed + 1]
      BY <3>1, <3>3
    <3>5. w.added = next.added /\ w.removed = next.removed + 1 /\ w = [added |-> w.added, removed |-> w.removed]
      BY <3>4
    <3>6. next.removed + 1 \in Nat /\ (next.removed + 1) + rest = m - i
      <4>1. PICK x \in Nat : x = next.removed
        BY <3>3
      <4>2. x + rest = m - (i + 1) /\ rest \in Nat
        BY <3>2, <3>3, <4>1
      <4>3. x + 1 \in Nat /\ (x + 1) + rest = m - i
        BY ONLY <2>7, <4>2, m \in Nat, x \in Nat
      <4> QED BY <4>1, <4>3
    <3>7. Kept(s, t, i, j, w, v)
      BY <2>6, <3>1, <3>3, <3>5, <3>6 DEF Kept
    <3> QED BY <2>12, <3>7
  <2>15. CASE s[i + 1] # t[j + 1] /\ ~(dp[<<i + 1, j>>] >= dp[<<i, j + 1>>])
    <3> DEFINE next == walk[<<i, j + 1>>]
               rest == dp[<<i, j + 1>>]
    <3>1. w = [next EXCEPT !.added = @ \cup {j + 1}] /\ v = rest
      BY <2>3, <2>4, <2>5, <2>15 DEF StepAt, LongestAt
    <3>2. Kept(s, t, i, j + 1, next, rest) /\ rest \in Nat
      BY <2>10, <2>11
    <3> HIDE DEF w, v, next, rest
    <3>3. /\ next.added \in SUBSET ((j + 1 + 1)..n) /\ next.removed \in Nat /\ next = [added |-> next.added, removed |-> next.removed]
          /\ next.removed + rest = m - i /\ Cardinality(next.added) + rest = n - (j + 1)
      BY <2>6, <3>2 DEF Kept
    <3>4. w = [added |-> next.added \cup {j + 1}, removed |-> next.removed]
      BY <3>1, <3>3
    <3>5. w.added = next.added \cup {j + 1} /\ w.removed = next.removed /\ w = [added |-> w.added, removed |-> w.removed]
      BY <3>4
    <3>6. (j + 1 + 1)..n \subseteq (j + 1)..n /\ j + 1 \in (j + 1)..n /\ j + 1 \notin (j + 1 + 1)..n
      BY <2>7
    <3>7. IsFiniteSet((j + 1)..n)
      BY <2>7, FS_Interval
    <3>8. next.added \in SUBSET ((j + 1)..n) /\ j + 1 \notin next.added
      BY <3>3, <3>6
    <3>9. IsFiniteSet(next.added) /\ Cardinality(next.added) \in Nat
      BY <3>7, <3>8, FS_Subset, FS_CardinalityType
    <3>10. Cardinality(w.added) = Cardinality(next.added) + 1
      BY <3>5, <3>8, <3>9, FS_AddElement
    <3>11. Cardinality(w.added) + rest = n - j
      <4>1. PICK y \in Nat : y = Cardinality(next.added)
        BY <3>9
      <4>2. y + rest = n - (j + 1) /\ rest \in Nat
        BY <3>2, <3>3, <4>1
      <4>3. (y + 1) + rest = n - j
        BY ONLY <2>7, <4>2, n \in Nat, y \in Nat
      <4> QED BY <3>10, <4>1, <4>3
    <3>12. w.added \in SUBSET ((j + 1)..n)
      BY <3>5, <3>6, <3>8
    <3>13. Kept(s, t, i, j, w, v)
      BY <2>6, <3>1, <3>3, <3>5, <3>11, <3>12 DEF Kept
    <3> QED BY <2>12, <3>13
  <2> QED BY <2>13, <2>14, <2>15
<1> QED
  <2> SUFFICES ASSUME NEW i \in 0..Len(s), NEW j \in 0..Len(t), ~Kept(s, t, i, j, walk[<<i, j>>], dp[<<i, j>>]) PROVE FALSE
    OBVIOUS
  <2>1. (Len(s) - i) + (Len(t) - j) \in Nat
    BY <1>1
  <2>2. (Len(s) - i) + (Len(t) - j) \in Bad
    BY <2>1
  <2> QED BY <1>2, <2>2

LEMMA BestIsLongest ==
  ASSUME NEW s \in Texts, NEW t \in Texts, NEW v, Best(s, t, 0, 0, v) PROVE Longest(s, t) = v
<1> DEFINE S == {Cardinality(M) : M \in Matchings(s, t)}
<1>1. \A M \in Matchings(s, t) : Beyond(M, 0, 0) /\ Cardinality(M) \in Nat
  <2> TAKE M \in Matchings(s, t)
  <2>1. Cardinality(M) \in Nat /\ \A p \in M : p[1] \in 1..Len(s) /\ p[2] \in 1..Len(t)
    BY MatchingsFinite
  <2>2. \A x \in 1..Len(s) : x > 0
    BY DEF Texts
  <2>3. \A x \in 1..Len(t) : x > 0
    BY DEF Texts
  <2> QED BY <2>1, <2>2, <2>3 DEF Beyond
<1>2. v \in Nat /\ v \in S /\ \A x \in S : x \in Nat /\ x <= v
  BY <1>1 DEF Best
<1> HIDE DEF S
<1>3. \A x \in S : v >= x
  BY <1>2
<1>4. \A y \in S : (\A x \in S : y >= x) => y = v
  BY <1>2
<1>5. Max(S) = v
  BY <1>2, <1>3, <1>4 DEF Max
<1> QED BY <1>5 DEF Longest, S

\* What a comparison keeps of two texts of any length is the most they have in common, unless it
\* gives up; then everything is new (review_cycle.rs, diff_added_removed).
THEOREM DiffIsLeast ==
  ASSUME NEW s \in Texts, NEW t \in Texts
  PROVE  LET d == DiffAddedRemoved(s, t)
         IN  IF Len(s) * Len(t) > CellLimit THEN d.removed = Len(s) /\ d.added = DOMAIN t
             ELSE Len(s) - d.removed = Longest(s, t) /\ Len(t) - Cardinality(d.added) = Longest(s, t)
<1> DEFINE d == DiffAddedRemoved(s, t)
           tooLong == Len(s) * Len(t) > CellLimit
<1>1. CASE tooLong
  <2>1. d = [added |-> DOMAIN t, removed |-> Len(s)]
    BY <1>1 DEF DiffAddedRemoved
  <2> QED BY <1>1, <2>1
<1>2. CASE ~tooLong
  <2>1. d = Walk(s, t)
    BY <1>2 DEF DiffAddedRemoved
  <2>2. PICK walk : /\ Walk(s, t) = walk[<<0, 0>>]
                    /\ \A i \in 0..Len(s), j \in 0..Len(t) : walk[<<i, j>>] = StepAt(walk, Common(s, t), s, t, i, j)
    BY WalkIs
  <2> DEFINE v == Common(s, t)[<<0, 0>>]
  <2>3. Len(s) \in Nat /\ Len(t) \in Nat /\ 0 \in 0..Len(s) /\ 0 \in 0..Len(t)
    BY DEF Texts
  <2>4. Kept(s, t, 0, 0, d, v)
    BY <2>1, <2>2, <2>3, WalkKeeps
  <2>5. Best(s, t, 0, 0, v)
    BY <2>3, CommonIsBest
  <2>6. v = Longest(s, t) /\ v \in Nat
    BY <2>5, BestIsLongest DEF Best
  <2> HIDE DEF d, v
  <2>7. d.removed \in Nat /\ d.removed + v = Len(s) /\ d.added \in SUBSET (1..Len(t)) /\ Cardinality(d.added) + v = Len(t)
    BY <2>3, <2>4 DEF Kept
  <2>8. IsFiniteSet(1..Len(t))
    BY <2>3, FS_Interval
  <2>9. Cardinality(d.added) \in Nat
    BY <2>7, <2>8, FS_Subset, FS_CardinalityType
  <2>10. Len(s) - d.removed = v /\ Len(t) - Cardinality(d.added) = v
    BY ONLY <2>3, <2>6, <2>7, <2>9
  <2> QED BY <1>2, <2>6, <2>10 DEF d
<1> HIDE DEF d, tooLong
<1> QED BY <1>1, <1>2 DEF d, tooLong

LEMMA DiffsKeep == DiffsLeast
<1> SUFFICES ASSUME NEW s \in Lists1, NEW t \in Lists1
             PROVE  LET d == DiffAddedRemoved(s, t)
                    IN  IF Len(s) * Len(t) > CellLimit THEN d.removed = Len(s) /\ d.added = DOMAIN t
                        ELSE Len(s) - d.removed = Longest(s, t) /\ Len(t) - Cardinality(d.added) = Longest(s, t)
  BY DEF DiffsLeast
<1>1. \A c \in Lists1 : c \in Texts
  <2> SUFFICES ASSUME NEW k \in 0..LongestDiff, NEW c \in [1..k -> Lines] PROVE c \in Seq(Lines)
    BY DEF Lists1, Texts
  <2>1. k \in Nat
    BY ReviewAssumption
  <2> QED BY <2>1
<1>2. s \in Texts /\ t \in Texts
  BY <1>1
<1> QED BY <1>2, DiffIsLeast

(***************************************************************************)
(* ProposalGate                                                            *)
(***************************************************************************)

USE CallersAssumption, WritesAssumption

LEMMA SomeProposalIsOne == SomeProposal \in Proposals
BY DEF SomeProposal

\* A call on a proposal, until it is over, holds the copy that it loaded.
HasCopy == \A c \in Callers : at[c] \in {"loaded", "scanned"} /\ kind[c] # "commit" => mine[c] # None
Typed == TypeOK /\ HasCopy

LEMMA TypedInit == Init => Typed
BY SomeProposalIsOne DEF Init, Typed, HasCopy, TypeOK, Contents, Places, Kinds

CallsTyped ==
  /\ at \in [Callers -> Places] /\ kind \in [Callers -> Kinds] /\ id \in [Callers -> Proposals]
  /\ mine \in [Callers -> Proposal \cup {None}] /\ snap \in [Callers -> Contents]
  /\ waived \in [Callers -> BOOLEAN] /\ crowded \subseteq Callers /\ HasCopy

LEMMA LeaveTyped ==
  ASSUME CallsTyped, NEW c \in Callers, Leave(c) PROVE CallsTyped'
BY SomeProposalIsOne DEF CallsTyped, Leave, HasCopy, Contents, Places, Kinds

LEMMA SaveTyped ==
  ASSUME TypeOK, NEW c \in Callers, NEW r \in Proposal, Save(c, r)
  PROVE  file' \in [Proposals -> Proposal \cup {None}]
BY DEF TypeOK, Save

LEMMA TypedStep == Typed /\ [Next]_vars => Typed'
  <1>. SUFFICES ASSUME Typed, [Next]_vars PROVE Typed'
    OBVIOUS
  <1>. USE SomeProposalIsOne DEF Typed, HasCopy, TypeOK, Stays, Crowd, Contents, Places, Kinds, Proposal
  <1>1. CASE Edit
    BY <1>1 DEF Edit, calls, history
  <1>2. CASE Begin \/ Rollback
    BY <1>2 DEF Begin, Rollback, calls, history
  <1>3. ASSUME NEW p \in Proposals, Open(p) PROVE Typed'
    BY <1>3 DEF Open, disk, calls, history
  <1>4. ASSUME NEW c \in Callers, Send(c) PROVE Typed'
    BY <1>4 DEF Send, disk, history
  <1>5. ASSUME NEW c \in Callers, Scan(c) PROVE Typed'
    BY <1>5 DEF Scan, disk, history
  <1>6. ASSUME NEW c \in Callers, Reject(c) PROVE Typed'
    BY <1>6 DEF Reject, Save, Leave, disk, history
  <1>7. ASSUME NEW c \in Callers, RunGate(c) PROVE Typed'
    <2>1. CallsTyped'
      BY <1>7, LeaveTyped DEF RunGate, CallsTyped
    <2>2. PICK ok \in BOOLEAN :
            /\ Save(c, [mine[c] EXCEPT !.passed = ok, !.gated = snap[c],
                                       !.status = IF ok THEN "gated" ELSE "open"])
            /\ gates' = IF ok THEN gates \cup {<<id[c], snap[c]>>} ELSE gates
      BY <1>7 DEF RunGate
    <2>3. mine[c] \in Proposal /\ id[c] \in Proposals /\ snap[c] \in Contents
      BY <1>7 DEF RunGate
    <2>4. [mine[c] EXCEPT !.passed = ok, !.gated = snap[c],
                         !.status = IF ok THEN "gated" ELSE "open"] \in Proposal
      BY <2>3
    <2>5. file' \in [Proposals -> Proposal \cup {None}]
      BY <2>2, <2>4, SaveTyped
    <2>6. gates' \subseteq Proposals \X Contents
      BY <2>2, <2>3
    <2>. QED BY <1>7, <2>1, <2>5, <2>6 DEF RunGate, CallsTyped, disk
  <1>8. ASSUME NEW c \in Callers, Approve(c) PROVE Typed'
    <2>1. CallsTyped'
      BY <1>8, LeaveTyped DEF Approve, CallsTyped
    <2>2. mine[c] \in Proposal /\ id[c] \in Proposals /\ snap[c] \in Contents
      BY <1>8 DEF Approve
    <2>3. CASE CanApprove(c)
      <3>1. [mine[c] EXCEPT !.status = "approved", !.approved = snap[c]] \in Proposal
        BY <2>2
      <3>2. file' \in [Proposals -> Proposal \cup {None}]
        BY <1>8, <2>3, <3>1, SaveTyped DEF Approve
      <3>3. approvals' \subseteq Proposals \X Contents /\ seen' \in [Proposals -> Contents \cup {None}]
        BY <1>8, <2>2, <2>3 DEF Approve
      <3>. QED BY <1>8, <2>1, <3>2, <3>3 DEF Approve, CallsTyped, disk
    <2>4. CASE ~CanApprove(c)
      BY <1>8, <2>1, <2>4 DEF Approve, CallsTyped, disk
    <2>. QED BY <2>3, <2>4
  <1>9. ASSUME NEW c \in Callers, Check(c) PROVE Typed'
    <2>1. CASE Goto(c, "checked")
      BY <1>9, <2>1 DEF Check, Goto, disk, history
    <2>2. CASE Leave(c)
      <3>1. CallsTyped'
        BY <2>2, LeaveTyped DEF CallsTyped
      <3>. QED BY <1>9, <3>1 DEF Check, CallsTyped, disk, history
    <2>. QED BY <1>9, <2>1, <2>2 DEF Check
  <1>10. ASSUME NEW c \in Callers, Commit(c) PROVE Typed'
    BY <1>10 DEF Commit, Leave, history
  <1>11. ASSUME NEW c \in Callers, GiveUp(c) PROVE Typed'
    BY <1>11 DEF GiveUp, Leave, disk, history
  <1>12. CASE UNCHANGED vars
    BY <1>12 DEF vars, disk, calls, history
  <1>. QED BY <1>1, <1>2, <1>3, <1>4, <1>5, <1>6, <1>7, <1>8, <1>9, <1>10, <1>11, <1>12 DEF Next

\* The variables keep their types.
THEOREM TypeCorrect == Spec => []TypeOK
<1>1. Typed => TypeOK
  BY DEF Typed
<1>. QED BY <1>1, TypedInit, TypedStep, PTL DEF Spec
-----------------------------------------------------------------------------
\* What a proposal says of snapshots did happen: a gate passed on its gated
\* snapshot if its artifacts passed, and the approved one had gate and approval.
Backed(p, r, passed, given) ==
  r # None =>
    /\ r.passed /\ r.gated # None => <<p, r.gated>> \in passed
    /\ r.approved # None => <<p, r.approved>> \in passed \cap given

AllBacked ==
  /\ \A p \in Proposals : Backed(p, file[p], gates, approvals)
  /\ \A c \in Callers : Backed(id[c], mine[c], gates, approvals)
  /\ CommitsWentThroughTheGate

\* A call that saves a backed proposal and leaves keeps everything backed.
LEMMA SavedBacked ==
  ASSUME Typed, AllBacked, NEW c \in Callers, Leave(c), NEW r,
         file' = [file EXCEPT ![id[c]] = r], Backed(id[c], r, gates', approvals'),
         gates \subseteq gates', approvals \subseteq approvals'
  PROVE  AllBacked'
<1>1. \A p \in Proposals : Backed(p, file'[p], gates', approvals')
  BY DEF AllBacked, Backed, Typed, TypeOK
<1>2. \A d \in Callers : Backed(id'[d], mine'[d], gates', approvals')
  <2>1. \A d \in Callers : d # c => id'[d] = id[d] /\ mine'[d] = mine[d]
    BY DEF Leave, Typed, TypeOK
  <2>2. mine'[c] = None
    BY DEF Leave, Typed, TypeOK
  <2>3. ASSUME NEW d \in Callers PROVE Backed(id'[d], mine'[d], gates', approvals')
    <3>1. Backed(id[d], mine[d], gates, approvals)
      BY DEF AllBacked
    <3>2. CASE d = c
      BY <2>2, <3>2 DEF Backed
    <3>3. CASE d # c
      BY <2>1, <3>1, <3>3 DEF Backed
    <3>. QED BY <3>2, <3>3
  <2>. QED BY <2>3
<1>3. CommitsWentThroughTheGate'
  BY DEF AllBacked, CommitsWentThroughTheGate, GatedCommit, Leave, Typed, TypeOK
<1>. QED BY <1>1, <1>2, <1>3 DEF AllBacked

LEMMA BackedStep == Typed /\ AllBacked /\ [Next]_vars => AllBacked'
  <1>. SUFFICES ASSUME Typed, AllBacked, [Next]_vars PROVE AllBacked'
    OBVIOUS
  <1>. USE DEF AllBacked, Backed, CommitsWentThroughTheGate, GatedCommit
  <1>1. CASE Edit \/ Begin \/ Rollback \/ UNCHANGED vars
    BY <1>1 DEF Edit, Begin, Rollback, vars, calls, history
  <1>2. ASSUME NEW p \in Proposals, Open(p) PROVE AllBacked'
    BY <1>2 DEF Open, calls, history, Typed, TypeOK
  <1>3. ASSUME NEW c \in Callers, Send(c) PROVE AllBacked'
    BY <1>3 DEF Send, history, Typed, TypeOK
  <1>4. ASSUME NEW c \in Callers, Scan(c) PROVE AllBacked'
    BY <1>4 DEF Scan, history, Typed, TypeOK
  <1>5. ASSUME NEW c \in Callers, Reject(c) PROVE AllBacked'
    BY <1>5 DEF Reject, Save, Leave, history, Typed, TypeOK, HasCopy, Proposal
  <1>6. ASSUME NEW c \in Callers, RunGate(c) PROVE AllBacked'
    <2>1. PICK r \in Proposal :
            /\ file' = [file EXCEPT ![id[c]] = r] /\ Backed(id[c], r, gates', approvals')
            /\ gates \subseteq gates' /\ approvals' = approvals
      <3>1. PICK ok \in BOOLEAN :
              /\ Save(c, [mine[c] EXCEPT !.passed = ok, !.gated = snap[c],
                                         !.status = IF ok THEN "gated" ELSE "open"])
              /\ gates' = IF ok THEN gates \cup {<<id[c], snap[c]>>} ELSE gates
        BY <1>6 DEF RunGate
      <3>2. mine[c] \in Proposal /\ snap[c] \in Contents /\ Backed(id[c], mine[c], gates, approvals)
        BY <1>6 DEF RunGate, Typed, TypeOK, HasCopy
      <3> DEFINE r == [mine[c] EXCEPT !.passed = ok, !.gated = snap[c],
                                      !.status = IF ok THEN "gated" ELSE "open"]
      <3>3. /\ r \in Proposal /\ r.passed = ok /\ r.gated = snap[c]
            /\ r.approved = mine[c].approved
        BY <3>2 DEF Proposal
      <3>4. mine[c] # None
        BY <1>6 DEF RunGate, Typed, HasCopy
      <3>5. approvals' = approvals
        BY <1>6 DEF RunGate
      <3>6. Backed(id[c], r, gates', approvals')
        BY <3>1, <3>2, <3>3, <3>4, <3>5
      <3>. HIDE DEF r
      <3>. QED BY <3>1, <3>3, <3>5, <3>6 DEF r, Save
    <2>. QED BY <1>6, <2>1, SavedBacked DEF RunGate
  <1>7. ASSUME NEW c \in Callers, Approve(c) PROVE AllBacked'
    <2>1. CASE CanApprove(c)
      <3> DEFINE r == [mine[c] EXCEPT !.status = "approved", !.approved = snap[c]]
      <3>1. mine[c] \in Proposal /\ mine[c] # None /\ snap[c] \in Contents /\ Backed(id[c], mine[c], gates, approvals)
        BY <1>7 DEF Approve, Typed, TypeOK, HasCopy
      <3>2. /\ r \in Proposal /\ r.passed = mine[c].passed /\ r.gated = mine[c].gated
            /\ r.approved = snap[c]
        BY <3>1 DEF Proposal
      <3>3. snap[c] # None
        BY <3>1 DEF Contents
      <3>4. <<id[c], snap[c]>> \in gates
        BY <2>1, <3>1, <3>3 DEF CanApprove
      <3>5. /\ file' = [file EXCEPT ![id[c]] = r] /\ gates' = gates
            /\ approvals' = approvals \cup {<<id[c], snap[c]>>}
        BY <1>7, <2>1 DEF Approve, Save
      <3>6. Backed(id[c], r, gates', approvals')
        BY <2>1, <3>2, <3>4, <3>5 DEF CanApprove
      <3>7. PICK q \in Proposal : file' = [file EXCEPT ![id[c]] = q] /\ Backed(id[c], q, gates', approvals')
        BY <3>2, <3>5, <3>6
      <3>. QED BY <1>7, <3>5, <3>7, SavedBacked DEF Approve
    <2>2. CASE ~CanApprove(c)
      BY <1>7, <2>2 DEF Approve, Leave, Typed, TypeOK
    <2>. QED BY <2>1, <2>2
  <1>8. ASSUME NEW c \in Callers, Check(c) PROVE AllBacked'
    <2>1. CASE Goto(c, "checked") /\ at[c] = "scanned" /\ Committable(c)
      <3>1. snap[c] \in Contents /\ snap[c] # None /\ id[c] \in Proposals
        BY DEF Typed, TypeOK, Contents
      <3>2. <<id[c], snap[c]>> \in gates \cap approvals
        BY <2>1, <3>1 DEF Committable
      <3>. QED BY <1>8, <2>1, <3>2 DEF Check, Goto, history, Typed, TypeOK
    <2>2. CASE Goto(c, "checked") /\ waived[c]
      BY <1>8, <2>2 DEF Check, Goto, history, Typed, TypeOK
    <2>3. CASE Leave(c)
      BY <1>8, <2>3 DEF Check, Leave, history, Typed, TypeOK
    <2>. QED BY <1>8, <2>1, <2>2, <2>3 DEF Check
  <1>9. ASSUME NEW c \in Callers, Commit(c) PROVE AllBacked'
    BY <1>9 DEF Commit, Leave, history, Typed, TypeOK
  <1>10. ASSUME NEW c \in Callers, GiveUp(c) PROVE AllBacked'
    BY <1>10 DEF GiveUp, Leave, history, Typed, TypeOK
  <1>. QED BY <1>1, <1>2, <1>3, <1>4, <1>5, <1>6, <1>7, <1>8, <1>9, <1>10 DEF Next

\* However calls and edits overlap, a commit that names a proposal gets past the
\* gate only for a snapshot of its own call that a gate and an approval had.
THEOREM GateIsNeeded == Spec => []CommitsWentThroughTheGate
<1>1. Init => AllBacked
  BY DEF Init, AllBacked, Backed, CommitsWentThroughTheGate, GatedCommit
<1>2. AllBacked => CommitsWentThroughTheGate
  BY DEF AllBacked
<1>. QED BY <1>1, <1>2, TypedInit, TypedStep, BackedStep, PTL DEF Spec
-----------------------------------------------------------------------------
\* A call that has seen nothing but its own steps has read what still is so.
Current ==
  \A c \in Callers : (at[c] # "idle" /\ c \notin crowded) =>
    /\ at[c] = "scanned" => snap[c] = work
    /\ GatedCommit(c) =>
         file[id[c]] # None /\ file[id[c]].status = "approved" /\ file[id[c]].approved = work

\* What one call does concerns no other that still counts as undisturbed, and
\* what a caller without a call does concerns none.
LEMMA OthersCrowd ==
  ASSUME Typed, NEW c \in Callers, Stays(c) \/ Leave(c),
         \A d \in Callers \ {c} : at'[d] = at[d]
  PROVE  \A d \in Callers \ {c} : at'[d] # "idle" => d \in crowded'
BY DEF Stays, Crowd, Leave

LEMMA CurrentStep == Typed /\ Current /\ [Next]_vars => Current'
  <1>. SUFFICES ASSUME Typed, Current, [Next]_vars PROVE Current'
    OBVIOUS
  <1>. USE DEF Current, GatedCommit
  <1>1. CASE Edit \/ Begin \/ Rollback
    BY <1>1 DEF Edit, Begin, Rollback, Crowd, calls
  <1>2. ASSUME NEW p \in Proposals, Open(p) PROVE Current'
    BY <1>2 DEF Open, Crowd, calls
  <1>3. ASSUME NEW c \in Callers, Send(c) PROVE Current'
    <2>1. at' = [at EXCEPT ![c] = "loaded"]
      BY <1>3 DEF Send
    <2>2. \A d \in Callers \ {c} : at'[d] # "idle" => d \in crowded'
      BY <1>3, <2>1, OthersCrowd DEF Send, Typed, TypeOK
    <2>. QED BY <2>1, <2>2 DEF Typed, TypeOK
  <1>4. ASSUME NEW c \in Callers, Scan(c) PROVE Current'
    <2>1. at' = [at EXCEPT ![c] = "scanned"] /\ snap' = [snap EXCEPT ![c] = work] /\ work' = work
      BY <1>4 DEF Scan, disk
    <2>2. \A d \in Callers \ {c} : at'[d] # "idle" => d \in crowded'
      BY <1>4, <2>1, OthersCrowd DEF Scan, Typed, TypeOK
    <2>. QED BY <2>1, <2>2 DEF Typed, TypeOK
  <1>5. ASSUME NEW c \in Callers, Leave(c) PROVE Current'
    <2>1. at' = [at EXCEPT ![c] = "idle"]
      BY <1>5 DEF Leave
    <2>2. \A d \in Callers \ {c} : at'[d] # "idle" => d \in crowded'
      BY <1>5, <2>1, OthersCrowd DEF Typed, TypeOK
    <2>. QED BY <2>1, <2>2 DEF Typed, TypeOK
  <1>6. ASSUME NEW c \in Callers, Check(c), Goto(c, "checked") PROVE Current'
    <2>1. /\ at' = [at EXCEPT ![c] = "checked"]
          /\ UNCHANGED <<kind, id, mine, snap, waived, work, file>>
      BY <1>6 DEF Goto, Check, disk
    <2>2. \A d \in Callers \ {c} : at'[d] # "idle" => d \in crowded'
      BY <1>6, <2>1, OthersCrowd DEF Goto, Typed, TypeOK
    <2>3. crowded' = crowded \cup {d \in Callers \ {c} : at[d] # "idle"}
      BY <1>6 DEF Goto, Stays, Crowd
    <2>4. waived[c] \/ (at[c] = "scanned" /\ Committable(c)) \/ Leave(c)
      BY <1>6 DEF Check
    <2>5. CASE waived[c]
      BY <2>1, <2>2, <2>5 DEF Typed, TypeOK
    <2>6. CASE at[c] = "scanned" /\ Committable(c)
      BY <2>1, <2>2, <2>3, <2>6 DEF Committable, Typed, TypeOK
    <2>. QED BY <1>5, <2>4, <2>5, <2>6
  <1>7. ASSUME NEW c \in Callers,
               Reject(c) \/ RunGate(c) \/ Approve(c) \/ Check(c) \/ Commit(c) \/ GiveUp(c)
        PROVE  Current'
    BY <1>5, <1>6, <1>7 DEF Reject, RunGate, Approve, Check, Commit, GiveUp
  <1>8. CASE UNCHANGED vars
    BY <1>8 DEF vars, calls, disk
  <1>. QED BY <1>1, <1>2, <1>3, <1>4, <1>7, <1>8 DEF Next

\* If nothing else happened during the call, the proposal of a gated commit is
\* approved for the workspace as the commit finds it.
THEOREM TurnsKeepApprovals == Spec => CommitsAreApproved
<1>1. Init => Current
  BY DEF Init, Current, GatedCommit
<1>2. Typed /\ Current /\ [Next]_vars => Current'
  BY CurrentStep
<1>3. Current => [\A c \in Callers : Lands(c) /\ c \notin crowded =>
         /\ file[id[c]] # None /\ file[id[c]].status = "approved"
         /\ file[id[c]].approved = work]_vars
  BY DEF Current, Lands, GatedCommit
<1>. QED BY <1>1, <1>2, <1>3, TypedInit, TypedStep, PTL DEF Spec, CommitsAreApproved

\* Types and gate together.
THEOREM ProposalsAreSound == Spec => []ProposalsSound
  BY TypeCorrect, GateIsNeeded, PTL DEF ProposalsSound

-----------------------------------------------------------------------------
(* Watchdog.  A server's tally of edits is never ahead of what was edited,  *)
(* a heart's silence never longer than the history says, and a watchdog     *)
(* that is about to write holds what both said when it looked.              *)

WatchAt == {"sleep", "count", "decide", "write", "reset"}
WatchLooks == [at: WatchAt, looping: SUBSET WatchSymbols, count: Nat, rose: BOOLEAN, beat: Minutes]
WatchTyped ==
  /\ minute \in Minutes /\ beat \in [Watched -> Minutes] /\ lastcount \in [Watched -> Nat]
  /\ tracked \in [Watched -> [WatchSymbols -> SUBSET (Minutes \X Nat)]]
  /\ watch \in [Watched -> WatchLooks] /\ faulty \subseteq WatchSymbols /\ report \in Reports0 \cup {NoReport}
  /\ burst \in [Watched -> SUBSET WatchSymbols] /\ silent \in [Watched -> Nat]
\* Who was edited so often as to be counted is in the history of bursts.
Tallied ==
  \A v \in Watched, u \in WatchSymbols :
    IsFiniteSet(tracked[v][u]) /\ (Cardinality(tracked[v][u]) >= LoopAt => u \in burst[v])
Beats == \A v \in Watched : beat[v] <= minute /\ minute <= beat[v] + silent[v]
\* No watchdog has seen a poisoned symbol, and what one holds was so.
Saw ==
  \A v \in Watched :
    /\ lastcount[v] = 0 /\ watch[v].count = 0 /\ ~watch[v].rose /\ watch[v].looping \subseteq burst[v]
    /\ watch[v].at = "decide" => watch[v].beat <= minute /\ minute <= watch[v].beat + silent[v]
    /\ watch[v].at = "write" => watch[v].looping # {} \/ silent[v] > SilentAfter
WatchInv == WatchTyped /\ Tallied /\ Beats /\ Saw /\ ReportsWhatWas

LEMMA Greatest == ASSUME NEW i \in Nat, NEW j \in Nat PROVE LET m == Max({i, j}) IN m \in Nat /\ m >= i /\ m >= j
<1>1. \E x \in {i, j} : \A y \in {i, j} : x >= y
  <2>1. CASE i >= j
    BY <2>1
  <2>2. CASE ~(i >= j)
    BY <2>2
  <2> QED BY <2>1, <2>2
<1>2. Max({i, j}) \in {i, j} /\ \A y \in {i, j} : Max({i, j}) >= y
  BY <1>1 DEF Max
<1> QED BY <1>2

LEMMA NoneYet == Cardinality({}) = 0 /\ IsFiniteSet({}) /\ ~(0 >= LoopAt) /\ PoisonedCount = 0
  BY FS_EmptySet, WatchAssumption DEF PoisonedCount, NodesAround

LEMMA WatchStarts == WatchInit => WatchInv
<1> SUFFICES ASSUME WatchInit PROVE WatchInv
  OBVIOUS
<1>1. 0 \in Minutes
  BY WatchAssumption DEF Minutes
<1>2. Asleep \in WatchLooks
  BY <1>1 DEF Asleep, WatchLooks, WatchAt
<1>3. WatchTyped
  BY <1>1, <1>2 DEF WatchInit, WatchTyped
<1>4. Tallied
  BY NoneYet DEF WatchInit, Tallied
<1>5. Beats
  BY DEF WatchInit, Beats
<1>6. Saw
  BY DEF WatchInit, Saw, Asleep
<1> QED BY <1>3, <1>4, <1>5, <1>6 DEF WatchInv, WatchInit, ReportsWhatWas

\* An edit leaves a tally of at most one more than is recent.
LEMMA OneMore ==
  ASSUME WatchTyped, Tallied, NEW v \in Watched, NEW u \in WatchSymbols
  PROVE  LET h == tracked[v][u]
         IN  /\ Tracked1(h) \in SUBSET (Minutes \X Nat) /\ IsFiniteSet(Tracked1(h))
             /\ Cardinality(Tracked1(h)) >= LoopAt => Cardinality(Recent(h)) + 1 >= LoopAt
<1> DEFINE h == tracked[v][u]
           r == Recent(h)
           e == Edit1(h)
<1>1. h \in SUBSET (Minutes \X Nat) /\ IsFiniteSet(h) /\ minute \in Minutes
  BY DEF WatchTyped, Tallied
<1>2. r \subseteq h /\ IsFiniteSet(r)
  BY <1>1, FS_Subset DEF Recent
<1>3. e \in Minutes \X Nat
  <2>1. IsFiniteSet({x \in h : x[1] = minute})
    BY <1>1, FS_Subset
  <2>2. Cardinality({x \in h : x[1] = minute}) \in Nat
    BY <2>1, FS_CardinalityType
  <2> QED BY <1>1, <2>2 DEF Edit1
<1>4. Tracked1(h) = r \cup {e}
  BY DEF Tracked1
<1> HIDE DEF h, r, e
<1>5. IsFiniteSet(r \cup {e}) /\ Cardinality(r \cup {e}) \in Nat /\ Cardinality(r) \in Nat
      /\ Cardinality(r \cup {e}) <= Cardinality(r) + 1
  <2>1. IsFiniteSet(r \cup {e}) /\ Cardinality(r \cup {e}) = IF e \in r THEN Cardinality(r) ELSE Cardinality(r) + 1
    BY <1>2, FS_AddElement
  <2>2. Cardinality(r) \in Nat
    BY <1>2, FS_CardinalityType
  <2> QED BY <2>1, <2>2
<1>6. r \cup {e} \in SUBSET (Minutes \X Nat)
  BY <1>1, <1>2, <1>3
<1>7. Cardinality(r \cup {e}) >= LoopAt => Cardinality(r) + 1 >= LoopAt
  BY <1>5, WatchAssumption
<1> QED BY <1>4, <1>5, <1>6, <1>7 DEF h, r

LEMMA CallsServerKeeps == ASSUME WatchInv, NEW v \in Watched, CallsServer(v) PROVE WatchInv'
<1> USE DEF CallsServer
<1>1. beat' \in [Watched -> Minutes] /\ \A w \in Watched : beat'[w] \in {beat[w], minute} /\ silent[w] \in Nat /\ beat[w] \in Minutes
  BY DEF WatchInv, WatchTyped
<1>2. minute \in Nat
  BY WatchAssumption DEF WatchInv, WatchTyped, Minutes
<1>3. WatchTyped'
  BY <1>1 DEF WatchInv, WatchTyped
<1>4. Beats'
  BY <1>1, <1>2 DEF WatchInv, Beats, Minutes
<1>5. Tallied' /\ ReportsWhatWas'
  BY DEF WatchInv, Tallied, ReportsWhatWas
<1>6. Saw'
  BY DEF WatchInv, Saw
<1> QED BY <1>3, <1>4, <1>5, <1>6 DEF WatchInv

LEMMA CallsEditKeeps == ASSUME WatchInv, NEW v \in Watched, NEW u \in WatchSymbols, CallsEdit(v, u) PROVE WatchInv'
<1>1. /\ beat' = [beat EXCEPT ![v] = minute] /\ tracked' = [tracked EXCEPT ![v][u] = Tracked1(@)]
      /\ burst' = IF Cardinality(Recent(tracked[v][u])) + 1 >= LoopAt
                  THEN [burst EXCEPT ![v] = @ \cup {u}] ELSE burst
      /\ UNCHANGED <<minute, lastcount, watch, faulty, report, silent>>
  BY DEF CallsEdit
<1>2. WatchTyped /\ Tallied
  BY DEF WatchInv
<1>3. /\ beat' \in [Watched -> Minutes] /\ \A w \in Watched : beat'[w] \in {beat[w], minute}
      /\ \A w \in Watched : beat[w] \in Nat /\ silent[w] \in Nat
      /\ minute \in Nat
  BY <1>1, <1>2, WatchAssumption DEF WatchTyped, Minutes
<1>4. Beats'
  BY <1>1, <1>3 DEF WatchInv, Beats
<1>5. burst' \in [Watched -> SUBSET WatchSymbols] /\ \A w \in Watched : burst[w] \subseteq burst'[w]
  BY <1>1, <1>2 DEF WatchTyped
<1>6. Saw'
  BY <1>1, <1>5 DEF WatchInv, Saw
<1>7. ReportsWhatWas'
  <2>1. report # NoReport => report.by \in Watched
    BY <1>2 DEF WatchTyped, Reports0
  <2>2. report # NoReport => burst[report.by] \subseteq burst'[report.by]
    BY <2>1, <1>5
  <2> QED BY <2>2, <1>1 DEF WatchInv, ReportsWhatWas
<1>8. /\ Tracked1(tracked[v][u]) \in SUBSET (Minutes \X Nat) /\ IsFiniteSet(Tracked1(tracked[v][u]))
      /\ Cardinality(Tracked1(tracked[v][u])) >= LoopAt => Cardinality(Recent(tracked[v][u])) + 1 >= LoopAt
  BY <1>2, OneMore
<1>9. /\ tracked'[v][u] = Tracked1(tracked[v][u])
      /\ \A w \in Watched, x \in WatchSymbols : <<w, x>> # <<v, u>> => tracked'[w][x] = tracked[w][x]
  BY <1>1, <1>2 DEF WatchTyped
<1>10. WatchTyped'
  <2>1. tracked' \in [Watched -> [WatchSymbols -> SUBSET (Minutes \X Nat)]]
    BY <1>1, <1>2, <1>8 DEF WatchTyped
  <2> QED BY <1>1, <1>2, <1>3, <1>5, <2>1 DEF WatchTyped
<1>11. Tallied'
  <2> SUFFICES ASSUME NEW w \in Watched, NEW x \in WatchSymbols
               PROVE  IsFiniteSet(tracked'[w][x]) /\ (Cardinality(tracked'[w][x]) >= LoopAt => x \in burst'[w])
    BY DEF Tallied
  <2>1. CASE <<w, x>> = <<v, u>>
    <3>1. Cardinality(Recent(tracked[v][u])) + 1 >= LoopAt => u \in burst'[v]
      BY <1>1, <1>2 DEF WatchTyped
    <3> QED BY <2>1, <1>8, <1>9, <3>1
  <2>2. CASE <<w, x>> # <<v, u>>
    BY <2>2, <1>2, <1>5, <1>9 DEF Tallied
  <2> QED BY <2>1, <2>2
<1> QED BY <1>4, <1>6, <1>7, <1>10, <1>11 DEF WatchInv

LEMMA MinutePassesKeeps == ASSUME WatchInv, MinutePasses PROVE WatchInv'
<1>1. /\ minute < MaxMinutes /\ (\A v \in Watched : watch[v].at # "decide") /\ minute' = minute + 1
      /\ silent' = [v \in Watched |-> Max({silent[v], minute' - beat[v]})]
      /\ UNCHANGED <<beat, tracked, lastcount, watch, faulty, report, burst>>
  BY DEF MinutePasses
<1>2. WatchTyped /\ Beats
  BY DEF WatchInv
<1>3. minute \in Nat /\ MaxMinutes \in Nat /\ minute' \in Minutes /\ minute' \in Nat
  BY <1>1, <1>2, WatchAssumption DEF WatchTyped, Minutes
<1>4. \A v \in Watched : beat[v] \in Nat /\ beat[v] <= minute /\ silent[v] \in Nat
  BY <1>2, WatchAssumption DEF WatchTyped, Minutes, Beats
<1>5. \A v \in Watched : silent'[v] \in Nat /\ silent'[v] >= silent[v] /\ silent'[v] >= minute' - beat[v]
  <2> TAKE v \in Watched
  <2>1. minute' - beat[v] \in Nat /\ silent[v] \in Nat
    BY <1>1, <1>3, <1>4
  <2>2. silent'[v] = Max({silent[v], minute' - beat[v]})
    BY <1>1
  <2>3. PICK i \in Nat, j \in Nat : i = silent[v] /\ j = minute' - beat[v]
    BY <2>1
  <2> QED BY <2>2, <2>3, Greatest
<1>6. WatchTyped'
  BY <1>1, <1>2, <1>3, <1>5 DEF WatchTyped
<1>7. Tallied'
  BY <1>1 DEF WatchInv, Tallied
<1>8. Beats'
  BY <1>1, <1>3, <1>4, <1>5 DEF Beats
<1>9. Saw'
  BY <1>1, <1>4, <1>5, WatchAssumption DEF WatchInv, Saw
<1>10. ReportsWhatWas'
  <2>1. report # NoReport => report.by \in Watched
    BY <1>2 DEF WatchTyped, Reports0
  <2>2. report # NoReport => silent'[report.by] >= silent[report.by] /\ silent[report.by] \in Nat /\ silent'[report.by] \in Nat
    BY <2>1, <1>4, <1>5
  <2> QED BY <2>2, <1>1, WatchAssumption DEF WatchInv, ReportsWhatWas
<1> QED BY <1>6, <1>7, <1>8, <1>9, <1>10 DEF WatchInv

\* The watchdog's own steps.
LEMMA LooksKeeps == ASSUME WatchInv, NEW v \in Watched, LooksForLoops(v) PROVE WatchInv'
<1> DEFINE r == [Asleep EXCEPT !.at = "count", !.looping = {u \in WatchSymbols : Counted(tracked[v][u]) >= LoopAt}]
<1>1. watch' = [watch EXCEPT ![v] = r] /\ UNCHANGED <<minute, beat, tracked, lastcount, faulty, report, burst, silent>>
  BY DEF LooksForLoops, WatchBecomes
<1>2. 0 \in Minutes
  BY WatchAssumption DEF Minutes
<1>3. r \in WatchLooks /\ r.at = "count" /\ r.count = 0 /\ ~r.rose /\ r.looping = {u \in WatchSymbols : Counted(tracked[v][u]) >= LoopAt}
  BY <1>2 DEF Asleep, WatchLooks, WatchAt
<1>4. r.looping \subseteq burst[v]
  BY <1>3 DEF WatchInv, Tallied, Counted
<1> HIDE DEF r
<1>5. watch' \in [Watched -> WatchLooks] /\ watch'[v] = r /\ \A w \in Watched \ {v} : watch'[w] = watch[w]
  BY <1>1, <1>3 DEF WatchInv, WatchTyped
<1>6. WatchTyped'
  BY <1>1, <1>5 DEF WatchInv, WatchTyped
<1>7. Tallied' /\ Beats' /\ ReportsWhatWas'
  BY <1>1 DEF WatchInv, Tallied, Beats, ReportsWhatWas
<1>8. Saw'
  BY <1>1, <1>3, <1>4, <1>5 DEF WatchInv, Saw
<1> QED BY <1>6, <1>7, <1>8 DEF WatchInv

LEMMA CountsKeeps == ASSUME WatchInv, NEW v \in Watched, CountsPoisoned(v) PROVE WatchInv'
<1> DEFINE r == [watch[v] EXCEPT !.at = "decide", !.count = PoisonedCount, !.beat = beat[v]]
<1>1. watch' = [watch EXCEPT ![v] = r] /\ UNCHANGED <<minute, beat, tracked, lastcount, faulty, report, burst, silent>>
  BY DEF CountsPoisoned, WatchBecomes
<1>2. watch[v] \in WatchLooks /\ beat[v] \in Minutes
  BY DEF WatchInv, WatchTyped
<1>3. r \in WatchLooks /\ r.at = "decide" /\ r.count = 0 /\ r.rose = watch[v].rose /\ r.looping = watch[v].looping /\ r.beat = beat[v]
  BY <1>2, NoneYet DEF WatchLooks, WatchAt
<1> HIDE DEF r
<1>4. watch' \in [Watched -> WatchLooks] /\ watch'[v] = r /\ \A w \in Watched \ {v} : watch'[w] = watch[w]
  BY <1>1, <1>3 DEF WatchInv, WatchTyped
<1>5. WatchTyped'
  BY <1>1, <1>4 DEF WatchInv, WatchTyped
<1>6. Tallied' /\ Beats' /\ ReportsWhatWas'
  BY <1>1 DEF WatchInv, Tallied, Beats, ReportsWhatWas
<1>7. Saw'
  BY <1>1, <1>3, <1>4 DEF WatchInv, Saw, Beats
<1> QED BY <1>5, <1>6, <1>7 DEF WatchInv

LEMMA DecidesKeeps == ASSUME WatchInv, NEW v \in Watched, Decides(v) PROVE WatchInv'
<1> DEFINE r == IF Silent(v) \/ watch[v].looping # {} THEN [watch[v] EXCEPT !.at = "write", !.rose = FALSE] ELSE Asleep
<1>1. watch[v] \in WatchLooks /\ watch[v].count = 0 /\ lastcount[v] = 0 /\ Asleep \in WatchLooks
  <2>1. 0 \in Minutes
    BY WatchAssumption DEF Minutes
  <2> QED BY <2>1 DEF WatchInv, WatchTyped, Saw, Asleep, WatchLooks, WatchAt
<1>2. /\ watch[v].at = "decide" /\ watch' = [watch EXCEPT ![v] = r] /\ lastcount' = [lastcount EXCEPT ![v] = 0]
      /\ UNCHANGED <<minute, beat, tracked, faulty, report, burst, silent>>
  <2>1. (watch[v].count > lastcount[v]) = FALSE
    BY <1>1
  <2> QED BY <1>1, <2>1 DEF Decides, WatchBecomes, Watches
<1>3. /\ r \in WatchLooks /\ r.count = 0 /\ ~r.rose /\ r.at # "decide" /\ r.looping \subseteq burst[v]
      /\ r.at = "write" => r.looping = watch[v].looping /\ (Silent(v) \/ watch[v].looping # {})
  <2>1. CASE Silent(v) \/ watch[v].looping # {}
    <3>1. r = [watch[v] EXCEPT !.at = "write", !.rose = FALSE]
      BY <2>1
    <3> HIDE DEF r
    <3> QED BY <1>1, <2>1, <3>1 DEF WatchLooks, WatchAt, WatchInv, Saw
  <2>2. CASE ~(Silent(v) \/ watch[v].looping # {})
    <3>1. r = Asleep
      BY <2>2
    <3> HIDE DEF r
    <3> QED BY <1>1, <3>1 DEF Asleep
  <2> QED BY <2>1, <2>2
<1>4. Silent(v) => silent[v] > SilentAfter
  <2>1. watch[v].beat \in Minutes /\ minute \in Minutes /\ silent[v] \in Nat
    BY <1>1 DEF WatchInv, WatchTyped, WatchLooks
  <2>2. watch[v].beat <= minute /\ minute <= watch[v].beat + silent[v]
    BY <1>2 DEF WatchInv, Saw
  <2> QED BY <2>1, <2>2, WatchAssumption DEF Silent, Minutes
<1> HIDE DEF r
<1>5. watch' \in [Watched -> WatchLooks] /\ watch'[v] = r /\ \A w \in Watched \ {v} : watch'[w] = watch[w]
  BY <1>2, <1>3 DEF WatchInv, WatchTyped
<1>6. lastcount' \in [Watched -> Nat] /\ \A w \in Watched : lastcount'[w] = 0
  BY <1>2 DEF WatchInv, WatchTyped, Saw
<1>7. WatchTyped'
  BY <1>2, <1>5, <1>6 DEF WatchInv, WatchTyped
<1>8. Tallied' /\ Beats' /\ ReportsWhatWas'
  BY <1>2 DEF WatchInv, Tallied, Beats, ReportsWhatWas
<1>9. Saw'
  BY <1>2, <1>3, <1>4, <1>5, <1>6 DEF WatchInv, Saw
<1> QED BY <1>7, <1>8, <1>9 DEF WatchInv

LEMMA WritesKeeps == ASSUME WatchInv, NEW v \in Watched, WritesReport(v) PROVE WatchInv'
<1> DEFINE r == [watch[v] EXCEPT !.at = "reset"]
           p == [by |-> v, status |-> Status(watch[v]), looping |-> watch[v].looping]
<1>1. /\ watch[v] \in WatchLooks /\ ~watch[v].rose /\ watch[v].looping \subseteq burst[v]
      /\ watch[v].at = "write" => watch[v].looping # {} \/ silent[v] > SilentAfter
  BY DEF WatchInv, WatchTyped, Saw
<1>2. /\ watch[v].at = "write" /\ watch' = [watch EXCEPT ![v] = r] /\ report' = p
      /\ UNCHANGED <<minute, beat, tracked, lastcount, faulty, burst, silent>>
  BY <1>1 DEF WritesReport, WatchBecomes, Watches
<1>3. /\ r \in WatchLooks /\ r.at = "reset" /\ r.count = watch[v].count /\ r.rose = watch[v].rose /\ r.looping = watch[v].looping
  BY <1>1 DEF WatchLooks, WatchAt
<1>4. /\ p \in Reports0 /\ p.by = v /\ p.looping = watch[v].looping
      /\ p.status = IF watch[v].looping # {} THEN "looping" ELSE "stagnation"
  BY <1>1 DEF WatchLooks, Reports0, Status
<1> HIDE DEF r, p
<1>5. watch' \in [Watched -> WatchLooks] /\ watch'[v] = r /\ \A w \in Watched \ {v} : watch'[w] = watch[w]
  BY <1>2, <1>3 DEF WatchInv, WatchTyped
<1>6. WatchTyped'
  BY <1>2, <1>4, <1>5 DEF WatchInv, WatchTyped
<1>7. Tallied' /\ Beats'
  BY <1>2 DEF WatchInv, Tallied, Beats
<1>8. Saw'
  BY <1>2, <1>3, <1>5 DEF WatchInv, Saw
<1>9. ReportsWhatWas'
  BY <1>1, <1>2, <1>4 DEF ReportsWhatWas
<1> QED BY <1>6, <1>7, <1>8, <1>9 DEF WatchInv

LEMMA ResetsKeeps == ASSUME WatchInv, NEW v \in Watched, ResetsHeart(v) \/ Restarts1(v) PROVE WatchInv'
<1>1. /\ watch' = [watch EXCEPT ![v] = Asleep] /\ beat' = [beat EXCEPT ![v] = minute]
      /\ tracked' \in {tracked, [tracked EXCEPT ![v] = [u \in WatchSymbols |-> {}]]}
      /\ lastcount' \in {lastcount, [lastcount EXCEPT ![v] = 0]}
      /\ UNCHANGED <<minute, faulty, report, burst, silent>>
  BY DEF ResetsHeart, Restarts1, WatchBecomes
<1>2. WatchTyped /\ Asleep \in WatchLooks
  <2>1. 0 \in Minutes
    BY WatchAssumption DEF Minutes
  <2> QED BY <2>1 DEF WatchInv, Asleep, WatchLooks, WatchAt
<1>3. watch' \in [Watched -> WatchLooks] /\ \A w \in Watched : watch'[w] \in {watch[w], Asleep}
  BY <1>1, <1>2 DEF WatchTyped
<1>4. lastcount' \in [Watched -> Nat] /\ \A w \in Watched : lastcount'[w] = 0
  BY <1>1, <1>2 DEF WatchInv, WatchTyped, Saw
<1>5. /\ tracked' \in [Watched -> [WatchSymbols -> SUBSET (Minutes \X Nat)]]
      /\ \A w \in Watched, u \in WatchSymbols : tracked'[w][u] \in {tracked[w][u], {}}
  BY <1>1, <1>2 DEF WatchTyped
<1>6. /\ beat' \in [Watched -> Minutes] /\ \A w \in Watched : beat'[w] \in {beat[w], minute}
      /\ \A w \in Watched : beat[w] \in Nat /\ silent[w] \in Nat
      /\ minute \in Nat
  BY <1>1, <1>2, WatchAssumption DEF WatchTyped, Minutes
<1>7. WatchTyped'
  BY <1>1, <1>2, <1>3, <1>4, <1>5, <1>6 DEF WatchTyped
<1>8. Beats'
  BY <1>1, <1>6 DEF WatchInv, Beats
<1>9. Tallied'
  BY <1>1, <1>5, NoneYet DEF WatchInv, Tallied
<1>10. Saw'
  BY <1>1, <1>3, <1>4 DEF WatchInv, Saw, Asleep
<1>11. ReportsWhatWas'
  BY <1>1 DEF WatchInv, ReportsWhatWas
<1> QED BY <1>7, <1>8, <1>9, <1>10, <1>11 DEF WatchInv

\* Faults come and go without the watchdog; a person may clear them and its report.
LEMMA FaultsKeep ==
  ASSUME WatchInv, (\E u \in WatchSymbols : BuildMarks(u) \/ IndexUnmarks(u))
  PROVE  WatchInv'
<1>1. faulty' \subseteq WatchSymbols /\ UNCHANGED <<minute, beat, tracked, lastcount, watch, report, burst, silent>>
  BY DEF WatchInv, WatchTyped, BuildMarks, IndexUnmarks
<1> QED BY <1>1 DEF WatchInv, WatchTyped, Tallied, Beats, Saw, ReportsWhatWas

LEMMA ClearsKeeps == ASSUME WatchInv, NEW v \in Watched, ClearsFaults(v) PROVE WatchInv'
<1>1. /\ report' = NoReport /\ beat' = [beat EXCEPT ![v] = minute]
      /\ UNCHANGED <<minute, tracked, lastcount, watch, faulty, burst, silent>>
  BY DEF ClearsFaults
<1>2. /\ beat' \in [Watched -> Minutes] /\ \A w \in Watched : beat'[w] \in {beat[w], minute}
      /\ \A w \in Watched : beat[w] \in Nat /\ silent[w] \in Nat
      /\ minute \in Nat
  BY <1>1, WatchAssumption DEF WatchInv, WatchTyped, Minutes
<1>3. WatchTyped'
  BY <1>1, <1>2 DEF WatchInv, WatchTyped
<1>4. Beats'
  BY <1>1, <1>2 DEF WatchInv, Beats
<1>5. Tallied' /\ Saw' /\ ReportsWhatWas'
  BY <1>1 DEF WatchInv, Tallied, Saw, ReportsWhatWas
<1> QED BY <1>3, <1>4, <1>5 DEF WatchInv

LEMMA WatchSteps == ASSUME WatchInv, [WatchNext]_watchVars PROVE WatchInv'
<1>1. CASE UNCHANGED watchVars
  BY <1>1 DEF watchVars, WatchInv, WatchTyped, Tallied, Beats, Saw, ReportsWhatWas
<1>2. CASE WatchNext
  BY <1>2, MinutePassesKeeps, FaultsKeep, CallsServerKeeps, CallsEditKeeps, ClearsKeeps, ResetsKeeps,
     LooksKeeps, CountsKeeps, DecidesKeeps, WritesKeeps DEF WatchNext
<1> QED BY <1>1, <1>2

LEMMA WatchSound == WatchInv => WatchKeeps
<1> SUFFICES ASSUME WatchInv PROVE WatchTypeOK /\ ReportsWhatWas
  BY DEF WatchKeeps
<1>1. \A v \in Watched : watch[v].at \in WatchAt
  BY DEF WatchInv, WatchTyped, WatchLooks
<1> QED BY <1>1 DEF WatchInv, WatchTyped, WatchTypeOK, WatchAt

\* What a watchdog reports was so, for any servers, symbols, thresholds and bounds: a symbol that
\* loops was edited that often within the window, a silent agent was silent that long, and no rise
\* of faults is ever reported, as the graph is asked about none (watchdog.rs:34-189).
THEOREM WatchSafe == WatchSpec => []WatchKeeps
<1>1. WatchInit => WatchInv
  BY WatchStarts
<1>2. WatchInv /\ [WatchNext]_watchVars => WatchInv'
  BY WatchSteps
<1>3. WatchInv => WatchKeeps
  BY WatchSound
<1> QED BY <1>1, <1>2, <1>3, PTL DEF WatchSpec

-----------------------------------------------------------------------------
(* Side by side                                                            *)

\* The part that is looked at keeps its own invariant.
ReportsInv == (part = "review" => ReviewInv) /\ (part = "watchdog" => WatchInv)
allVars == <<part, vars, reviewVars, watchVars, refactorVars>>

LEMMA ReportsStep == ReportsInv /\ [MCNext]_allVars => ReportsInv'
<1> SUFFICES ASSUME ReportsInv, [MCNext]_allVars PROVE ReportsInv'
  OBVIOUS
<1>1. part' = part
  BY DEF MCNext, allVars
<1>2. CASE part = "review"
  <2>1. [ReviewNext]_reviewVars
    BY <1>2 DEF MCNext, allVars
  <2>2. ReviewInv'
    BY <1>2, <2>1, ReviewSteps DEF ReportsInv
  <2> QED BY <1>1, <1>2, <2>2 DEF ReportsInv
<1>3. CASE part = "watchdog"
  <2>1. [WatchNext]_watchVars
    BY <1>3 DEF MCNext, allVars
  <2>2. WatchInv'
    BY <1>3, <2>1, WatchSteps DEF ReportsInv
  <2> QED BY <1>1, <1>3, <2>2 DEF ReportsInv
<1>4. CASE part \notin {"review", "watchdog"}
  BY <1>1, <1>4 DEF ReportsInv
<1> QED BY <1>2, <1>3, <1>4

\* What the run `proposal` looks at beside the gate holds for any calls, servers, files, symbols
\* and texts: reports of reviews and of watchdogs say what was so, and comparisons keep the most
\* that two texts have in common (review_cycle.rs, watchdog.rs).
THEOREM ReportsSafe == MCSpec => []ReportsKeep
<1>1. MCInit => ReportsInv
  BY ReviewStart, WatchStarts DEF MCInit, ReportsInv
<1>2. ReportsInv => ReportsKeep
  BY ReviewInvKeeps, DiffsKeep, WatchSound DEF ReportsInv, ReportsKeep, ReviewKeeps
<1> QED BY <1>1, <1>2, ReportsStep, PTL DEF MCSpec, allVars
=============================================================================
