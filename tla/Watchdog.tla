------------------------------- MODULE Watchdog -------------------------------
(***************************************************************************)
(* The watchdog of each server (watchdog.rs) and the faults on record.     *)
(* Once a minute it looks for symbols that are edited over and over, for a *)
(* rise of the poisoned symbols and for a silent agent, and writes a       *)
(* report that all servers share.  Calls, builds, indexing and a person    *)
(* who clears the faults come in between.                                  *)
(***************************************************************************)
EXTENDS Naturals, FiniteSets, FiniteSetsExt

CONSTANTS Watched, WatchSymbols, NoReport, \* servers; symbols; no report
          LoopAt, LoopWindow, SilentAfter, \* 5 edits, 5 and 20 minutes
          MaxMinutes, MaxTracked, MaxFaults  \* bounds

ASSUME WatchAssumption == MaxMinutes \in Nat /\ LoopAt \in Nat \ {0} /\ LoopWindow \in Nat \ {0} /\ SilentAfter \in Nat

VARIABLES minute, beat,  \* the clock; last_heartbeat of each server
          tracked,       \* edit_history: of each symbol, the edits, each a minute and its number in it
          lastcount,     \* last_poisoned_count
          watch,         \* each watchdog's step, what it saw, the edits it has seen in a row
          faulty,        \* symbols with a fault_id in the index
          report,        \* watchdog_report.md
          burst,         \* history: symbols edited LoopAt times within LoopWindow
          silent,        \* history: the longest that each server has gone without a call
          trackings, faultings

watchVars == <<minute, beat, tracked, lastcount, watch, faulty, report, burst, silent, trackings, faultings>>
Minutes == 0..MaxMinutes
Asleep == [at |-> "sleep", looping |-> {}, count |-> 0, rose |-> FALSE, beat |-> 0]
Reports0 == [by: Watched, status: {"regression", "looping", "stagnation"}, looping: SUBSET WatchSymbols]
WatchTypeOK ==
  /\ minute \in Minutes /\ beat \in [Watched -> Minutes] /\ lastcount \in [Watched -> Nat]
  /\ tracked \in [Watched -> [WatchSymbols -> SUBSET (Minutes \X Nat)]]
  /\ \A v \in Watched : watch[v].at \in {"sleep", "count", "decide", "write", "reset"}
  /\ faulty \subseteq WatchSymbols /\ report \in Reports0 \cup {NoReport}
WatchInit ==
  /\ minute = 0 /\ beat = [v \in Watched |-> 0] /\ lastcount = [v \in Watched |-> 0]
  /\ tracked = [v \in Watched |-> [u \in WatchSymbols |-> {}]]
  /\ watch = [v \in Watched |-> Asleep] /\ faulty = {} /\ report = NoReport
  /\ burst = [v \in Watched |-> {}] /\ silent = [v \in Watched |-> 0] /\ trackings = 0 /\ faultings = 0

Counted(h) == Cardinality(h)
Edit1(h) == <<minute, Cardinality({e \in h : e[1] = minute})>>
\* Mutant: the old ones stay.
TrackedAll(h) == h \cup {Edit1(h)}
\* track_edit: the edit, and of that symbol's others those of the last minutes.
Recent(h) == {e \in h : e[1] + LoopWindow > minute}
Tracked1(h) == Recent(h) \cup {Edit1(h)}
\* A call of a server, an edit of u or another, sets its heart beating.
CallsServer(v) ==
  /\ beat' = [beat EXCEPT ![v] = minute]
  /\ UNCHANGED <<minute, tracked, lastcount, watch, faulty, report, burst, silent, trackings, faultings>>
CallsEdit(v, u) ==
  /\ trackings < MaxTracked /\ trackings' = trackings + 1 /\ beat' = [beat EXCEPT ![v] = minute]
  /\ tracked' = [tracked EXCEPT ![v][u] = Tracked1(@)]
  /\ burst' = IF Cardinality(Recent(tracked[v][u])) + 1 >= LoopAt
              THEN [burst EXCEPT ![v] = @ \cup {u}] ELSE burst
  /\ UNCHANGED <<minute, lastcount, watch, faulty, report, silent, faultings>>
\* No minute passes between the look at the heart and the decision.
MinutePasses ==
  /\ minute < MaxMinutes /\ (\A v \in Watched : watch[v].at # "decide") /\ minute' = minute + 1
  /\ silent' = [v \in Watched |-> Max({silent[v], minute' - beat[v]})]
  /\ UNCHANGED <<beat, tracked, lastcount, watch, faulty, report, burst, trackings, faultings>>
-----------------------------------------------------------------------------
Watches(v, at) == watch[v].at = at
WatchBecomes(v, r) == watch' = [watch EXCEPT ![v] = r]
LooksForLoops(v) ==
  /\ Watches(v, "sleep")
  /\ WatchBecomes(v, [Asleep EXCEPT !.at = "count", !.looping = {u \in WatchSymbols : Counted(tracked[v][u]) >= LoopAt}])
  /\ UNCHANGED <<minute, beat, tracked, lastcount, faulty, report, burst, silent, trackings, faultings>>
\* The graph is asked about no symbol and answers with none; of those that it would
\* answer with, every one on record has a fault_state, null or not.
NodesAround(roots) == roots
PoisonedCount == Cardinality(NodesAround({}))
CountsPoisoned(v) ==
  /\ Watches(v, "count")
  /\ WatchBecomes(v, [watch[v] EXCEPT !.at = "decide", !.count = PoisonedCount, !.beat = beat[v]])
  /\ UNCHANGED <<minute, beat, tracked, lastcount, faulty, report, burst, silent, trackings, faultings>>
Silent(v) == minute - watch[v].beat > SilentAfter
Decides(v) ==
  LET rose == watch[v].count > lastcount[v]
  IN  /\ Watches(v, "decide") /\ lastcount' = [lastcount EXCEPT ![v] = watch[v].count]
      /\ WatchBecomes(v, IF Silent(v) \/ rose \/ watch[v].looping # {}
                         THEN [watch[v] EXCEPT !.at = "write", !.rose = rose] ELSE Asleep)
      /\ UNCHANGED <<minute, beat, tracked, faulty, report, burst, silent, trackings, faultings>>
Status(w) == IF w.rose THEN "regression" ELSE IF w.looping # {} THEN "looping" ELSE "stagnation"
WritesReport(v) ==
  /\ Watches(v, "write") /\ report' = [by |-> v, status |-> Status(watch[v]), looping |-> watch[v].looping]
  /\ WatchBecomes(v, IF watch[v].rose THEN Asleep ELSE [watch[v] EXCEPT !.at = "reset"])
  /\ UNCHANGED <<minute, beat, tracked, lastcount, faulty, burst, silent, trackings, faultings>>
\* The heart beats again after a report, of whatever but a regression.
ResetsHeart(v) ==
  /\ Watches(v, "reset") /\ WatchBecomes(v, Asleep) /\ beat' = [beat EXCEPT ![v] = minute]
  /\ UNCHANGED <<minute, tracked, lastcount, faulty, report, burst, silent, trackings, faultings>>
-----------------------------------------------------------------------------
\* A failed build marks the symbol of each diagnostic; a commit of the index unmarks.
BuildMarks(u) ==
  /\ faultings < MaxFaults /\ faultings' = faultings + 1 /\ faulty' = faulty \cup {u}
  /\ UNCHANGED <<minute, beat, tracked, lastcount, watch, report, burst, silent, trackings>>
IndexUnmarks(u) ==
  /\ u \in faulty /\ faulty' = faulty \ {u}
  /\ UNCHANGED <<minute, beat, tracked, lastcount, watch, report, burst, silent, trackings, faultings>>
\* clear_faults removes the report and clears the faults of a graph that has none.
ClearsFaults(v) ==
  /\ report # NoReport /\ report' = NoReport /\ beat' = [beat EXCEPT ![v] = minute]
  /\ UNCHANGED <<minute, tracked, lastcount, watch, faulty, burst, silent, trackings, faultings>>
Restarts1(v) ==
  /\ watch' = [watch EXCEPT ![v] = Asleep] /\ lastcount' = [lastcount EXCEPT ![v] = 0]
  /\ tracked' = [tracked EXCEPT ![v] = [u \in WatchSymbols |-> {}]]
  /\ beat' = [beat EXCEPT ![v] = minute]
  /\ UNCHANGED <<minute, faulty, report, burst, silent, trackings, faultings>>
WatchNext ==
  \/ MinutePasses \/ \E u \in WatchSymbols : BuildMarks(u) \/ IndexUnmarks(u)
  \/ \E v \in Watched :
       \/ CallsServer(v) \/ (\E u \in WatchSymbols : CallsEdit(v, u)) \/ ClearsFaults(v) \/ Restarts1(v)
       \/ LooksForLoops(v) \/ CountsPoisoned(v) \/ Decides(v) \/ WritesReport(v) \/ ResetsHeart(v)
WatchSpec == WatchInit /\ [][WatchNext]_watchVars
-----------------------------------------------------------------------------
(* Properties                                                              *)

\* Who is said to loop has edited that symbol often within the window, on the same
\* server since it started; who is said to be silent has been, so long; nobody is said to
\* have added faults, as the watchdog sees none.
ReportsWhatWas ==
  report # NoReport =>
    /\ report.status # "regression" /\ (report.status = "looping" <=> report.looping # {})
    /\ report.looping \subseteq burst[report.by]
    /\ report.status = "stagnation" => silent[report.by] > SilentAfter
\* What a watchdog keeps, however calls, minutes and servers interleave.
WatchKeeps == WatchTypeOK /\ ReportsWhatWas
=============================================================================
