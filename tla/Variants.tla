----------------------------- MODULE Variants -----------------------------
(***************************************************************************)
(* Plan sets and their variants (variants.rs and the handlers of           *)
(* context.rs): a variant is simulated in a copy of the workspace,         *)
(* compared, reviewed and promoted into the transaction.  Each call loads  *)
(* a record, works on its copy and saves that whole; nothing is locked, so *)
(* the save of a slow call may put back what it loaded.  Retention removes *)
(* old plan sets and old workspaces.  Who may call is Collaboration's      *)
(* matter.  Contents of workspaces are numbers: the simulation they come   *)
(* from.                                                                   *)
(***************************************************************************)
EXTENDS Naturals, FiniteSets

CONSTANTS
  Sets, Vars,                \* ids; those of sets are naturals, which order ties
  MaxSets, RetainSets,       \* max_plan_sets, retain_plan_sets
  MaxVars, RetainWorkspaces, \* max_variants_per_plan_set, retain_variant_workspaces
  Users,
  MaxSims, MaxReviews, MaxOverlap, MaxNow, \* bounds
  NoSet, NoCall

ASSUME VariantsAssumption ==
  /\ Sets \subseteq Nat /\ NoSet \notin Sets /\ Vars # {}
  /\ RetainSets \in Nat \ {0} /\ RetainWorkspaces \in Nat \ {0}
  /\ {MaxSets, MaxVars, MaxSims, MaxReviews, MaxOverlap, MaxNow} \subseteq Nat

VariantStatus    == {"Draft", "Simulated", "Reviewed", "Approved", "Rejected", "Promoted"}
Content   == 0..MaxSims     \* 0: no workspace, or none simulated
PlanSet   == [live: BOOLEAN, at: 0..MaxNow, list: SUBSET Vars, active: SUBSET Vars]
Record    == [live: BOOLEAN, set: Sets \cup {NoSet}, status: VariantStatus, snap: Content,
              reviews: SUBSET (1..MaxReviews)]
RecordKinds == {"simulate", "compare", "review", "promote"}
CallKinds == {"create_set", "create_variant"} \cup RecordKinds
\* Of a review: what stood in the workspace, what compare.json told of, and whether that
\* comparison was made since the last simulation began.
Looks     == [stood: Content, saw: Content, fresh: BOOLEAN]
VCall     == [kind: CallKinds, set: Sets \cup {NoSet}, v: Vars, rec: Record, list: SUBSET Vars,
              ran: BOOLEAN]

VARIABLES
  planset, variant, \* planset files and variant records (meta.json)
  ws,               \* content of each variant's workspace directory
  compared,         \* content that its compare.json tells of
  activeSet,        \* active_plan_set_id of the collaboration
  running,          \* each caller's call
  now, sims, reviewed, overlap, \* clock, simulations, reviews, overlapping calls
  used,             \* ids that were given out
  muddled,          \* history: records and plan sets that calls changed at once
  bad,              \* simulations that failed, died or go on: nothing was recorded of them
  latest,           \* history: each variant's last simulation
  fresh,            \* history: variants that were compared since they were last simulated
  look,             \* history: each variant's last acknowledged review
  acknowledged,     \* history: reviews that were acknowledged, by variant
  promoted            \* history: what was promoted of which variant, and its review

variantVars == <<planset, variant, ws, compared, activeSet, running, now, sims, reviewed, overlap, used,
                 muddled, bad, latest, fresh, look, acknowledged, promoted>>
stored == <<planset, variant, ws, compared, activeSet>>

NoPlanSet == [live |-> FALSE, at |-> 0, list |-> {}, active |-> {}]
NoLook    == [stood |-> 0, saw |-> 0, fresh |-> FALSE]
NoRecord  == [live |-> FALSE, set |-> NoSet, status |-> "Draft", snap |-> 0, reviews |-> {}]

VariantsTypeOK ==
  /\ planset \in [Sets -> PlanSet] /\ variant \in [Vars -> Record]
  /\ \A v \in Vars : ~variant[v].live => variant[v] = NoRecord
  /\ ws \in [Vars -> Content] /\ compared \in [Vars -> Content] /\ activeSet \in Sets \cup {NoSet}
  /\ running \in [Users -> VCall \cup {NoCall}]
  /\ now \in 0..MaxNow /\ sims \in Content /\ reviewed \in 0..MaxReviews
  /\ overlap \in 0..MaxOverlap /\ bad \subseteq Content /\ used \subseteq Sets \cup Vars
  /\ muddled \subseteq Sets \cup Vars
  /\ latest \in [Vars -> Content] /\ fresh \subseteq Vars /\ look \in [Vars -> Looks]
  /\ acknowledged \subseteq Vars \X (1..MaxReviews) /\ promoted \subseteq [of: Vars, held: Content, look: Looks]

VariantsInit ==
  /\ planset = [s \in Sets |-> NoPlanSet] /\ variant = [v \in Vars |-> NoRecord]
  /\ ws = [v \in Vars |-> 0] /\ compared = [v \in Vars |-> 0] /\ activeSet = NoSet
  /\ running = [c \in Users |-> NoCall]
  /\ now = 0 /\ sims = 0 /\ reviewed = 0 /\ overlap = 0 /\ bad = {} /\ used = {} /\ muddled = {}
  /\ latest = [v \in Vars |-> 0] /\ fresh = {} /\ look = [v \in Vars |-> NoLook]
  /\ acknowledged = {} /\ promoted = {}
-----------------------------------------------------------------------------
(* Retention                                                               *)

LiveSets(ps) == {s \in Sets : ps[s].live}
Before(ps, s, t) == ps[s].at < ps[t].at \/ (ps[s].at = ps[t].at /\ s < t)
\* Mutant: the newest go.
NewestSets(ps) ==
  {s \in LiveSets(ps) : Cardinality({t \in LiveSets(ps) : Before(ps, t, s)}) >= RetainSets}
\* prune_plan_sets: the oldest go, as many as there are too many.
OldSets(ps) ==
  {s \in LiveSets(ps) : Cardinality({t \in LiveSets(ps) : Before(ps, s, t)}) >= RetainSets}

\* prune_variant_workspaces: some go; which is decided by modification times.
Surplus(rec, w) ==
  LET There == {v \in Vars : rec[v].live /\ w[v] # 0} IN
  {S \in SUBSET There :
     Cardinality(S) = IF Cardinality(There) > RetainWorkspaces
                      THEN Cardinality(There) - RetainWorkspaces ELSE 0}
\* Mutant: the status is left as it is.
LosesSnapshot(r) == [r EXCEPT !.snap = 0]
\* A simulated variant without its workspace is a draft again.
Unsimulated(r) ==
  [r EXCEPT !.snap = 0, !.status = IF @ = "Simulated" THEN "Draft" ELSE @]

\* Somebody else's call works on it.
InUse(c, x) == \E d \in Users \ {c} :
  /\ running[d] # NoCall
  /\ \/ running[d].kind \in RecordKinds /\ x \in {running[d].v, running[d].rec.set}
     \/ running[d].kind = "create_variant" /\ x = running[d].set
\* Mutant: what the record said stays.
HalfRemoved(r) == [r EXCEPT !.live = FALSE]
Removed(r) == [r EXCEPT !.live = FALSE, !.set = NoSet, !.status = "Draft", !.snap = 0, !.reviews = {}]
\* What a call leaves on disk, after retention.
Retain(c, ps, rec, w) ==
  LET old  == OldSets(ps)
      gone == {v \in Vars : rec[v].set \in old}
      kept == [v \in Vars |-> IF v \in gone THEN Removed(rec[v]) ELSE rec[v]]
      left == [v \in Vars |-> IF v \in gone THEN 0 ELSE w[v]]
  IN  \E S \in Surplus(kept, left) :
        /\ planset' = [s \in Sets |-> IF s \in old THEN NoPlanSet ELSE ps[s]]
        /\ variant' = [v \in Vars |-> IF v \in S THEN Unsimulated(kept[v]) ELSE kept[v]]
        /\ ws' = [v \in Vars |-> IF v \in S THEN 0 ELSE left[v]]
        /\ compared' = [v \in Vars |-> IF v \in gone THEN 0 ELSE compared[v]] /\ fresh' = fresh \ gone
        /\ muddled' = muddled \cup {s \in old : InUse(c, s)}
                         \cup {v \in Vars : InUse(c, v) /\ v \in S \cup gone}
-----------------------------------------------------------------------------
(* Calls                                                                   *)

\* Two calls at once on a record, or two creations in one plan set.
Together(c, call) == \E d \in Users \ {c} :
  /\ running[d] # NoCall
  /\ \/ running[d].kind \in RecordKinds /\ call.kind \in RecordKinds /\ running[d].v = call.v
     \/ running[d].kind = "create_variant" /\ call.kind = "create_variant" /\ running[d].set = call.set
Starts(c, call) ==
  /\ running[c] = NoCall
  /\ muddled' = IF ~Together(c, call) THEN muddled
                ELSE muddled \cup (IF call.kind = "create_variant" THEN {call.set} ELSE {call.v})
  /\ overlap' = IF \A d \in Users : running[d] = NoCall THEN overlap ELSE overlap + 1
  /\ overlap' <= MaxOverlap
  /\ running' = [running EXCEPT ![c] = call]
Doing(c, kind) == running[c] # NoCall /\ running[c].kind = kind
Returns(c) == running' = [running EXCEPT ![c] = NoCall]
Blankly(kind) == [kind |-> kind, set |-> NoSet, v |-> CHOOSE v \in Vars : TRUE, rec |-> NoRecord,
                  list |-> {}, ran |-> FALSE]
OnRecord(kind, v) == [Blankly(kind) EXCEPT !.v = v, !.rec = variant[v]]
past  == <<used, sims, reviewed, latest, look, acknowledged, promoted>>
trace == <<past, bad, fresh>>

\* A new id; the limit is tested on a listing made before.
BeginSet(c) ==
  \E s \in Sets :
    /\ Cardinality(LiveSets(planset)) < MaxSets
    /\ s \notin used /\ used' = used \cup {s}
    /\ Starts(c, [Blankly("create_set") EXCEPT !.set = s])
    /\ UNCHANGED <<stored, now, sims, reviewed, bad, latest, fresh, look, acknowledged, promoted>>
CreateSet(c) ==
  LET s == running[c].set IN
  /\ Doing(c, "create_set") /\ Returns(c) /\ activeSet' = s
  /\ Retain(c, [planset EXCEPT ![s] = [NoPlanSet EXCEPT !.live = TRUE, !.at = now]], variant, ws)
  /\ UNCHANGED <<now, overlap, past, bad>>

\* Mutant: the limit is one off.
BeginVariantOver(c) ==
  \E s \in LiveSets(planset), v \in Vars :
    /\ Cardinality(planset[s].list) <= MaxVars
    /\ v \notin used /\ used' = used \cup {v}
    /\ Starts(c, [Blankly("create_variant") EXCEPT !.set = s, !.v = v, !.list = planset[s].list])
    /\ UNCHANGED <<stored, now, sims, reviewed, bad, latest, fresh, look, acknowledged, promoted>>
BeginVariant(c) ==
  \E s \in LiveSets(planset), v \in Vars :
    /\ Cardinality(planset[s].list) < MaxVars
    /\ v \notin used /\ used' = used \cup {v}
    /\ Starts(c, [Blankly("create_variant") EXCEPT !.set = s, !.v = v, !.list = planset[s].list])
    /\ UNCHANGED <<stored, now, sims, reviewed, bad, latest, fresh, look, acknowledged, promoted>>
\* Writes the record, and the plan set as it was loaded with v in its list.
CreateVariant(c) ==
  LET k == running[c] IN
  /\ Doing(c, "create_variant") /\ Returns(c)
  /\ variant' = [variant EXCEPT ![k.v] = [NoRecord EXCEPT !.live = TRUE, !.set = k.set]]
  /\ planset' = [planset EXCEPT ![k.set].live = TRUE, ![k.set].list = k.list \cup {k.v}]
  /\ UNCHANGED <<ws, compared, activeSet, now, overlap, muddled, trace>>

\* copy_workspace: whatever was in the directory goes.
BeginSimulate(c) ==
  \E v \in Vars :
    /\ variant[v].live /\ sims < MaxSims /\ sims' = sims + 1
    /\ Starts(c, OnRecord("simulate", v))
    /\ ws' = [ws EXCEPT ![v] = sims'] /\ bad' = bad \cup {sims'}
    /\ latest' = [latest EXCEPT ![v] = sims'] /\ fresh' = fresh \ {v}
    /\ UNCHANGED <<planset, variant, compared, activeSet, now, reviewed, look, acknowledged, promoted, used>>
\* Too many bytes: the copy is removed.  The record is not touched.
SimulateTooBig(c) ==
  /\ Doing(c, "simulate") /\ ~running[c].ran /\ Returns(c)
  /\ ws' = [ws EXCEPT ![running[c].v] = 0]
  /\ UNCHANGED <<planset, variant, compared, activeSet, now, overlap, muddled, trace>>
\* Begin, register, execute or commit fails: the copy stays, rolled back, and counts for
\* retention, which this answer is followed by, too.
SimulateFails(c) ==
  /\ Doing(c, "simulate") /\ ~running[c].ran /\ Returns(c)
  /\ Retain(c, planset, variant, ws)
  /\ UNCHANGED <<activeSet, now, overlap, past, bad>>
SimulateRuns(c) ==
  /\ Doing(c, "simulate") /\ ~running[c].ran
  /\ running' = [running EXCEPT ![c].ran = TRUE]
  /\ UNCHANGED <<stored, now, overlap, muddled, trace>>
\* Mutant: only the snapshot is noted.
SnapshotOnly(c) ==
  LET k == running[c] IN
  /\ Doing(c, "simulate") /\ k.ran /\ Returns(c)
  /\ Retain(c, planset, [variant EXCEPT ![k.v] = [k.rec EXCEPT !.snap = ws[k.v]]], ws)
  /\ bad' = bad \ {ws[k.v]}
  /\ UNCHANGED <<activeSet, now, overlap, past>>
\* Mutant: the record is written anew.
SimulateAnew(c) ==
  LET k == running[c] IN
  /\ Doing(c, "simulate") /\ k.ran /\ Returns(c)
  /\ Retain(c, planset,
            [variant EXCEPT ![k.v] = [NoRecord EXCEPT !.live = TRUE, !.set = k.rec.set,
                                        !.status = "Simulated", !.snap = ws[k.v]]], ws)
  /\ bad' = bad \ {ws[k.v]}
  /\ UNCHANGED <<activeSet, now, overlap, past>>
\* Saves the record that it loaded before it ran the plan.
SimulateSaves(c) ==
  LET k == running[c] IN
  /\ Doing(c, "simulate") /\ k.ran /\ Returns(c)
  /\ Retain(c, planset,
            [variant EXCEPT ![k.v] = [k.rec EXCEPT !.status = "Simulated", !.snap = ws[k.v]]], ws)
  /\ bad' = bad \ {ws[k.v]}
  /\ UNCHANGED <<activeSet, now, overlap, past>>

\* compare loads a record, walks the workspace, writes compare.json and saves the record.
BeginCompare(c) ==
  \E v \in Vars : /\ variant[v].live /\ ws[v] # 0
                  /\ Starts(c, OnRecord("compare", v)) /\ UNCHANGED <<stored, now, trace>>
Compare(c) ==
  LET k == running[c] IN
  /\ Doing(c, "compare") /\ Returns(c)
  /\ variant' = [variant EXCEPT ![k.v] = k.rec]
  /\ compared' = [compared EXCEPT ![k.v] = ws[k.v]] /\ fresh' = fresh \cup {k.v}
  /\ UNCHANGED <<planset, ws, activeSet, now, overlap, muddled, past, bad>>

BeginReview(c) ==
  \E v \in Vars : /\ variant[v].live /\ reviewed < MaxReviews
                  /\ Starts(c, OnRecord("review", v)) /\ UNCHANGED <<stored, now, trace>>
\* Any variant may be reviewed, simulated or not, compared or not, and simulated again since.
Review(c) ==
  LET k == running[c] IN
  \E verdict \in {"Reviewed", "Approved", "Rejected"} :
    /\ Doing(c, "review") /\ Returns(c) /\ reviewed < MaxReviews
    /\ reviewed' = reviewed + 1
    /\ variant' = [variant EXCEPT ![k.v] =
                     [k.rec EXCEPT !.status = verdict, !.reviews = @ \cup {reviewed'}]]
    /\ look' = [look EXCEPT ![k.v] = [stood |-> ws[k.v], saw |-> compared[k.v], fresh |-> k.v \in fresh]]
    /\ acknowledged' = acknowledged \cup {<<k.v, reviewed'>>}
    /\ UNCHANGED <<planset, ws, compared, activeSet, now, overlap, muddled, sims, bad, latest, fresh, promoted, used>>

\* With require_review_for_promotion, and no other participant's override.
BeginPromote(c) ==
  \E v \in Vars : /\ variant[v].live /\ variant[v].status \in {"Reviewed", "Approved"}
                  /\ ws[v] # 0
                  /\ Starts(c, OnRecord("promote", v)) /\ UNCHANGED <<stored, now, trace>>
Stages(v) == promoted' = promoted \cup {[of |-> v, held |-> ws[v], look |-> look[v]]}
\* Stages what the workspace holds, saves the record, and then the plan set.
Promote(c) ==
  LET k == running[c] IN
  /\ Doing(c, "promote") /\ Returns(c) /\ ws[k.v] # 0 /\ Stages(k.v)
  /\ variant' = [variant EXCEPT ![k.v] = [k.rec EXCEPT !.status = "Promoted"]]
  /\ planset' = IF planset[k.rec.set].live THEN [planset EXCEPT ![k.rec.set].active = {k.v}]
                ELSE planset
  /\ UNCHANGED <<ws, compared, activeSet, now, overlap, muddled, sims, reviewed, bad, latest, fresh, look,
                 acknowledged, used>>
\* A file that was removed, or one that cannot be read: what was staged before it stays so.
PromoteStops(c) ==
  /\ Doing(c, "promote") /\ Returns(c) /\ ws[running[c].v] # 0 /\ Stages(running[c].v)
  /\ UNCHANGED <<stored, now, overlap, muddled, sims, reviewed, bad, latest, fresh, look, acknowledged, used>>

\* The process of a call dies; or a file it holds in common is gone.
Dies(c) ==
  /\ running[c] # NoCall /\ Returns(c)
  /\ UNCHANGED <<stored, now, overlap, muddled, trace>>
Second ==
  /\ now < MaxNow /\ now' = now + 1
  /\ UNCHANGED <<stored, running, overlap, muddled, trace>>

VariantsNext ==
  \/ \E c \in Users :
       \/ BeginSet(c) \/ CreateSet(c) \/ BeginVariant(c) \/ CreateVariant(c)
       \/ BeginSimulate(c) \/ SimulateTooBig(c) \/ SimulateFails(c) \/ SimulateRuns(c)
       \/ SimulateSaves(c) \/ BeginCompare(c) \/ Compare(c) \/ BeginReview(c) \/ Review(c)
       \/ BeginPromote(c) \/ Promote(c) \/ PromoteStops(c) \/ Dies(c)
  \/ Second
VariantsSpec == VariantsInit /\ [][VariantsNext]_variantVars
-----------------------------------------------------------------------------
(* Properties                                                              *)

\* A review of content h: it stood in the workspace, the comparison that the reviewer was
\* shown is of it, or of an older simulation, if none was made of this one.
Told(l, h) == h = l.stood /\ l.saw <= h /\ (l.fresh => l.saw = h)
\* Unless calls worked on the variant at once, a promotion stages, be it in part, what was
\* there for its last review, and what that was shown if it was compared after it was
\* simulated; or what a simulation that failed or died since left behind.
PromotesWhatWasReviewed ==
  \A p \in promoted : p.of \in muddled \/ Told(p.look, p.held) \/ p.held \in bad

\* An acknowledged review is lost only to a call that worked on the variant at once.
ReviewsKept ==
  \A r \in acknowledged : variant[r[1]].live /\ r[1] \notin muddled => r[2] \in variant[r[1]].reviews

\* A plan set lists no more variants than it may have.  Unless calls changed it at
\* once, it lists its variants, and no variant outlives its plan set.
SetsListTheirVariants ==
  /\ \A s \in Sets : Cardinality(planset[s].list) <= MaxVars
  /\ \A v \in Vars \ muddled : variant[v].live /\ variant[v].set \notin muddled =>
       planset[variant[v].set].live /\ v \in planset[variant[v].set].list

\* Unless calls worked on it at once, a variant that counts as simulated has the
\* workspace of its snapshot, or a later simulation of it was cut short or goes on.
SimulatedHasWorkspace ==
  \A v \in Vars \ muddled : variant[v].status = "Simulated" =>
    (variant[v].snap # 0 /\ ws[v] = variant[v].snap) \/ latest[v] \in bad

\* A plan set outlives the retention of the call that creates it, and so the
\* collaboration works on one that exists - unless another was created in the same
\* second: then ids decide which is the oldest.
CreatedSetSurvives ==
  [][\A c \in Users :
       Doing(c, "create_set") /\ activeSet' = running[c].set /\ activeSet' # activeSet =>
         \/ planset'[activeSet'].live
         \/ \E s \in LiveSets(planset) : planset[s].at = now]_variantVars

\* What the records of plan sets keep, call by call and under retention.
VariantsKeep ==
  /\ [](VariantsTypeOK /\ PromotesWhatWasReviewed /\ ReviewsKept)
  /\ [](SetsListTheirVariants /\ SimulatedHasWorkspace)
  /\ CreatedSetSurvives
=============================================================================
