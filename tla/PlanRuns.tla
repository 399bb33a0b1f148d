----------------------------- MODULE PlanRuns -----------------------------
(***************************************************************************)
(* Executions of one plan (PlanEngine::execute_plan, plan/engine.rs) and   *)
(* what they leave on disk: the run state, one file for the plan that      *)
(* every execution rewrites whole, and the checkpoints, a file for each    *)
(* sequence number and event.  Executions are requests of their own and    *)
(* may overlap; the process may die between two writes.                    *)
(*                                                                         *)
(* A plan gives each node its dependencies and its retry limit.  A         *)
(* dependency outside Nodes is a tag, or the id of a node the plan has not *)
(* got.                                                                    *)
(***************************************************************************)
EXTENDS Naturals, FiniteSets

CONSTANTS
  Nodes, Plans,  \* records [deps, limit] of functions on Nodes
  Runs           \* executions

ASSUME NodesAssumption == Nodes # {} /\ IsFiniteSet(Nodes)
ASSUME PlansAssumption ==
  \A p \in Plans : DOMAIN p.deps = Nodes /\ p.limit \in [Nodes -> Nat]

VARIABLES
  plan,
  file,     \* the run state on disk
  cps,      \* the checkpoints on disk
  local,    \* the run state in the memory of each execution
  left, cur, tries, seq, at  \* its place: nodes to do, the node at work

disk == <<file, cps>>
vars == <<plan, file, cps, local, left, cur, tries, seq, at>>

Untried == [n \in Nodes |-> [status |-> "absent", retries |-> 0]]
Fresh   == [status |-> "started", nodes |-> Untried]
None    == [status |-> "none", nodes |-> Untried]

NodeState == [status : {"absent", "executing", "retrying", "completed", "failed"}, retries : Nat]
RunState  == [status : {"none", "started", "completed", "failed"}, nodes : [Nodes -> NodeState]]
Events    == {"plan_started", "node_completed", "plan_completed", "plan_failed"}
Places    == {"idle", "opened", "next", "attempt", "retry", "mark", "failing", "seal", "done", "dead"}

TypeOK ==
  /\ plan \in Plans /\ file \in RunState /\ cps \subseteq Nat \X Events
  /\ local \in [Runs -> RunState]
  /\ left \in [Runs -> SUBSET Nodes] /\ cur \in [Runs -> Nodes]
  /\ tries \in [Runs -> Nat] /\ seq \in [Runs -> Nat]
  /\ at \in [Runs -> Places]

Init ==
  /\ plan \in Plans /\ file = None /\ cps = {}
  /\ local = [r \in Runs |-> None] /\ left = [r \in Runs |-> Nodes]
  /\ cur = [r \in Runs |-> CHOOSE n \in Nodes : TRUE]
  /\ tries = [r \in Runs |-> 0] /\ seq = [r \in Runs |-> 0]
  /\ at = [r \in Runs |-> "idle"]
-----------------------------------------------------------------------------
Goto(r, place) == at' = [at EXCEPT ![r] = place]

\* persist_plan_state writes what the execution knows over the file.
Persist(r, state) == local' = [local EXCEPT ![r] = state] /\ file' = state
OfNode(r, n, status, retries) ==
  [local[r] EXCEPT !.nodes[n] = [status |-> status, retries |-> retries]]

\* write_checkpoint; a checkpoint of the same name is replaced.
Checkpoint(r, event) ==
  cps' = cps \cup {<<seq[r], event>>} /\ seq' = [seq EXCEPT ![r] = @ + 1]

Running(r) == at[r] \notin {"idle", "done", "dead"}

Start(r) ==
  /\ at[r] = "idle"
  /\ Persist(r, Fresh) /\ Goto(r, "opened")
  /\ UNCHANGED <<plan, cps, left, cur, tries, seq>>

\* Mutant: the edges point the other way.
EdgesReversed(n) == {m \in Nodes : n \in plan.deps[m]}
\* Only dependencies that are ids of nodes of the plan become edges.
Edges(n) == plan.deps[n] \cap Nodes

Cyclic == \E S \in (SUBSET Nodes) \ {{}} : \A n \in S : Edges(n) \cap S # {}

\* After the first checkpoint the nodes are sorted; a cycle ends the execution.
Open(r) ==
  /\ at[r] = "opened" /\ Checkpoint(r, "plan_started")
  /\ Goto(r, IF Cyclic THEN "done" ELSE "next")
  /\ UNCHANGED <<plan, file, local, left, cur, tries>>

\* toposort: nodes come in an order in which each follows its dependencies.
Take(r) ==
  /\ at[r] = "next"
  /\ \E n \in left[r] :
       /\ Edges(n) \cap left[r] = {}
       /\ cur' = [cur EXCEPT ![r] = n]
       /\ left' = [left EXCEPT ![r] = @ \ {n}]
       /\ Persist(r, OfNode(r, n, "executing", 0))
  /\ tries' = [tries EXCEPT ![r] = 0]
  /\ Goto(r, "attempt") /\ UNCHANGED <<plan, cps, seq>>

\* Mutant: a node that completes at once gets no checkpoint.
AttemptUnmarked(r) ==
  /\ at[r] = "attempt"
  /\ \/ /\ Persist(r, OfNode(r, cur[r], "completed", tries[r]))
        /\ Goto(r, IF tries[r] = 0 THEN "next" ELSE "mark")
     \/ /\ Persist(r, OfNode(r, cur[r], "retrying", tries[r])) /\ Goto(r, "retry")
     \/ Goto(r, "failing") /\ UNCHANGED <<file, local>>
  /\ UNCHANGED <<plan, cps, left, cur, tries, seq>>

\* The call succeeds, answers with an error, or is rejected by validation; a
\* rejection leaves the function without a word about the node.
Attempt(r) ==
  /\ at[r] = "attempt"
  /\ \/ /\ Persist(r, OfNode(r, cur[r], "completed", tries[r])) /\ Goto(r, "mark")
     \/ /\ Persist(r, OfNode(r, cur[r], "retrying", tries[r])) /\ Goto(r, "retry")
     \/ Goto(r, "failing") /\ UNCHANGED <<file, local>>
  /\ UNCHANGED <<plan, cps, left, cur, tries, seq>>

\* Mutant: one retry too many.
RetryOnceMore(r) ==
  /\ at[r] = "retry"
  /\ IF tries[r] <= plan.limit[cur[r]]
     THEN /\ tries' = [tries EXCEPT ![r] = @ + 1] /\ Goto(r, "attempt")
          /\ UNCHANGED <<file, local>>
     ELSE /\ Persist(r, OfNode(r, cur[r], "failed", tries[r])) /\ Goto(r, "failing")
          /\ UNCHANGED tries
  /\ UNCHANGED <<plan, cps, left, cur, seq>>
\* Mutant: retries are not counted.
RetryForever(r) ==
  at[r] = "retry" /\ Goto(r, "attempt") /\ UNCHANGED <<plan, disk, local, left, cur, tries, seq>>

Retry(r) ==
  /\ at[r] = "retry"
  /\ IF tries[r] < plan.limit[cur[r]]
     THEN /\ tries' = [tries EXCEPT ![r] = @ + 1] /\ Goto(r, "attempt")
          /\ UNCHANGED <<file, local>>
     ELSE /\ Persist(r, OfNode(r, cur[r], "failed", tries[r])) /\ Goto(r, "failing")
          /\ UNCHANGED tries
  /\ UNCHANGED <<plan, cps, left, cur, seq>>

Mark(r) ==
  /\ at[r] = "mark" /\ Checkpoint(r, "node_completed") /\ Goto(r, "next")
  /\ UNCHANGED <<plan, file, local, left, cur, tries>>

\* Mutant: a failure is recorded in a word of its own.
OutcomeError(r) == IF at[r] = "failing" THEN "error" ELSE "completed"
\* Mutant: an error on the way is forgotten.
OutcomeGood(r) == "completed"
Outcome(r) == IF at[r] = "failing" THEN "failed" ELSE "completed"
Ended(r) == at[r] = "failing" \/ (at[r] = "next" /\ left[r] = {})

\* Mutant: the outcome stays in memory.
CloseInMemory(r) ==
  /\ Ended(r) /\ local' = [local EXCEPT ![r].status = Outcome(r)]
  /\ Goto(r, "seal") /\ UNCHANGED <<plan, disk, left, cur, tries, seq>>

Close(r) ==
  /\ Ended(r) /\ Persist(r, [local[r] EXCEPT !.status = Outcome(r)])
  /\ Goto(r, "seal") /\ UNCHANGED <<plan, cps, left, cur, tries, seq>>

Seal(r) ==
  /\ at[r] = "seal" /\ Goto(r, "done")
  /\ Checkpoint(r, IF local[r].status = "failed" THEN "plan_failed" ELSE "plan_completed")
  /\ UNCHANGED <<plan, file, local, left, cur, tries>>

\* The process dies, and all its executions with it.
Die ==
  /\ \E r \in Runs : Running(r)
  /\ at' = [r \in Runs |-> IF Running(r) THEN "dead" ELSE at[r]]
  /\ UNCHANGED <<plan, disk, local, left, cur, tries, seq>>
-----------------------------------------------------------------------------
Step(r) ==
  \/ Open(r) \/ Take(r) \/ Attempt(r) \/ Retry(r) \/ Mark(r) \/ Close(r) \/ Seal(r)
Next == Die \/ \E r \in Runs : Start(r) \/ Step(r)

Spec == Init /\ [][Next]_vars
\* A started execution runs on.
FairSpec == Spec /\ \A r \in Runs : WF_vars(Step(r))
-----------------------------------------------------------------------------
(* Properties                                                              *)

Status(n) == file.nodes[n].status

\* The file on disk, whoever wrote it last and wherever that one died, tells a
\* possible story: nodes are begun one at a time and after their dependencies.
StoryInOrder ==
  /\ \A n \in Nodes : Status(n) # "absent" =>
       \A d \in plan.deps[n] \cap Nodes : Status(d) = "completed"
  /\ \A m, n \in Nodes :
       Status(m) \notin {"absent", "completed"} /\ Status(n) \notin {"absent", "completed"} => m = n

\* A run is on record as completed only if all its nodes are, and as failed
\* only if one is not.
OutcomeIsTrue ==
  /\ file.status = "completed" => \A n \in Nodes : Status(n) = "completed"
  /\ file.status = "failed" => \E n \in Nodes : Status(n) # "completed"

\* No node is retried beyond its limit, and none is given up before.
RetryBudget ==
  \A n \in Nodes : /\ file.nodes[n].retries <= plan.limit[n]
                   /\ Status(n) = "failed" => file.nodes[n].retries = plan.limit[n]

Milestones == {c \in cps : c[2] = "node_completed"}
Completed  == {n \in Nodes : Status(n) = "completed"}

\* The checkpoints of the first execution of a plan, while there is no other, keep
\* up with its run state to within one write, wherever it dies.
OnlyOne == \A r, s \in Runs : at[r] # "idle" /\ at[s] # "idle" => r = s
CheckpointsKeepUp ==
  OnlyOne /\ file.status # "none" =>
    Cardinality(Completed) - Cardinality(Milestones) \in {0, 1}

\* When every execution has returned the file says how the last one ended; a
\* cyclic plan is the exception, its run stays on record as started.
ReturnIsRecorded ==
  (\A r \in Runs : at[r] = "done") => file.status \in {"completed", "failed"} \/ Cyclic

\* Every execution that starts returns or dies with its process.
RunsEnd == <>[](\A r \in Runs : at[r] \in {"idle", "done", "dead"})

\* The run-state file in every state: it has its type, and its outcome is true.
RecordSound == TypeOK /\ OutcomeIsTrue
=============================================================================
