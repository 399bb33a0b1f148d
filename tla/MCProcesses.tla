------------------------------- MODULE MCProcesses --------------------------------
(* Executions of plans, processes that open and leave one workspace, and the   *)
(* server with its tasks, each by itself: their instances are small and share   *)
(* this run.                                                                    *)
EXTENDS PlanRuns, MCSessions, MCServing, TLC

CONSTANTS Stray, MaxRetries

\* Every plan over the nodes, with dependencies on nodes of the plan and, with Stray, on
\* something else. Of two plans that differ in the names of their nodes one is enough.
SomeNode == CHOOSE n \in Nodes : TRUE
AllPlans == {any \in [deps : [Nodes -> SUBSET (Nodes \cup Stray)], limit : [Nodes -> 0..MaxRetries]] :
  \A n \in Nodes : \/ any.limit[SomeNode] < any.limit[n]
                    \/ /\ any.limit[SomeNode] = any.limit[n]
                       /\ Cardinality(any.deps[SomeNode]) <= Cardinality(any.deps[n])}

VARIABLE part \* the component whose behaviour this is; they share no state

MCInit ==
  /\ part \in {"plan", "sessions", "serving"}
  /\ (part = "plan" \/ plan = CHOOSE any \in Plans : TRUE)
  /\ (part = "sessions" \/ given = [racing |-> FALSE, polite |-> FALSE])
  /\ (part = "serving" \/ input = <<>>)
  /\ Init /\ SessionsInit /\ ServingInit
MCNext ==
  /\ part' = part
  /\ \/ part = "plan" /\ Next /\ UNCHANGED <<sessionsVars, servingVars>>
     \/ part = "sessions" /\ SessionsNext /\ UNCHANGED <<vars, servingVars>>
     \/ part = "serving" /\ ServingNext /\ UNCHANGED <<vars, sessionsVars>>
MCSpec == MCInit /\ [][MCNext]_<<part, vars, sessionsVars, servingVars>>
  /\ \A r \in Runs : WF_vars(part = "plan" /\ Step(r))
  /\ \A c \in Contexts : WF_sessionsVars(part = "sessions" /\ Opening(c))
  /\ WF_servingVars(part = "serving" /\ ServingNext)
=============================================================================
