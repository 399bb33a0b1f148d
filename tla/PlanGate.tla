----------------------------- MODULE PlanGate -----------------------------
(***************************************************************************)
(* The gates between a connection and the tools that change things:        *)
(* require_plan_for_mutations, which asks whether a plan of the connection *)
(* is executing, and the budget of hazardous calls (dispatch_tool,         *)
(* context.rs).  Whether a plan is executing is a flag of the connection   *)
(* that execute_plan (router.rs) and execute_active_plan (context.rs) set  *)
(* and clear; the latter runs the plan of the global state with that state *)
(* locked, under a time limit that drops the whole call.  Requests are     *)
(* tasks that interleave at every await.  execute_plan gives its nodes the *)
(* token of their connection; those of the active plan have none and pass  *)
(* for a human's.  A node that fails fails its plan (PlanRuns has retries).*)
(***************************************************************************)
EXTENDS Naturals, FiniteSets

CONSTANTS
  Conns, Requests, Of,    \* agents' connections, and the connection of a request
  MaxNodes,               \* nodes of a plan; all are hazardous calls
  MaxHazardous,           \* budget.max_hazardous_calls
  SelfCalls, \* whether a node of the active plan may ask for the global state
  None

ASSUME RequestsAssumption == Of \in [Requests -> Conns] /\ None \notin Requests
ASSUME LimitsAssumption ==
  /\ MaxNodes \in Nat /\ MaxHazardous \in Nat
  /\ SelfCalls \in BOOLEAN

Kinds  == {"call", "run", "active", "register"}
Places == {"idle", "wait", "plan", "gate", "budget", "tool", "stuck", "finish", "answered"}

VARIABLES
  flag,     \* is_executing_plan of each connection
  spent,    \* hazardous_calls_made of each connection
  slot,     \* the active plan of the global state, as the request that registered it
  holder,   \* who has the global state locked
  kind, at, todo,  \* each request: what it is, where it is, nodes left to run
  started, uncounted, taken, refused, \* history: hazardous tools started for a connection,
            \* those a request started for nobody, how often a registered plan was taken,
            \* plans a node of which the plan gate refused
  disturbed \* history: connections that sent a request before their last was
            \* answered, or whose active plan was dropped at its time limit

requests == <<kind, at, todo>>
vars == <<flag, spent, slot, holder, requests, started, uncounted, taken, refused, disturbed>>

TypeOK ==
  /\ flag \in [Conns -> BOOLEAN] /\ spent \in [Conns -> Nat]
  /\ slot \in Requests \cup {None} /\ holder \in Requests \cup {None}
  /\ kind \in [Requests -> Kinds] /\ at \in [Requests -> Places]
  /\ todo \in [Requests -> 0..MaxNodes]
  /\ started \in [Conns -> Nat] /\ uncounted \in [Requests -> Nat] /\ taken \in [Requests -> Nat] /\ refused \subseteq Requests
  /\ disturbed \subseteq Conns

Init ==
  /\ flag = [c \in Conns |-> FALSE] /\ spent = [c \in Conns |-> 0]
  /\ slot = None /\ holder = None
  /\ kind = [q \in Requests |-> "call"] /\ at = [q \in Requests |-> "idle"]
  /\ todo = [q \in Requests |-> 0]
  /\ started = [c \in Conns |-> 0] /\ uncounted = [q \in Requests |-> 0] /\ taken = [q \in Requests |-> 0] /\ refused = {}
  /\ disturbed = {}
-----------------------------------------------------------------------------
Goto(q, place) == at' = [at EXCEPT ![q] = place]
SetFlag(q, value) == flag' = [flag EXCEPT ![Of[q]] = value]
Waiting(q) == at[q] \notin {"idle", "answered"}

\* Mutant: execute_plan does not announce itself.
RunUnannounced(q) == Goto(q, "plan") /\ UNCHANGED flag
\* execute_plan clones the state of its connection and raises the flag.
StartRun(q) == Goto(q, "plan") /\ SetFlag(q, TRUE)

Send(q) ==
  /\ at[q] = "idle"
  /\ disturbed' = IF \E p \in Requests : Of[p] = Of[q] /\ Waiting(p)
                  THEN disturbed \cup {Of[q]} ELSE disturbed
  /\ \E k \in Kinds :
       /\ kind' = [kind EXCEPT ![q] = k]
       /\ CASE k = "call" -> Goto(q, "gate") /\ UNCHANGED flag
            [] k = "run" -> StartRun(q)
            [] k = "active" -> Goto(q, "wait") /\ SetFlag(q, TRUE)
            [] k = "register" -> Goto(q, "wait") /\ UNCHANGED flag
  /\ todo' = [todo EXCEPT ![q] = MaxNodes]
  /\ UNCHANGED <<spent, slot, holder, started, uncounted, taken, refused>>

\* register_plan stores the plan under the lock.
Register(q) ==
  /\ kind[q] = "register" /\ at[q] = "wait" /\ holder = None
  /\ slot' = q /\ Goto(q, "answered")
  /\ UNCHANGED <<flag, spent, holder, kind, todo, started, uncounted, taken, refused, disturbed>>

\* Mutant: the active plan stays in the global state.
LeaveActive(q) ==
  /\ kind[q] = "active" /\ at[q] = "wait" /\ holder = None
  /\ IF slot = None
     THEN Goto(q, "answered") /\ SetFlag(q, FALSE) /\ UNCHANGED <<slot, holder, taken>>
     ELSE /\ UNCHANGED slot /\ taken' = [taken EXCEPT ![slot] = @ + 1]
          /\ \/ holder' = q /\ Goto(q, "plan") /\ UNCHANGED flag
             \/ Goto(q, "answered") /\ SetFlag(q, FALSE) /\ UNCHANGED holder
  /\ UNCHANGED <<spent, kind, todo, started, uncounted, refused, disturbed>>

\* execute_active_plan takes the plan, and only then looks whether it needs a
\* session that is not open.
TakeActive(q) ==
  /\ kind[q] = "active" /\ at[q] = "wait" /\ holder = None
  /\ IF slot = None
     THEN Goto(q, "answered") /\ SetFlag(q, FALSE) /\ UNCHANGED <<slot, holder, taken>>
     ELSE /\ slot' = None /\ taken' = [taken EXCEPT ![slot] = @ + 1]
          /\ \/ holder' = q /\ Goto(q, "plan") /\ UNCHANGED flag
             \/ Goto(q, "answered") /\ SetFlag(q, FALSE) /\ UNCHANGED holder
  /\ UNCHANGED <<spent, kind, todo, started, uncounted, refused, disturbed>>

\* Mutant: the end of the plan is overrun.
NextNodeAlways(q) ==
  /\ at[q] = "plan" /\ Goto(q, "gate")
  /\ UNCHANGED <<flag, spent, slot, holder, kind, todo, started, uncounted, taken, refused, disturbed>>

\* The next node of a plan; one of the active plan that itself asks for the
\* global state waits for the lock its own execution holds.
NextNode(q) ==
  /\ at[q] = "plan"
  /\ \/ Goto(q, IF todo[q] = 0 THEN "finish" ELSE "gate")
     \/ SelfCalls /\ kind[q] = "active" /\ todo[q] > 0 /\ Goto(q, "stuck")
  /\ UNCHANGED <<flag, spent, slot, holder, kind, todo, started, uncounted, taken, refused, disturbed>>

\* A refused call is answered; a refused node fails its plan.
Refused(q) == Goto(q, IF kind[q] = "call" THEN "answered" ELSE "finish")

\* PLAN_REQUIRED, unless a plan of the connection is executing.
Gate(q) ==
  /\ at[q] = "gate" /\ kind[q] # "active"
  /\ IF flag[Of[q]] THEN Goto(q, "budget") /\ UNCHANGED refused
     ELSE Refused(q) /\ refused' = refused \cup (IF kind[q] = "call" THEN {} ELSE {q})
  /\ UNCHANGED <<flag, spent, slot, holder, kind, todo, started, uncounted, taken, disturbed>>

\* What has no token passes for a human's: neither plan gate nor budget is asked.
PassAsHuman(q) ==
  /\ at[q] = "gate" /\ kind[q] = "active" /\ Goto(q, "tool")
  /\ uncounted' = [uncounted EXCEPT ![q] = @ + 1]
  /\ UNCHANGED <<flag, spent, slot, holder, kind, todo, started, taken, refused, disturbed>>

\* Mutant: the call that reaches the limit goes through once more.
BudgetLate(q) ==
  /\ at[q] = "budget"
  /\ spent' = [spent EXCEPT ![Of[q]] = @ + 1]
  /\ IF spent[Of[q]] > MaxHazardous THEN Refused(q) /\ UNCHANGED started
     ELSE Goto(q, "tool") /\ started' = [started EXCEPT ![Of[q]] = @ + 1]
  /\ UNCHANGED <<flag, slot, holder, kind, todo, uncounted, taken, refused, disturbed>>

\* BUDGET_EXHAUSTED when the calls made, this one included, exceed the limit.
Budget(q) ==
  /\ at[q] = "budget"
  /\ spent' = [spent EXCEPT ![Of[q]] = @ + 1]
  /\ IF spent'[Of[q]] > MaxHazardous THEN Refused(q) /\ UNCHANGED started
     ELSE Goto(q, "tool") /\ started' = [started EXCEPT ![Of[q]] = @ + 1]
  /\ UNCHANGED <<flag, slot, holder, kind, todo, uncounted, taken, refused, disturbed>>

Tool(q) ==
  /\ at[q] = "tool"
  /\ IF kind[q] = "call" THEN Goto(q, "answered") /\ UNCHANGED todo
     ELSE Goto(q, "plan") /\ todo' = [todo EXCEPT ![q] = @ - 1]
  /\ UNCHANGED <<flag, spent, slot, holder, kind, started, uncounted, taken, refused, disturbed>>

\* Mutant: the lock outlives its holder.
UnlockNever(q) == UNCHANGED holder
\* Whoever stops executing drops the guard of the global state.
Unlock(q) == holder' = IF holder = q THEN None ELSE holder
\* Mutant: the flag survives the plan.
FinishFlagged(q) ==
  /\ at[q] = "finish" /\ Goto(q, "answered") /\ Unlock(q)
  /\ UNCHANGED <<flag, spent, slot, kind, todo, started, uncounted, taken, refused, disturbed>>

\* Done or failed, a plan clears the flag and leaves the global state.
Finish(q) ==
  /\ at[q] = "finish" /\ Goto(q, "answered") /\ SetFlag(q, FALSE) /\ Unlock(q)
  /\ UNCHANGED <<spent, slot, kind, todo, started, uncounted, taken, refused, disturbed>>

\* Mutant: only tools have a time limit, waiting for a lock has none.
LimitsTools(q) == kind[q] = "call" /\ at[q] = "tool"
\* What dispatch_tool puts a limit on: the tool of a call, and the whole of
\* execute_active_plan and register_plan; execute_plan is not a tool call.
Limited(q) ==
  \/ kind[q] = "call" /\ at[q] = "tool"
  \/ kind[q] \in {"active", "register"} /\ Waiting(q)

\* TOOL_TIMEOUT: the call is dropped where it is, locks are freed, the flag stays.
TimeOut(q) ==
  /\ Limited(q)
  /\ Goto(q, "answered") /\ Unlock(q)
  /\ disturbed' = IF kind[q] = "active" THEN disturbed \cup {Of[q]} ELSE disturbed
  /\ UNCHANGED <<flag, spent, slot, kind, todo, started, uncounted, taken, refused>>
-----------------------------------------------------------------------------
Step(q) ==
  \/ Register(q) \/ TakeActive(q) \/ NextNode(q) \/ Gate(q) \/ PassAsHuman(q) \/ Budget(q) \/ Tool(q) \/ Finish(q)
Next == \E q \in Requests : Send(q) \/ Step(q) \/ TimeOut(q)

Spec == Init /\ [][Next]_vars
\* Tasks run on, and the time limit passes.
FairSpec == Spec /\ \A q \in Requests : WF_vars(Step(q)) /\ WF_vars(TimeOut(q))
-----------------------------------------------------------------------------
(* Properties                                                              *)

\* No connection starts more hazardous tools than its budget allows by its calls and its
\* execute_plan, however many of them are at the gate at once. What the active plan starts
\* is in nobody's budget (context.rs:871-887, 926): what is not counted is that plan's, and
\* no more than its nodes, each once.
BudgetHolds ==
  /\ \A c \in Conns : started[c] <= MaxHazardous
  /\ \A q \in Requests : uncounted[q] > 0 => kind[q] = "active" /\ uncounted[q] <= MaxNodes

\* The active plan executes with the global state to itself, and a registered
\* plan is taken at most once.
Executing == {q \in Requests : kind[q] = "active" /\ at[q] \notin {"idle", "wait", "answered"}}
OnePlanAtATime == Executing = IF holder = None THEN {} ELSE {holder}
TakenOnce == \A q \in Requests : taken[q] <= 1 /\ (slot = q => taken[q] = 0)

\* Every request is answered, even one that waits for itself.
AllAnswered == \A q \in Requests : Waiting(q) ~> at[q] = "answered"

\* PolicyConfig: with require_plan_for_mutations mutations only happen as nodes
\* of an executing plan.  On a connection nobody disturbed they do, whatever
\* happens on the others.
Calm(q) == Of[q] \notin disturbed
MutationsArePlanned == \A q \in Requests : at[q] = "tool" /\ Calm(q) => kind[q] # "call"

\* PLAN_REQUIRED asks for a plan: no node of an executing plan meets it, whether
\* it is asked for its connection's or passes for a human's.
PlansPass == \A q \in refused : ~Calm(q)

\* The registered plan in every state: everything has its type, the active plan runs
\* by itself, and is taken once.
PlanSound == TypeOK /\ OnePlanAtATime /\ TakenOnce
=============================================================================
