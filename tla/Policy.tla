-------------------------------- MODULE Policy --------------------------------
(***************************************************************************)
(* Decisions on calls and plans (policy.rs, ops/).  Pure: a decision is a  *)
(* function of the configuration, of who asks and of what is asked.  Paths *)
(* and commands are told apart by what the patterns make of them.          *)
(***************************************************************************)
EXTENDS Naturals, Sequences, FiniteSets, SequencesExt

CONSTANTS AskedTools, Actions,   \* the tools and actions tried
          MaxPlanNodes, MaxPlanDeps, MaxPlanRetries, MaxPlanOutput \* limits of a plan

ASSUME PolicyAssumption == MaxPlanNodes \in Nat /\ MaxPlanDeps \in Nat /\ MaxPlanRetries \in Nat /\ MaxPlanOutput \in Nat

\* The normalized path, if there is one: a file of CURD, outside the workspace, in block_files, in allow_files.
PathClasses == [config: BOOLEAN, outside: BOOLEAN, blocked: BOOLEAN, listed: BOOLEAN]
NoPathGiven == <<>>
\* A shell command: tampers with the configuration, chains, starts a listed program.
CommandClasses == [tampers: BOOLEAN, chains: BOOLEAN, listed: BOOLEAN]
Settings == [mode: {"strict", "audit", "permissive"}, metachars: BOOLEAN, background: BOOLEAN, raw: BOOLEAN, lists: BOOLEAN]

CanonicalOp(tool) ==
  CASE tool \in {"search", "find", "contract"} -> "lookup"
    [] tool \in {"graph", "crawl", "frontier", "diagram"} -> "traverse"
    [] tool \in {"read", "doc", "lsp", "doctor", "profile", "debug"} -> "read"
    [] tool \in {"edit", "manage_file", "mutate", "proposal", "refactor"} -> "change"
    [] tool \in {"workspace", "session", "review_cycle", "verify_impact"} -> "session"
    [] tool \in {"shell", "shell_status", "terminate", "build"} -> "exec"
    [] tool \in {"register_plan", "execute_plan", "delegate", "checkpoint"} -> "plan"
    [] tool = "context" -> "context"
    [] OTHER -> "other"
Capability(tool) ==
  CASE CanonicalOp(tool) = "change" -> "change.apply"
    [] tool = "workspace" -> "session.begin"
    [] CanonicalOp(tool) = "session" /\ tool # "workspace" -> "session.verify"
    [] CanonicalOp(tool) = "exec" -> "exec.task"
    [] tool \in {"plugin_tool", "plugin_language"} -> "plugin.manage"
    [] tool = "plugin_trust" -> "plugin.trust"
    [] tool = "register_plan" -> "plan.create"
    [] tool = "execute_plan" -> "plan.execute"
    [] tool \in {"delegate", "checkpoint"} -> "plan.parallel"
    [] OTHER -> CanonicalOp(tool)
-----------------------------------------------------------------------------
(* evaluate: the first of these that applies                               *)

\* A call: tool, action, path, command, background, is its symbol protected, is there a session.
JailDenies(cfg, c) ==
  \/ c.path # NoPathGiven /\ (c.path[1].config \/ c.path[1].outside)
  \/ c.tool = "shell" /\ (c.command.tampers \/ (cfg.metachars /\ c.command.chains) \/ ~c.command.listed)
Blocked(c) == c.path # NoPathGiven /\ c.path[1].blocked
Listed(cfg, c) == cfg.lists /\ c.path # NoPathGiven /\ c.path[1].listed
Fallback(cfg, c) ==
  CASE cfg.mode = "strict" -> IF c.path = NoPathGiven /\ c.tool \in {"search", "graph", "workspace"} THEN "allow" ELSE "deny"
    [] cfg.mode = "audit" -> "audit"
    [] OTHER -> "allow"
\* Mutant: the list of allowed files comes first.
ListedFirst(cfg, c, human) ==
  IF ~human /\ JailDenies(cfg, c) THEN "deny" ELSE IF Listed(cfg, c) THEN "allow" ELSE IF Blocked(c) THEN "deny"
  ELSE IF c.tool = "edit" /\ c.protected THEN "deny" ELSE Fallback(cfg, c)
Evaluate(cfg, c, human) ==
  IF ~human /\ JailDenies(cfg, c) THEN "deny" ELSE IF Blocked(c) THEN "deny" ELSE IF Listed(cfg, c) THEN "allow"
  ELSE IF c.tool = "edit" /\ c.protected THEN "deny" ELSE Fallback(cfg, c)

\* evaluate_operation: the ceiling, what only people do, the profile, then the above.
LiteOps == {"lookup", "traverse", "read", "session"}
HumanOnly(c) == \/ c.tool \in {"plugin_tool", "plugin_language"} /\ c.action \in {"add", "remove"}
                \/ c.tool = "plugin_trust" /\ c.action \in {"add", "remove", "enable", "disable"}
ProfileDenies(cfg, c, profile) ==
  LET op == CanonicalOp(c.tool)
  IN  \/ profile.capabilities # {} /\ Capability(c.tool) \notin profile.capabilities
      \/ profile.session /\ op \in {"change", "exec"} /\ ~c.session
      \/ op = "exec" /\ ~cfg.raw /\ c.tool = "shell"
EvaluateOperation(cfg, c, human, lite, profile) ==
  IF \/ lite /\ CanonicalOp(c.tool) \notin LiteOps
     \/ ~human /\ HumanOnly(c)
     \/ c.tool = "shell" /\ c.background /\ ~cfg.background
     \/ profile # <<>> /\ ProfileDenies(cfg, c, profile[1])
  THEN "deny" ELSE Evaluate(cfg, c, human)
\* tool_allowed_by_ceiling, what the list of tools offers; validate_tool_call_core.
Offered(lite, c) == lite => IF c.tool = "workspace" THEN c.action \in {"status", "list", "dependencies"}
                            ELSE c.tool \in {"search", "read", "edit", "graph"}
ValidateCall(cfg, c, human, lite, profile) ==
  IF Offered(lite, c) THEN EvaluateOperation(cfg, c, human, lite, profile) ELSE "deny"
\* dispatch_tool: also a plan, if the configuration requires one.
Risky(tool) == tool \in {"edit", "manage_file", "shell", "mutate", "promote_plan_variant", "plugin_tool", "plugin_language", "tool_group", "plugin_trust"}
Dispatches(cfg, c, human, lite, profile, planned, executing) ==
  /\ ValidateCall(cfg, c, human, lite, profile) # "deny"
  /\ human \/ ~Risky(c.tool) \/ ~planned \/ executing
-----------------------------------------------------------------------------
(* validate_plan: the nodes in order, up to one that is denied or audited  *)

InternalCommands == {"recompute_graph", "invalidate_index", "emit_marker", "clear_shadow"}
\* A node: id, numbers of dependencies, retries and output bytes, and its call.
NodeDenied(cfg, plan, i, human) ==
  LET n == plan[i]
  IN  \/ \E j \in 1..i - 1 : plan[j].id = n.id
      \/ n.deps > MaxPlanDeps \/ n.retries > MaxPlanRetries \/ n.output \notin 1..MaxPlanOutput
      \/ n.internal /\ (n.call.tool \notin InternalCommands \/ (n.call.tool = "clear_shadow" /\ ~human))
      \/ Evaluate(cfg, n.call, human) = "deny"
Settles(cfg, plan, human) ==
  {i \in DOMAIN plan : NodeDenied(cfg, plan, i, human) \/ Evaluate(cfg, plan[i].call, human) = "audit"}
ValidatePlan(cfg, plan, human) ==
  IF Len(plan) > MaxPlanNodes THEN "deny"
  ELSE IF Settles(cfg, plan, human) = {} THEN "allow"
  ELSE LET i == CHOOSE k \in Settles(cfg, plan, human) : \A j \in Settles(cfg, plan, human) : k <= j
       IN  IF NodeDenied(cfg, plan, i, human) THEN "deny" ELSE "audit"
-----------------------------------------------------------------------------
(* Properties                                                              *)

NoCommand == [tampers |-> FALSE, chains |-> FALSE, listed |-> TRUE]
PolicyCalls ==
  {c \in [tool: AskedTools, action: Actions, path: {<<p>> : p \in PathClasses} \cup {NoPathGiven}, command: CommandClasses,
          background: BOOLEAN, protected: BOOLEAN, session: BOOLEAN] :
     (c.tool \notin {"workspace", "plugin_trust"} => c.action = "none") /\ (c.tool # "shell" => c.command = NoCommand /\ ~c.background) /\ (c.tool # "edit" => ~c.protected)
     /\ (c.path = NoPathGiven \/ c.path[1].listed = c.path[1].blocked \/ ~c.path[1].outside)}
Rank(d) == CASE d = "deny" -> 0 [] d = "audit" -> 1 [] OTHER -> 2
Profiles == {<<>>, <<[capabilities |-> {}, session |-> TRUE]>>, <<[capabilities |-> {"read", "lookup"}, session |-> FALSE]>>}

\* "Blocklist Check (Highest Priority)": no list, mode or person lets a blocked path pass.
BlockedIsDenied ==
  \A cfg \in Settings, c \in PolicyCalls : Blocked(c) => \A human \in BOOLEAN : Evaluate(cfg, c, human) = "deny"
\* What an agent may do, a person may; what a profile forbids, no profile's absence forbids.
PeopleMayMore ==
  \A cfg \in Settings, c \in PolicyCalls, lite \in BOOLEAN, p \in Profiles :
    /\ Rank(ValidateCall(cfg, c, FALSE, lite, p)) <= Rank(ValidateCall(cfg, c, TRUE, lite, p))
    /\ Rank(ValidateCall(cfg, c, FALSE, lite, p)) <= Rank(ValidateCall(cfg, c, FALSE, FALSE, <<>>))
\* The lite ceiling passes calls that read, and no other, though edit is on offer.
LiteOnlyReads ==
  \A cfg \in Settings, c \in PolicyCalls, human \in BOOLEAN, p \in Profiles :
    ValidateCall(cfg, c, human, TRUE, p) # "deny"
      => c.tool \in {"search", "read", "graph"} \/ (c.tool = "workspace" /\ c.action \in {"status", "list", "dependencies"})
\* In strict mode only a listed file, or a question without one, passes.
StrictNeedsAList ==
  \A cfg \in Settings, c \in PolicyCalls, human \in BOOLEAN :
    cfg.mode = "strict" /\ Evaluate(cfg, c, human) # "deny" => Listed(cfg, c) \/ c.path = NoPathGiven

NodeOf(i, c, deps, out) == [id |-> i, deps |-> deps, retries |-> 0, output |-> out, internal |-> FALSE, call |-> c]
PlanCalls == {c \in PolicyCalls : c.tool \in {"search", "edit"} /\ c.action = "none" /\ ~c.session
                /\ (c.path = NoPathGiven \/ ~(c.path[1].config \/ c.path[1].outside))}
ShortPlans == {<<NodeOf(1, c, 0, 1), NodeOf(i, d, k, o)>> :
                 c \in PlanCalls, d \in PlanCalls, i \in {1, 2}, k \in {0, MaxPlanDeps + 1}, o \in {0, 1, MaxPlanOutput + 1}}
  \cup {<<NodeOf(1, c, 0, 1), NodeOf(2, c, 0, 1), NodeOf(3, c, 0, 1)>> : c \in PlanCalls}
\* An allowed plan is not too long and has no node that a call would be denied, none twice and
\* none over a limit; a plan with one is denied, unless an audited node comes before.
PlansAreWhole ==
  \A cfg \in {s \in Settings : s.metachars /\ s.background /\ ~s.raw}, plan \in ShortPlans, human \in BOOLEAN :
    LET bad == {i \in DOMAIN plan : NodeDenied(cfg, plan, i, human)}
        audited == {i \in DOMAIN plan : Evaluate(cfg, plan[i].call, human) = "audit"}
    IN  /\ ValidatePlan(cfg, plan, human) = "allow" <=> Len(plan) <= MaxPlanNodes /\ bad = {} /\ audited = {}
        /\ ValidatePlan(cfg, plan, human) = "audit" => \E i \in audited : \A j \in bad : i < j

\* What decisions keep, for every configuration and call tried.
PolicyKeeps == BlockedIsDenied /\ PeopleMayMore /\ LiteOnlyReads /\ StrictNeedsAList /\ PlansAreWhole
=============================================================================
