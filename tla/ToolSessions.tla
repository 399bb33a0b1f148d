---------------------------- MODULE ToolSessions ----------------------------
(***************************************************************************)
(* External tool groups (tool_group.rs): a registry file names the groups, *)
(* and the first call of a group's tool starts its process, which later    *)
(* calls share.  A call takes the sessions' lock up to three times: to     *)
(* send, to see whether the process died when that failed, and then to     *)
(* replace the process and send again.  The processes die when they like;  *)
(* a session taken out of the table does not end its process.              *)
(***************************************************************************)
EXTENDS Naturals, FiniteSets

CONSTANTS Groups,
          ToolCalls,    \* calls under way
          MaxRestarts,  \* external_mcp_max_restarts
          MaxSessions,  \* bound on the processes started
          NoSession

ASSUME ToolAssumption ==
  /\ MaxRestarts \in Nat /\ MaxSessions \in Nat /\ NoSession \notin 1..MaxSessions
  /\ Groups # {}

Numbers    == 1..MaxSessions
Session == [pid: Numbers \cup {NoSession}, restarts: 0..MaxSessions]
ToolPCs == {"idle", "attempt", "failed", "retry", "store"}

VARIABLES registry, \* groups in the registry file
          session,  \* each group's session
          upright,    \* processes that run
          born,     \* processes started so far
          toolCall, \* each call: its group, the process it saw dead, the registry it loaded
          sent,     \* history: processes that each call's request went to
          replaced, \* history: replacements of each group's process since its first
          unready,  \* history: processes that did not answer initialize
          overtaken   \* history: processes that a call replaced though it had not seen them

toolVars == <<registry, session, upright, born, toolCall, sent, replaced, unready, overtaken>>

NoEntry == [pid |-> NoSession, restarts |-> 0]
AtEase == [pc |-> "idle", g |-> CHOOSE g \in Groups : TRUE, saw |-> NoSession, reg |-> {}]

ToolTypeOK ==
  /\ registry \subseteq Groups /\ session \in [Groups -> Session]
  /\ upright \subseteq 1..born /\ born \in 0..MaxSessions
  /\ toolCall \in [ToolCalls -> [pc: ToolPCs, g: Groups, saw: Numbers \cup {NoSession}, reg: SUBSET Groups]]
  /\ \A c \in ToolCalls : toolCall[c].pc # "retry" => toolCall[c].saw = NoSession
  /\ sent \in [ToolCalls -> SUBSET Numbers] /\ replaced \in [Groups -> 0..MaxSessions]
  /\ unready \subseteq Numbers /\ overtaken \subseteq Numbers

ToolInit ==
  /\ registry = {} /\ session = [g \in Groups |-> NoEntry] /\ upright = {} /\ born = 0
  /\ toolCall = [c \in ToolCalls |-> AtEase] /\ sent = [c \in ToolCalls |-> {}]
  /\ replaced = [g \in Groups |-> 0] /\ unready = {} /\ overtaken = {}

Holds(c, pc) == toolCall[c].pc = pc
Group(c) == toolCall[c].g
Goes2(c, pc, saw) == [toolCall EXCEPT ![c].pc = pc, ![c].saw = saw]
\* Mutant: what the call saw is kept.
DoneHalf(c) == [toolCall EXCEPT ![c].pc = "idle"]
Done(c) == [toolCall EXCEPT ![c] = AtEase]
processes == <<session, upright, born, sent, replaced, unready, overtaken>>
-----------------------------------------------------------------------------
(* The registry                                                            *)

\* add and remove load the registry, and store what they made of it.  A session
\* of the group is left as it is.
StageGroup(c) ==
  \E g \in Groups, adds \in BOOLEAN :
    /\ Holds(c, "idle")
    /\ toolCall' = [toolCall EXCEPT ![c] = [pc |-> "store", g |-> g, saw |-> NoSession,
                      reg |-> IF adds THEN registry \cup {g} ELSE registry \ {g}]]
    /\ UNCHANGED <<registry, processes>>
StoreRegistry(c) ==
  /\ Holds(c, "store") /\ registry' = toolCall[c].reg /\ toolCall' = Done(c)
  /\ UNCHANGED processes
Invoke(c) ==
  \E g \in registry :
    /\ Holds(c, "idle") /\ toolCall' = [toolCall EXCEPT ![c] = [AtEase EXCEPT !.pc = "attempt", !.g = g]]
    /\ sent' = [sent EXCEPT ![c] = {}]
    /\ UNCHANGED <<registry, session, upright, born, replaced, unready, overtaken>>
-----------------------------------------------------------------------------
(* A call                                                                  *)

\* The request goes to process p: it is answered, or fails with the process
\* running or dead.
Deliver(c, p, others, onFailure) ==
  /\ sent' = [sent EXCEPT ![c] = @ \cup {p}]
  /\ \/ upright' = others \cup {p} /\ toolCall' = Done(c)
     \/ upright' = others \cup {p} /\ toolCall' = onFailure
     \/ upright' = others /\ toolCall' = onFailure

\* A new process that does not answer initialize is dropped, dead or alive.
Unready(c, g) ==
  /\ born < MaxSessions /\ born' = born + 1
  /\ upright' \in {upright, upright \cup {born'}} /\ unready' = unready \cup {born'}
  /\ session' = [session EXCEPT ![g] = NoEntry] /\ replaced' = [replaced EXCEPT ![g] = 0]
  /\ toolCall' = Done(c) /\ UNCHANGED <<registry, sent>>

\* Mutant: whether the process still runs is not asked.
DiedOrNot(g) == session[g].pid # NoSession
Died(g) == session[g].pid # NoSession /\ session[g].pid \notin upright

\* ensure_session_locked, and the request.
AttemptAlive(c) ==
  LET p == session[Group(c)].pid IN
  /\ Holds(c, "attempt") /\ p \in upright
  /\ Deliver(c, p, upright \ {p}, Goes2(c, "failed", NoSession))
  /\ UNCHANGED <<registry, session, born, replaced, unready, overtaken>>
AttemptFirst(c) ==
  LET g == Group(c) IN
  /\ Holds(c, "attempt") /\ session[g].pid = NoSession
  /\ born < MaxSessions /\ born' = born + 1
  /\ session' = [session EXCEPT ![g] = [pid |-> born', restarts |-> 0]]
  /\ Deliver(c, born', upright, Goes2(c, "failed", NoSession))
  /\ UNCHANGED <<registry, replaced, unready, overtaken>>
AttemptRestart(c) ==
  LET g == Group(c) IN
  /\ Holds(c, "attempt") /\ Died(g) /\ session[g].restarts < MaxRestarts
  /\ born < MaxSessions /\ born' = born + 1
  /\ session' = [session EXCEPT ![g] = [pid |-> born', restarts |-> @.restarts + 1]]
  /\ replaced' = [replaced EXCEPT ![g] = @ + 1]
  /\ Deliver(c, born', upright, Goes2(c, "failed", NoSession))
  /\ UNCHANGED <<registry, unready, overtaken>>
AttemptUnready(c) ==
  /\ Holds(c, "attempt")
  /\ \/ session[Group(c)].pid = NoSession
     \/ Died(Group(c)) /\ session[Group(c)].restarts < MaxRestarts
  /\ Unready(c, Group(c)) /\ UNCHANGED overtaken
\* Over the budget: the session goes, and its count with it.
AttemptRefused(c) ==
  LET g == Group(c) IN
  /\ Holds(c, "attempt") /\ Died(g) /\ session[g].restarts >= MaxRestarts
  /\ session' = [session EXCEPT ![g] = NoEntry] /\ replaced' = [replaced EXCEPT ![g] = 0]
  /\ toolCall' = Done(c) /\ UNCHANGED <<registry, upright, born, sent, unready, overtaken>>

\* Mutant: any failure is tried again.
LookAnyway(c) ==
  /\ Holds(c, "failed")
  /\ toolCall' = IF session[Group(c)].pid # NoSession THEN Goes2(c, "retry", session[Group(c)].pid) ELSE Done(c)
  /\ UNCHANGED <<registry, processes>>
\* After a failure: only if the group's process is dead is the call tried again.
Look(c) ==
  /\ Holds(c, "failed")
  /\ toolCall' = IF Died(Group(c)) THEN Goes2(c, "retry", session[Group(c)].pid) ELSE Done(c)
  /\ UNCHANGED <<registry, processes>>

Crossing(c) == LET p == session[Group(c)].pid IN
  overtaken' = IF p \in {NoSession, toolCall[c].saw} THEN overtaken ELSE overtaken \cup {p}
\* Mutant: the count is not carried over.
RetryAnew(c) ==
  LET g == Group(c) IN
  /\ Holds(c, "retry") /\ born < MaxSessions /\ born' = born + 1 /\ Crossing(c)
  /\ session' = [session EXCEPT ![g] = [pid |-> born', restarts |-> 0]]
  /\ replaced' = [replaced EXCEPT ![g] = @ + 1]
  /\ Deliver(c, born', upright, Done(c))
  /\ UNCHANGED <<registry, unready>>
\* Whatever session there is by now is replaced; the budget is not asked.
Retry(c) ==
  LET g == Group(c) IN
  /\ Holds(c, "retry") /\ born < MaxSessions /\ born' = born + 1 /\ Crossing(c)
  /\ session' = [session EXCEPT ![g] = [pid |-> born', restarts |-> @.restarts + 1]]
  /\ replaced' = [replaced EXCEPT ![g] = @ + 1]
  /\ Deliver(c, born', upright, Done(c))
  /\ UNCHANGED <<registry, unready>>
RetryUnready(c) == Holds(c, "retry") /\ Crossing(c) /\ Unready(c, Group(c))

ProcessDies(p) == p \in upright /\ upright' = upright \ {p}
                  /\ UNCHANGED <<registry, session, born, toolCall, sent, replaced, unready, overtaken>>
\* The engine is dropped, and with it the sessions of its table.
EngineDrops ==
  /\ \A c \in ToolCalls : Holds(c, "idle") /\ \E g \in Groups : session[g] # NoEntry
  /\ upright' = upright \ {session[g].pid : g \in Groups}
  /\ session' = [g \in Groups |-> NoEntry] /\ replaced' = [g \in Groups |-> 0]
  /\ UNCHANGED <<registry, born, toolCall, sent, unready, overtaken>>

ToolNext ==
  \/ \E c \in ToolCalls :
       \/ StageGroup(c) \/ StoreRegistry(c) \/ Invoke(c) \/ AttemptAlive(c) \/ AttemptFirst(c)
       \/ AttemptRestart(c) \/ AttemptUnready(c) \/ AttemptRefused(c) \/ Look(c)
       \/ Retry(c) \/ RetryUnready(c)
  \/ \E p \in Numbers : ProcessDies(p)
  \/ EngineDrops
ToolSpec == ToolInit /\ [][ToolNext]_toolVars
-----------------------------------------------------------------------------
(* Properties                                                              *)

\* A process that runs belongs to the session of a group, unless it never answered
\* initialize, or was replaced by a call that had seen an earlier one dead.
SessionsOwnProcesses ==
  \A p \in upright : (\E g \in Groups : session[g].pid = p) \/ p \in unready \cup overtaken

\* The count of a session is the number of times its process was replaced, on either
\* path, since the group's first process.
RestartsCounted ==
  \A g \in Groups : session[g].pid # NoSession => session[g].restarts = replaced[g]

\* A request is sent to two processes at most, and while no call crosses another the
\* first of them was dead before the second was asked.
RepeatedOnlyAfterDeath ==
  \A c \in ToolCalls :
    /\ Cardinality(sent[c]) <= 2
    /\ \A p, q \in sent[c] : p < q /\ p \in upright => p \in overtaken

\* What the sessions keep, whichever process dies and however calls cross.
ToolsKeep == ToolTypeOK /\ SessionsOwnProcesses /\ RestartsCounted /\ RepeatedOnlyAfterDeath
=============================================================================
