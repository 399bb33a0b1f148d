------------------------------- MODULE Serving -------------------------------
(***************************************************************************)
(* The loop of the MCP server (mcp.rs, run): it reads a line, lets a task  *)
(* of its own answer it, and bridges the events of the engine; what they   *)
(* send goes through one channel to a task that writes it to stdout.  The  *)
(* engine's context is made meanwhile.  After the last line the server     *)
(* waits for its tasks and for what they sent to be written.               *)
(***************************************************************************)
EXTENDS Naturals, Sequences, FiniteSets

CONSTANTS
  Lines,      \* what may come in: sequences of kinds of lines
  ChannelCap, \* what the channel holds
  MaxEvents   \* bound: events of the engine

ASSUME ServingAssumption == ChannelCap \in Nat \ {0} /\ MaxEvents \in Nat

\* The kinds of lines: requests, and lines that nobody answers.
Requests == {"initialize", "list", "call", "unknown", "disabled"}
Unanswered == {"notification", "garbage"}

VARIABLES
  input,    \* the lines of this behavior
  taken,    \* how many of them have been read
  made,     \* the context: being made, there, or failed
  awaited,  \* whether the loop still waits for the context, once it needs it
  has_context, \* whether the loop has it
  loop,     \* where the loop is
  tasks,    \* the task of each line: not begun, at work, answering with what, or gone
  events,   \* events of the engine that have not been bridged
  sent, out,\* the channel, and what is written to stdout
  emitted   \* history: how many events there have been

servingVars == <<input, taken, made, awaited, has_context, loop, tasks, events, sent, out, emitted>>

ServingInit ==
  /\ input \in Lines /\ taken = 0
  /\ made = "making" /\ awaited = TRUE /\ has_context = FALSE
  /\ loop = "line"
  /\ tasks = [i \in DOMAIN input |-> "none"]
  /\ events = 0 /\ sent = <<>> /\ out = <<>> /\ emitted = 0
-----------------------------------------------------------------------------
(* The loop                                                                *)

ContextIsMade ==
  /\ made = "making" /\ made' \in {"made", "failed"}
  /\ UNCHANGED <<input, taken, awaited, has_context, loop, tasks, events, sent, out, emitted>>

\* What the task of a line will do, given the context that the loop had for it: only the
\* call of a tool has something to work at before it answers.
Begun(kind, context) ==
  CASE kind = "disabled" -> "Method disabled"
    [] kind = "initialize" -> "initialized"
    [] ~context -> "Server initializing"
    [] kind = "list" -> "tools"
    [] kind = "call" -> "working"
    [] OTHER -> "Method not found"
Spawn(i, context) == tasks' = [tasks EXCEPT ![i] = Begun(input[i], context)]

\* A request that needs the context has the loop wait for it; initialize does not.
Needs(kind) == ~has_context /\ awaited /\ kind # "initialize"
ReadLine ==
  /\ loop = "line" /\ taken < Len(input)
  /\ taken' = taken + 1
  /\ LET kind == input[taken + 1]
     IN  IF kind \in Unanswered THEN loop' = (IF kind = "garbage" THEN "bridge" ELSE "line") /\ UNCHANGED tasks
         ELSE IF Needs(kind) THEN loop' = "context" /\ UNCHANGED tasks
         ELSE loop' = "bridge" /\ Spawn(taken + 1, has_context)
  /\ UNCHANGED <<input, made, awaited, has_context, events, sent, out, emitted>>
\* Mutant: the loop does not wait for a context that is not there yet.
AwaitNothing ==
  /\ loop = "context"
  /\ has_context' = (made = "made") /\ awaited' = FALSE
  /\ Spawn(taken, made = "made") /\ loop' = "bridge"
  /\ UNCHANGED <<input, taken, made, events, sent, out, emitted>>
AwaitContext ==
  /\ loop = "context" /\ made # "making"
  /\ has_context' = (made = "made") /\ awaited' = FALSE
  /\ Spawn(taken, made = "made") /\ loop' = "bridge"
  /\ UNCHANGED <<input, taken, made, events, sent, out, emitted>>
\* After a request the loop passes on what events there are, as far as the channel has room.
BridgeEvent ==
  /\ loop = "bridge" /\ has_context /\ events > 0
  /\ Len(sent) < ChannelCap
  /\ sent' = Append(sent, <<0, "event">>) /\ events' = events - 1
  /\ UNCHANGED <<input, taken, made, awaited, has_context, loop, tasks, out, emitted>>
Bridged ==
  /\ loop = "bridge" /\ (~has_context \/ events = 0)
  /\ loop' = "line"
  /\ UNCHANGED <<input, taken, made, awaited, has_context, tasks, events, sent, out, emitted>>
\* The end of the input: the loop waits for every task.
Join ==
  /\ loop = "line" /\ taken = Len(input)
  /\ \A i \in DOMAIN input : tasks[i] \in {"none", "gone"}
  /\ loop' = "flush"
  /\ UNCHANGED <<input, taken, made, awaited, has_context, tasks, events, sent, out, emitted>>
-----------------------------------------------------------------------------
(* The tasks and the writer                                                *)

EventHappens(i) ==
  /\ tasks[i] = "working" /\ emitted < MaxEvents
  /\ events' = events + 1 /\ emitted' = emitted + 1
  /\ UNCHANGED <<input, taken, made, awaited, has_context, loop, tasks, sent, out>>
\* handle_tools_call: it returns, whatever the tool did.
CallReturns(i) ==
  /\ tasks[i] = "working" /\ tasks' = [tasks EXCEPT ![i] = "result"]
  /\ UNCHANGED <<input, taken, made, awaited, has_context, loop, events, sent, out, emitted>>
\* finalize_response gives the answer the id of its request.
Reply(i) ==
  /\ tasks[i] \notin {"none", "working", "gone"} /\ Len(sent) < ChannelCap
  /\ sent' = Append(sent, <<i, tasks[i]>>)
  /\ tasks' = [tasks EXCEPT ![i] = "gone"]
  /\ UNCHANGED <<input, taken, made, awaited, has_context, loop, events, out, emitted>>
WriteOut ==
  /\ sent # <<>>
  /\ out' = Append(out, Head(sent)) /\ sent' = Tail(sent)
  /\ UNCHANGED <<input, taken, made, awaited, has_context, loop, tasks, events, emitted>>

\* Those who can still send: a task until it is gone, the loop until it flushes, and
\* tx_events_out, which lives as long as run does.
Senders == {i \in DOMAIN input : tasks[i] \notin {"none", "gone"}}
           \cup (IF loop = "flush" THEN {} ELSE {"loop"}) \cup {"tx_events_out"}
\* The writer ends when the channel is empty and nobody can send; only then does run go on
\* to freeze the sessions and return.
MayReturn == loop = "flush" /\ sent = <<>> /\ Senders = {}

LoopSteps == ReadLine \/ AwaitContext \/ BridgeEvent \/ Bridged \/ Join
TaskAnswers(i) == i \in DOMAIN input /\ (CallReturns(i) \/ Reply(i))
ServingNext ==
  \/ ContextIsMade \/ LoopSteps \/ WriteOut
  \/ \E i \in DOMAIN input : TaskAnswers(i) \/ EventHappens(i)
\* The runtime does not stop while a task can go on, stdout is read, and a tool returns.
ServingFair == WF_servingVars(ServingNext)
ServingSpec == ServingInit /\ [][ServingNext]_servingVars /\ ServingFair
-----------------------------------------------------------------------------
(* Properties                                                              *)

Answers(i) == SelectSeq(out, LAMBDA m : m[1] = i)
\* Every request that comes in is answered on stdout, and never twice, whatever the others
\* do and however the events come in between; the server says that it is initializing only
\* when its context could not be made, and has one for whoever asks for a tool.
OneAnswerEach ==
  \A i \in DOMAIN input :
    /\ Len(Answers(i)) = IF input[i] \in Requests THEN 1 ELSE 0
    /\ \A k \in DOMAIN Answers(i) :
         /\ Answers(i)[k][2] = "Server initializing" => made = "failed"
         /\ input[i] = "call" /\ made = "made" => Answers(i)[k][2] = "result"
ServesAll == <>[]OneAnswerEach

\* "Drop the last transmitter so the writer task's receiver can terminate": when its input
\* has ended the server comes to its end.
ReturnsAfterInput == <>MayReturn
=============================================================================
