----------------------------- MODULE ShellTasks -----------------------------
(***************************************************************************)
(* Commands of the shell tool (shell.rs, handle_shell): in the foreground  *)
(* a call waits for its process, in the background the process goes into a *)
(* table whose tasks count until somebody asks for their status.  Counting *)
(* and inserting take the table's lock one after the other.  The dispatch  *)
(* of every tool call has a timeout of its own, which drops the call where *)
(* it stands; a dropped process handle does not end its process.           *)
(***************************************************************************)
EXTENDS Naturals, FiniteSets

CONSTANTS Shells,         \* calls that can be under way at once
          TaskLimit,      \* MAX_ACTIVE_BACKGROUND_TASKS
          AllowBackground, \* policy.exec.allow_background
          MaxProcs,       \* bound on the processes started
          NoProc

ASSUME ShellAssumption ==
  /\ TaskLimit \in Nat \ {0} /\ MaxProcs \in Nat /\ NoProc \notin 1..MaxProcs
  /\ AllowBackground \in BOOLEAN /\ IsFiniteSet(Shells)

Procs     == 1..MaxProcs  \* a process, and the id of its task
ProcState == {"unborn", "runs", "exited", "signalled"}
ShellPCs  == {"idle", "count", "insert", "wait"}
Task      == [held: BOOLEAN, code: BOOLEAN] \* state.child is Some; state.exit_code is Some

VARIABLES proc,     \* the processes, as the system sees them
          tasks,    \* active_tasks: task ids and their states
          shellCall, \* what each call does, and its process
          cutOff,   \* history: processes whose call was dropped
          unwaited  \* history: processes whose status could not be read

shellVars == <<proc, tasks, shellCall, cutOff, unwaited>>

Table == UNION {[S -> Task] : S \in SUBSET Procs}
ShellTypeOK ==
  /\ proc \in [Procs -> ProcState] /\ tasks \in Table
  /\ shellCall \in [Shells -> [pc: ShellPCs, p: Procs \cup {NoProc}]]
  /\ \A c \in Shells : shellCall[c].pc = "idle" <=> shellCall[c].p = NoProc
  /\ cutOff \subseteq Procs /\ unwaited \subseteq Procs

NoCommand == [pc |-> "idle", p |-> NoProc]
ShellInit ==
  /\ proc = [p \in Procs |-> "unborn"] /\ tasks = [p \in {} |-> [held |-> TRUE, code |-> FALSE]]
  /\ shellCall = [c \in Shells |-> NoCommand]
  /\ cutOff = {} /\ unwaited = {}

Stands(c, pc) == shellCall[c].pc = pc
\* Mutant: the call keeps its process.
LeavesHalf(c) == shellCall' = [shellCall EXCEPT ![c].pc = "idle"]
Leaves(c) == shellCall' = [shellCall EXCEPT ![c] = NoCommand]
\* A killed process has ended; one that ended before is as it was.
Kill(p) == proc' = [proc EXCEPT ![p] = IF @ = "runs" THEN "signalled" ELSE @]
Active == {p \in DOMAIN tasks : ~tasks[p].code}
Without(p) == [q \in DOMAIN tasks \ {p} |-> tasks[q]]
-----------------------------------------------------------------------------
(* shell                                                                   *)

Execute(c, background) ==
  \E p \in Procs :
    /\ Stands(c, "idle") /\ (background => AllowBackground)
    /\ \A q \in Procs : q < p <=> proc[q] # "unborn"
    /\ proc' = [proc EXCEPT ![p] = "runs"]
    /\ shellCall' = [shellCall EXCEPT ![c] = [pc |-> IF background THEN "count" ELSE "wait", p |-> p]]
    /\ UNCHANGED <<tasks, cutOff, unwaited>>

\* Mutant: the comparison is one off.
CountOver(c) ==
  /\ Stands(c, "count")
  /\ IF Cardinality(Active) > TaskLimit
     THEN Leaves(c) /\ Kill(shellCall[c].p)
     ELSE shellCall' = [shellCall EXCEPT ![c].pc = "insert"] /\ proc' = proc
  /\ UNCHANGED <<tasks, cutOff, unwaited>>
\* Mutant: the process that is one too many is left running.
CountOnly(c) ==
  /\ Stands(c, "count")
  /\ IF Cardinality(Active) >= TaskLimit
     THEN Leaves(c)
     ELSE shellCall' = [shellCall EXCEPT ![c].pc = "insert"]
  /\ UNCHANGED <<proc, tasks, cutOff, unwaited>>
\* The process runs already; one too many is killed.
CountTasks(c) ==
  /\ Stands(c, "count")
  /\ IF Cardinality(Active) >= TaskLimit
     THEN Leaves(c) /\ Kill(shellCall[c].p)
     ELSE shellCall' = [shellCall EXCEPT ![c].pc = "insert"] /\ proc' = proc
  /\ UNCHANGED <<tasks, cutOff, unwaited>>
InsertTask(c) ==
  LET p == shellCall[c].p IN
  /\ Stands(c, "insert") /\ Leaves(c)
  /\ tasks' = [q \in DOMAIN tasks \cup {p} |-> IF q = p THEN [held |-> TRUE, code |-> FALSE] ELSE tasks[q]]
  /\ UNCHANGED <<proc, cutOff, unwaited>>

\* A foreground call reaps its process, or kills it when its own timer fires.
Answer(c) ==
  /\ Stands(c, "wait") /\ proc[shellCall[c].p] # "runs" /\ Leaves(c)
  /\ UNCHANGED <<proc, tasks, cutOff, unwaited>>
ForegroundTimeout(c) ==
  /\ Stands(c, "wait") /\ Kill(shellCall[c].p) /\ Leaves(c)
  /\ UNCHANGED <<tasks, cutOff, unwaited>>
\* The timer of the dispatch, which started first, drops the call at an await.
DispatchTimeout(c) ==
  /\ ~Stands(c, "idle") /\ Leaves(c)
  /\ cutOff' = cutOff \cup {shellCall[c].p}
  /\ UNCHANGED <<proc, tasks, unwaited>>
-----------------------------------------------------------------------------
(* Processes, status, terminate                                            *)

\* A process ends with a code, or by a signal: of its own, or because nobody
\* reads its output any more.
Ends(p) ==
  /\ proc[p] = "runs" /\ \E end \in {"exited", "signalled"} : proc' = [proc EXCEPT ![p] = end]
  /\ UNCHANGED <<tasks, shellCall, cutOff, unwaited>>

\* Mutant: the exit code is read and not kept.
StatusForgets(p) ==
  /\ p \in DOMAIN tasks
  /\ tasks' = IF ~tasks[p].held \/ proc[p] = "runs" THEN tasks
              ELSE [tasks EXCEPT ![p].held = FALSE]
  /\ UNCHANGED <<proc, shellCall, cutOff, unwaited>>
\* An exit code is noted when there is one; the handle goes either way.
Status(p) ==
  /\ p \in DOMAIN tasks
  /\ tasks' = IF ~tasks[p].held \/ proc[p] = "runs" THEN tasks
              ELSE [tasks EXCEPT ![p] = [held |-> FALSE, code |-> proc[p] = "exited"]]
  /\ UNCHANGED <<proc, shellCall, cutOff, unwaited>>
StatusFails(p) ==
  /\ p \in DOMAIN tasks /\ tasks[p].held
  /\ tasks' = [tasks EXCEPT ![p].held = FALSE] /\ unwaited' = unwaited \cup {p}
  /\ UNCHANGED <<proc, shellCall, cutOff>>
Terminate(p) ==
  /\ p \in DOMAIN tasks /\ tasks' = Without(p)
  /\ IF tasks[p].held THEN Kill(p) ELSE proc' = proc
  /\ UNCHANGED <<shellCall, cutOff, unwaited>>

ShellNext ==
  \/ \E c \in Shells :
       \/ Execute(c, TRUE) \/ Execute(c, FALSE) \/ CountTasks(c) \/ InsertTask(c)
       \/ Answer(c) \/ ForegroundTimeout(c) \/ DispatchTimeout(c)
  \/ \E p \in Procs : Ends(p) \/ Status(p) \/ StatusFails(p) \/ Terminate(p)
ShellSpec == ShellInit /\ [][ShellNext]_shellVars
-----------------------------------------------------------------------------
(* Properties                                                              *)

\* However calls overlap between counting and inserting, no more tasks count as
\* active than the limit and the calls beyond the first.
TasksBounded ==
  Cardinality(Active) + Cardinality({c \in Shells : Stands(c, "insert")})
    <= TaskLimit + Cardinality(Shells) - 1

\* A process that runs is held by a call or by the table, where terminate ends it,
\* unless its call was dropped by the dispatch or its status could not be read.
NoStrays ==
  \A p \in Procs : proc[p] = "runs" =>
    \/ \E c \in Shells : shellCall[c].p = p
    \/ p \in DOMAIN tasks /\ tasks[p].held
    \/ p \in cutOff \cup unwaited

\* A task whose process is over and was asked for takes no place any more, unless it
\* ended by a signal - then it counts until it is terminated - or could not be read.
PlacesComeFree ==
  \A p \in Active : ~tasks[p].held => proc[p] = "signalled" \/ p \in unwaited

\* What the table of tasks keeps, whichever timer fires and whoever asks.
ShellKeeps == ShellTypeOK /\ TasksBounded /\ NoStrays /\ PlacesComeFree
=============================================================================
