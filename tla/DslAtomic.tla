----------------------------- MODULE DslAtomic -----------------------------
(***************************************************************************)
(* Running DSL programs (PlanEngine::execute_dsl, plan/engine.rs) against  *)
(* the shadow transaction of the process.  An atomic block begins a        *)
(* savepoint, and commits or rolls it back when its nodes have run.  Every *)
(* request is a task of its own and all tasks share one ShadowStore, whose *)
(* mutex is held for one call of the store at a time.                      *)
(*                                                                         *)
(* A program is its nodes in order, a block between "atomic" and "end".    *)
(* "edit" stages a file; "fails" is a call that returns an error object;   *)
(* "abort" stands for the nodes that make execute_dsl return an error: an  *)
(* abort, and a call or an assignment that validation rejects.             *)
(***************************************************************************)
EXTENDS Naturals, Sequences, SequencesExt

CONSTANTS
  Clients,       \* requests that run programs
  Files,
  Programs,      \* of each client: well-nested sequences of records [op, file]
  MAX_DSL_DEPTH, MAX_DSL_NODES

Ops  == {"edit", "fails", "abort", "atomic", "end"}
Node == [op : Ops, file : Files]

ASSUME ProgramsAssumption == \A c \in Clients : Programs[c] \subseteq Seq(Node)
ASSUME LimitsAssumption == MAX_DSL_DEPTH \in Nat /\ MAX_DSL_NODES \in Nat

VARIABLES
  active, staged, saves,  \* ShadowStore: the open transaction and its savepoints
  shadow,   \* the files that have edits in the shadow directory
  program, mode,          \* the nodes that the execute_dsl of each client has to run
  blocks,   \* history: what each open block of each client found
  shared    \* history: a program has begun beside another, or other requests have
            \* begun, committed or rolled back

store  == <<active, staged, saves, shadow>>
client == <<program, mode, blocks>>
vars   == <<store, client, shared>>

Block  == [staged : SUBSET Files, shadow : SUBSET Files]

TypeOK ==
  /\ active \in BOOLEAN /\ staged \subseteq Files /\ saves \in Seq(SUBSET Files)
  /\ shadow \subseteq Files
  /\ program \in [Clients -> Seq(Node)]
  /\ mode \in [Clients -> {"idle", "run", "unwind"}]
  /\ blocks \in [Clients -> Seq(Block)] /\ shared \in BOOLEAN

\* A workspace session is open.
Init ==
  /\ active = TRUE /\ staged = {} /\ saves = <<>> /\ shadow = {}
  /\ program = [c \in Clients |-> <<>>]
  /\ mode = [c \in Clients |-> "idle"] /\ blocks = [c \in Clients |-> <<>>]
  /\ shared = FALSE
-----------------------------------------------------------------------------
(* The store, as WorkspaceEngine::execute calls it                         *)

StoreBegin ==
  IF active
  THEN saves' = Append(saves, staged) /\ UNCHANGED <<active, staged, shadow>>
  ELSE /\ active' = TRUE /\ staged' = {} /\ shadow' = {}
       /\ UNCHANGED saves

\* Mutant: the final commit forgets to clear the staged set.
CommitKeepsStaged ==
  IF saves # <<>>
  THEN saves' = Front(saves) /\ UNCHANGED <<active, staged, shadow>>
  ELSE active' = FALSE /\ shadow' = {} /\ UNCHANGED <<staged, saves>>

\* commit pops a savepoint, or commits the transaction if there is none.
StoreCommit ==
  IF saves # <<>>
  THEN saves' = Front(saves) /\ UNCHANGED <<active, staged, shadow>>
  ELSE /\ active' = FALSE /\ staged' = {} /\ shadow' = {}
       /\ UNCHANGED saves

\* Mutant: rollback pops the savepoint and keeps the staged set.
RollbackKeepsStaged ==
  IF ~active THEN UNCHANGED store
  ELSE IF saves # <<>> THEN saves' = Front(saves) /\ UNCHANGED <<active, staged, shadow>>
  ELSE active' = FALSE /\ staged' = {} /\ shadow' = {} /\ UNCHANGED saves

\* rollback returns to the last savepoint, or gives up the transaction.
StoreRollback ==
  IF ~active THEN UNCHANGED store
  ELSE IF saves # <<>>
  THEN /\ staged' = Last(saves) /\ saves' = Front(saves)
       /\ UNCHANGED <<active, shadow>>
  ELSE /\ active' = FALSE /\ staged' = {} /\ shadow' = {}
       /\ UNCHANGED saves
-----------------------------------------------------------------------------
(* execute_dsl                                                             *)

Opens(prog, i)  == Len(SelectSeq(SubSeq(prog, 1, i), LAMBDA n : n.op = "atomic"))
Closes(prog, i) == Len(SelectSeq(SubSeq(prog, 1, i), LAMBDA n : n.op = "end"))
\* validate_dsl_shape: the nesting and the number of nodes are limited.
ShapeOK(prog) ==
  /\ \A i \in 1..Len(prog) : Opens(prog, i) - Closes(prog, i) < MAX_DSL_DEPTH
  /\ Len(prog) - Closes(prog, Len(prog)) <= MAX_DSL_NODES

Accepted(c) == {prog \in Programs[c] : ShapeOK(prog)}

\* A program that edits is answered SESSION_REQUIRED if no session is open.
Start(c) ==
  /\ mode[c] = "idle"
  /\ \E prog \in Accepted(c) :
       /\ active \/ \A i \in DOMAIN prog : prog[i].op # "edit"
       /\ program' = [program EXCEPT ![c] = prog]
  /\ mode' = [mode EXCEPT ![c] = "run"]
  /\ shared' = (shared \/ \E d \in Clients : mode[d] # "idle")
  /\ UNCHANGED <<store, blocks>>

At(c, op) == mode[c] = "run" /\ program[c] # <<>> /\ Head(program[c]).op = op
Advance(c) == program' = [program EXCEPT ![c] = Tail(@)] /\ UNCHANGED <<mode, shared>>

\* An edit is staged; without a transaction dispatch_tool answers TRANS_BARRIER.
Edit(c) ==
  /\ At(c, "edit") /\ Advance(c)
  /\ LET f == Head(program[c]).file
     IN  IF active
         THEN /\ staged' = staged \cup {f} /\ shadow' = shadow \cup {f}
              /\ UNCHANGED <<active, saves>>
         ELSE UNCHANGED store
  /\ UNCHANGED blocks

\* A call whose result is an error object is recorded and passed over.
Fails(c) == At(c, "fails") /\ Advance(c) /\ UNCHANGED <<store, blocks>>

\* Mutant: the request takes the name of the node for its mode.
RaiseByName(c) ==
  /\ mode' = [mode EXCEPT ![c] = Head(program[c]).op]
  /\ program' = [program EXCEPT ![c] = <<>>] /\ UNCHANGED shared
Raise(c) ==
  /\ mode' = [mode EXCEPT ![c] = "unwind"]
  /\ program' = [program EXCEPT ![c] = <<>>] /\ UNCHANGED shared
Abort(c) == At(c, "abort") /\ Raise(c) /\ UNCHANGED <<store, blocks>>

Enter(c) ==
  /\ At(c, "atomic") /\ StoreBegin /\ Advance(c)
  /\ blocks' = [blocks EXCEPT ![c] =
       Append(@, [staged |-> IF active THEN staged ELSE {},
                  shadow |-> IF active THEN shadow ELSE {}])]

\* Mutant: the end of a block leaves its savepoint where it is.
LeaveUncommitted(c) ==
  /\ At(c, "end") /\ blocks[c] # <<>> /\ Advance(c)
  /\ blocks' = [blocks EXCEPT ![c] = Front(@)] /\ UNCHANGED store

\* The end of a block commits.  A commit that fails is an error of the blocks
\* around it: there is no transaction, or a file of it is in conflict.
Leave(c) ==
  /\ At(c, "end") /\ blocks[c] # <<>>
  /\ blocks' = [blocks EXCEPT ![c] = Front(@)]
  /\ \/ active /\ StoreCommit /\ Advance(c)
     \/ (active => saves = <<>> /\ staged # {}) /\ Raise(c) /\ UNCHANGED store

\* An error leaves the blocks one by one, rolling each back.
Unwind(c) ==
  /\ mode[c] = "unwind" /\ blocks[c] # <<>>
  /\ StoreRollback
  /\ blocks' = [blocks EXCEPT ![c] = Front(@)]
  /\ UNCHANGED <<program, mode, shared>>

Finish(c) ==
  /\ mode[c] # "idle" /\ program[c] = <<>> /\ blocks[c] = <<>>
  /\ mode' = [mode EXCEPT ![c] = "idle"]
  /\ UNCHANGED <<store, program, blocks, shared>>

\* Other requests use the workspace tool.
Meddle ==
  /\ shared' = TRUE
  /\ \/ Len(saves) < MAX_DSL_DEPTH /\ StoreBegin
     \/ active /\ StoreCommit
     \/ StoreRollback
  /\ UNCHANGED client
-----------------------------------------------------------------------------
Next ==
  \/ Meddle
  \/ \E c \in Clients : \/ Start(c) \/ Edit(c) \/ Fails(c) \/ Abort(c)
                        \/ Enter(c) \/ Leave(c) \/ Unwind(c) \/ Finish(c)

Spec == Init /\ [][Next]_vars
-----------------------------------------------------------------------------
(* Properties                                                              *)

Found(c) == Last(blocks[c])

\* While programs take turns, a block that is rolled back leaves staged what was
\* staged when it began.
RollbackUnstages ==
  [][\A c \in Clients : Unwind(c) /\ ~shared => staged' = Found(c).staged]_vars

\* While they do, programs return, with a result or an error, to exactly the
\* savepoints they found, and the end of a block never commits the transaction.
Balanced ==
  ~shared /\ (\A c \in Clients : mode[c] = "idle") => active /\ saves = <<>>

\* Whatever runs beside whatever, every path that is staged, or will be again
\* after a rollback, has its edit in the shadow directory; a commit silently
\* skips a staged path that has none.
StagedIsThere == staged \subseteq shadow /\ \A i \in DOMAIN saves : saves[i] \subseteq shadow

\* DslNode says that a failed block's shadow edits are rolled back: for a program
\* that has the transaction to itself.
RollbackUndoesEdits ==
  [][\A c \in Clients : Unwind(c) /\ ~shared => shadow' = Found(c).shadow]_vars

\* The stack of savepoints in every state: it has its type and returns to empty.
StackSound == TypeOK /\ Balanced
=============================================================================
