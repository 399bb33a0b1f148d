------------------------------ MODULE Sessions ------------------------------
(***************************************************************************)
(* Several processes on one workspace: the CURD server, the CLI, the       *)
(* language bindings.  Each EngineContext takes .curd/SESSION_LOCK or      *)
(* starts in read-only mode (context.rs, workspace.rs) and opens its own   *)
(* ShadowStore over the one manifest .curd/shadow/HEAD (transaction.rs);   *)
(* the commands that leave a workspace use the store without asking for    *)
(* the lock (workspace_lifecycle.rs).  The lock protocol is taken one file *)
(* access at a time; the operations of a store, which ShadowStore takes    *)
(* apart, are single steps here.                                           *)
(***************************************************************************)
EXTENDS FiniteSets

CONSTANTS
  Contexts,  \* engine contexts
  Pids,      \* process ids
  PidOf,     \* the process of each context
  Txs,       \* transaction uuids; bound: transactions ever begun
  Circumstances, \* the circumstances to consider, fixed for each behavior:
             \* racing: the file accesses of two processes interleave;
             \* polite: read-only contexts keep from the workspace tool, and
             \* nobody leaves a workspace that an engine has open
  NoLock, Blank, NoTx

ASSUME ContextsAssumption ==
  /\ PidOf \in [Contexts -> Pids]
  /\ NoLock \notin Pids /\ Blank \notin Pids /\ NoLock # Blank
  /\ NoTx \notin Txs
  /\ Circumstances \subseteq [racing : BOOLEAN, polite : BOOLEAN]

VARIABLES
  given,     \* the circumstances of this behavior
  lock,      \* the text of SESSION_LOCK
  alive,     \* running processes
  stands,        \* where each context is
  goal,      \* what it asked is_workspace_locked for: to open or to begin
  read_only,
  tx,        \* the transaction in the memory of its store
  head,      \* the transaction HEAD names
  dirs,      \* shadow directories on disk
  worked,    \* history: transactions with acknowledged edits
  ended      \* history: transactions somebody committed or rolled back

store == <<tx, head, dirs, worked, ended>>
sessionsVars  == <<given, lock, alive, stands, goal, read_only, store>>

SessionPlaces == {"down", "check", "read", "stale", "write", "writing", "orphaned",
           "load", "clone", "unlock", "up"}

SessionsTypeOK ==
  /\ given \in Circumstances
  /\ lock \in Pids \cup {NoLock, Blank}
  /\ alive \subseteq Pids
  /\ stands \in [Contexts -> SessionPlaces]
  /\ goal \in [Contexts -> {"open", "begin"}]
  /\ read_only \in [Contexts -> BOOLEAN]
  /\ tx \in [Contexts -> Txs \cup {NoTx}]
  /\ head \in Txs \cup {NoTx}
  /\ dirs \subseteq Txs /\ worked \subseteq Txs /\ ended \subseteq Txs

SessionsInit ==
  /\ given \in Circumstances
  /\ lock = NoLock /\ alive = {}
  /\ stands = [c \in Contexts |-> "down"]
  /\ goal = [c \in Contexts |-> "open"]
  /\ read_only = [c \in Contexts |-> FALSE]
  /\ tx = [c \in Contexts |-> NoTx] /\ head = NoTx
  /\ dirs = {} /\ worked = {} /\ ended = {}

MoveTo(c, place) == stands' = [stands EXCEPT ![c] = place]
\* Unless they race, one context finishes its call before another starts one.
Free(c) == given.racing \/ \A d \in Contexts \ {c} : stands[d] \in {"down", "up"}
Ready(c) == stands[c] = "up" /\ Free(c)
-----------------------------------------------------------------------------
(* is_workspace_locked                                                     *)

Unlocked(c) == MoveTo(c, IF goal[c] = "open" THEN "write" ELSE "clone")

Check(c) ==
  /\ stands[c] = "check"
  /\ IF lock = NoLock THEN Unlocked(c) ELSE MoveTo(c, "read")
  /\ UNCHANGED <<given, lock, alive, goal, read_only, store>>

\* Mutant: is_workspace_locked takes every other pid for a dead one.
ReadAllDead(c) ==
  /\ stands[c] = "read"
  /\ IF lock \in {NoLock, Blank, PidOf[c]} THEN Unlocked(c) ELSE MoveTo(c, "stale")
  /\ UNCHANGED <<given, lock, alive, goal, read_only, store>>

\* Mutant: is_workspace_locked never asks whether the owner lives.
ReadAllAlive(c) ==
  /\ stands[c] = "read"
  /\ IF lock \in {NoLock, Blank, PidOf[c]} THEN Unlocked(c) /\ UNCHANGED read_only
     ELSE IF goal[c] = "open"
     THEN MoveTo(c, "load") /\ read_only' = [read_only EXCEPT ![c] = TRUE]
     ELSE MoveTo(c, "up") /\ UNCHANGED read_only
  /\ UNCHANGED <<given, lock, alive, goal, store>>

\* Mutant: read_only keeps the owner of the lock instead of a flag.
ReadKeepsOwner(c) ==
  /\ stands[c] = "read"
  /\ IF lock \in {NoLock, Blank, PidOf[c]} THEN Unlocked(c) /\ UNCHANGED read_only
     ELSE MoveTo(c, "load") /\ read_only' = [read_only EXCEPT ![c] = lock]
  /\ UNCHANGED <<given, lock, alive, goal, store>>

\* Our own pid, an empty file and a file that has just gone all mean unlocked.
Read(c) ==
  /\ stands[c] = "read"
  /\ IF lock \in {NoLock, Blank, PidOf[c]} THEN Unlocked(c) /\ UNCHANGED read_only
     ELSE IF lock \notin alive THEN MoveTo(c, "stale") /\ UNCHANGED read_only
     ELSE IF goal[c] = "open"
     THEN MoveTo(c, "load") /\ read_only' = [read_only EXCEPT ![c] = TRUE]
     ELSE MoveTo(c, "up") /\ UNCHANGED read_only
  /\ UNCHANGED <<given, lock, alive, goal, store>>

\* Remove SESSION_LOCK, whatever it holds by now; whoever has it open for
\* writing goes on writing to a file without a name.
Unlink(c, place) ==
  /\ lock' = NoLock
  /\ stands' = [d \in Contexts |->
              IF d = c THEN place
              ELSE IF stands[d] = "writing" /\ lock # NoLock THEN "orphaned" ELSE stands[d]]

RemoveStale(c) ==
  /\ stands[c] = "stale"
  /\ Unlink(c, IF goal[c] = "open" THEN "write" ELSE "clone")
  /\ UNCHANGED <<given, alive, goal, read_only, store>>
-----------------------------------------------------------------------------
(* EngineContext::new, drop, and the death of a process                    *)

OpenContext(c) ==
  /\ stands[c] = "down" /\ Free(c)
  /\ alive' = alive \cup {PidOf[c]}
  /\ goal' = [goal EXCEPT ![c] = "open"]
  /\ read_only' = [read_only EXCEPT ![c] = FALSE]
  /\ MoveTo(c, "check")
  /\ UNCHANGED <<given, lock, store>>

\* fs::write truncates the file ...
Truncate(c) ==
  /\ stands[c] = "write" /\ lock' = Blank /\ MoveTo(c, "writing")
  /\ UNCHANGED <<given, alive, goal, read_only, store>>

\* ... and then writes the pid.
WritePid(c) ==
  /\ stands[c] \in {"writing", "orphaned"}
  /\ lock' = IF stands[c] = "writing" THEN PidOf[c] ELSE lock
  /\ MoveTo(c, "load")
  /\ UNCHANGED <<given, alive, goal, read_only, store>>

\* Mutant: a store that finds HEAD opens without it.
LoadNothing(c) ==
  /\ stands[c] = "load"
  /\ tx' = [tx EXCEPT ![c] = NoTx]
  /\ MoveTo(c, "up")
  /\ UNCHANGED <<given, lock, alive, goal, read_only, head, dirs, worked, ended>>

\* ShadowStore::new: adopt the transaction HEAD names, or remove HEAD.
LoadHead(c) ==
  /\ stands[c] = "load"
  /\ LET found == IF head \in dirs THEN head ELSE NoTx
     IN  tx' = [tx EXCEPT ![c] = found] /\ head' = found
  /\ MoveTo(c, "up")
  /\ UNCHANGED <<given, lock, alive, goal, read_only, dirs, worked, ended>>

\* A process ends with its last context.
Gone(c) ==
  alive' = IF \E d \in Contexts \ {c} : PidOf[d] = PidOf[c] /\ stands[d] # "down"
           THEN alive ELSE alive \ {PidOf[c]}

\* EngineContext::drop removes the lock if it holds our pid.
Drop(c) ==
  /\ Ready(c)
  /\ tx' = [tx EXCEPT ![c] = NoTx]
  /\ IF ~read_only[c] /\ lock = PidOf[c]
     THEN MoveTo(c, "unlock") /\ UNCHANGED alive
     ELSE MoveTo(c, "down") /\ Gone(c)
  /\ UNCHANGED <<given, lock, goal, read_only, head, dirs, worked, ended>>

RemoveLock(c) ==
  /\ stands[c] = "unlock" /\ Unlink(c, "down") /\ Gone(c)
  /\ UNCHANGED <<given, goal, read_only, store>>

ProcessDies(p) ==
  /\ p \in alive /\ alive' = alive \ {p}
  /\ stands' = [c \in Contexts |-> IF PidOf[c] = p THEN "down" ELSE stands[c]]
  /\ tx' = [c \in Contexts |-> IF PidOf[c] = p THEN NoTx ELSE tx[c]]
  /\ UNCHANGED <<given, lock, goal, read_only, head, dirs, worked, ended>>
-----------------------------------------------------------------------------
(* The stores                                                              *)

\* The workspace tool is open to read-only contexts.
MayUseWorkspace(c) == Ready(c) /\ (given.polite => ~read_only[c])

\* ShadowStore::begin without a transaction asks for the lock first ...
Begin(c) ==
  /\ MayUseWorkspace(c) /\ tx[c] = NoTx
  /\ goal' = [goal EXCEPT ![c] = "begin"] /\ MoveTo(c, "check")
  /\ UNCHANGED <<given, lock, alive, read_only, store>>

\* ... and then makes a shadow directory and HEAD; it never takes the lock.
Clone(c) ==
  /\ stands[c] = "clone"
  /\ \E t \in Txs \ (dirs \cup ended \cup worked) :
       /\ dirs' = dirs \cup {t} /\ head' = t /\ tx' = [tx EXCEPT ![c] = t]
  /\ MoveTo(c, "up")
  /\ UNCHANGED <<given, lock, alive, goal, read_only, worked, ended>>

\* edit and manage_file stage a file; read-only contexts are refused.  stage
\* creates the directories it misses and rewrites HEAD.
Edit(c) ==
  /\ Ready(c) /\ ~read_only[c] /\ tx[c] # NoTx
  /\ dirs' = dirs \cup {tx[c]} /\ head' = tx[c]
  /\ worked' = worked \cup {tx[c]} /\ ended' = ended \ {tx[c]}
  /\ UNCHANGED <<given, lock, alive, stands, goal, read_only, tx>>

\* diff records what it discovers in HEAD.
Diff(c) ==
  /\ MayUseWorkspace(c) /\ tx[c] # NoTx
  /\ head' = tx[c]
  /\ UNCHANGED <<given, lock, alive, stands, goal, read_only, tx, dirs, worked, ended>>

\* commit or rollback: the directory goes, and HEAD, whatever it names.
End(c) ==
  /\ MayUseWorkspace(c) /\ tx[c] # NoTx
  /\ dirs' = dirs \ {tx[c]} /\ head' = NoTx
  /\ ended' = ended \cup {tx[c]} /\ tx' = [tx EXCEPT ![c] = NoTx]
  /\ UNCHANGED <<given, lock, alive, stands, goal, read_only, worked>>

\* resolve_workspace_exit, from a process without a context: load HEAD, then
\* apply or discard.
Exit ==
  /\ given.polite => \A c \in Contexts : stands[c] = "down"
  /\ IF head \in dirs THEN dirs' = dirs \ {head} /\ ended' = ended \cup {head}
     ELSE UNCHANGED <<dirs, ended>>
  /\ head' = NoTx
  /\ UNCHANGED <<given, lock, alive, stands, goal, read_only, tx, worked>>
-----------------------------------------------------------------------------
Opening(c) == \/ Check(c) \/ Read(c) \/ RemoveStale(c) \/ Truncate(c)
              \/ WritePid(c) \/ LoadHead(c) \/ Clone(c) \/ RemoveLock(c)

SessionsNext ==
  \/ \E c \in Contexts : \/ OpenContext(c) \/ Opening(c) \/ Drop(c) \/ Begin(c)
                         \/ Edit(c) \/ Diff(c) \/ End(c)
  \/ \E p \in Pids : ProcessDies(p)
  \/ Exit

SessionsSpec == SessionsInit /\ [][SessionsNext]_sessionsVars

\* A call that has started runs on, unless its process dies.
SessionsFairSpec == SessionsSpec /\ \A c \in Contexts : WF_sessionsVars(Opening(c))
-----------------------------------------------------------------------------
(* Properties                                                              *)

\* A context past EngineContext::new that may use the risky tools.
Writer(c) ==
  /\ ~read_only[c]
  /\ \/ stands[c] \in {"load", "up", "clone", "unlock"}
     \/ stands[c] \in {"check", "read", "stale"} /\ goal[c] = "begin"

\* is_workspace_locked is there so that two processes never write at once.
NeverTwoWriters ==
  \A c, d \in Contexts : Writer(c) /\ Writer(d) => PidOf[c] = PidOf[d]

\* They never do as long as their calls do not overlap, whoever dies when.
OneWriter == ~given.racing => NeverTwoWriters

\* HEAD is there to reload an interrupted transaction: until somebody commits
\* it or rolls it back, acknowledged work is one LoadHead away.
Reloadable == \A t \in worked \ ended : head = t /\ t \in dirs

\* It stays so, however the processes that did the work ended, while calls do
\* not overlap and everyone but the writer leaves the transaction alone.
Recoverable == (~given.racing /\ given.polite) => Reloadable

\* The lock of a dead process delays nobody: a context that opens after every
\* other process has died, and while nobody else comes, becomes the writer.
StaleLockYields ==
  \A c \in Contexts :
    (stands[c] = "check" /\ goal[c] = "open" /\ alive = {PidOf[c]}) ~>
      \/ stands[c] = "up" /\ ~read_only[c]
      \/ stands[c] = "down" \/ alive # {PidOf[c]}

\* The workspace in every state: lock, HEAD and stores are of their types, and HEAD
\* leads to the work that nobody ended.
WorkSound == SessionsTypeOK /\ Recoverable
=============================================================================
