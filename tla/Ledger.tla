------------------------------ MODULE Ledger ------------------------------
(***************************************************************************)
(* The record of what was done (history.rs; audit_action of context.rs):   *)
(* each action appends a line to the history and then one to the           *)
(* contribution ledger, whose entries name the hash of the entry before    *)
(* them; every N-th entry adds a checkpoint.  Nothing is locked, a line    *)
(* reaches its file in two writes, the entry and its newline, and an       *)
(* append or a read that fails is ignored: the writer goes on.             *)
(***************************************************************************)
EXTENDS Naturals, Sequences, FiniteSets

CONSTANTS Writers,         \* calls and processes that record
          CheckpointEvery, \* provenance.checkpoint_every, 0 for never
          HashChain,       \* provenance.hash_chain
          MaxActions       \* bound on the actions recorded

ASSUME LedgerAssumption ==
  CheckpointEvery \in Nat /\ HashChain \in BOOLEAN /\ MaxActions \in Nat

Ids     == 1..MaxActions        \* an action, and the hash of its entry; 0: none
Newline == [id |-> 0, prev |-> 0]
Piece   == [id: 0..MaxActions, prev: 0..MaxActions]
Stages  == {"idle", "history", "history_nl", "tip", "entry", "entry_nl", "count"}

VARIABLES historyLog, ledgerLog, \* the two files, piece by piece
          checkpoints,           \* [entries, tip] in the order of their lines
          recorder,              \* each writer's stage, action and predecessor
          actions,               \* actions so far
          clashed,               \* history: appends overlapped, one broke off in its line, or the
                                 \* entry before could not be read
          unlogged, unentered    \* history: actions whose append to the history, to the ledger, failed

ledgerVars == <<historyLog, ledgerLog, checkpoints, recorder, actions, clashed, unlogged, unentered>>
failures == <<unlogged, unentered>>

LedgerTypeOK ==
  /\ historyLog \in Seq(Piece) /\ ledgerLog \in Seq(Piece)
  /\ checkpoints \in Seq([entries: Nat, tip: Ids])
  /\ recorder \in [Writers -> [at: Stages, id: 0..MaxActions, prev: 0..MaxActions]]
  /\ \A w \in Writers : recorder[w].at = "idle" => recorder[w].id = 0 /\ recorder[w].prev = 0
  /\ actions \in 0..MaxActions /\ clashed \in BOOLEAN
  /\ unlogged \subseteq Ids /\ unentered \subseteq Ids

Resting == [at |-> "idle", id |-> 0, prev |-> 0]
LedgerInit ==
  /\ historyLog = <<>> /\ ledgerLog = <<>> /\ checkpoints = <<>>
  /\ recorder = [w \in Writers |-> Resting] /\ actions = 0 /\ clashed = FALSE
  /\ unlogged = {} /\ unentered = {}
-----------------------------------------------------------------------------
(* Reading the ledger                                                      *)

Entries(f) == {i \in DOMAIN f : f[i].id # 0}
\* An entry that has its line for itself: others do not parse.
Alone(f, i) == (i = 1 \/ f[i - 1] = Newline) /\ (i = Len(f) \/ f[i + 1] = Newline)
IsLast(f, i) == i \in Entries(f) /\ \A j \in Entries(f) : j <= i
\* entry_count: the lines that are not empty.
LineCount(f) == Cardinality({i \in Entries(f) : i = 1 \/ f[i - 1] = Newline})

\* Mutant: the hash of the first line.
FirstHash(f) ==
  IF \E i \in Entries(f) : Alone(f, i) /\ \A j \in Entries(f) : i <= j
  THEN f[CHOOSE i \in Entries(f) : \A j \in Entries(f) : i <= j].id ELSE 0
\* read_last_hash: none when the last line does not parse.
LastHash(f) ==
  IF \E i \in DOMAIN f : IsLast(f, i) /\ Alone(f, i)
  THEN f[CHOOSE i \in DOMAIN f : IsLast(f, i)].id ELSE 0

\* verify_chain: every line parses and names its predecessor.
Verifies(f) ==
  /\ \A i \in Entries(f) : Alone(f, i)
  /\ HashChain => \A j \in Entries(f) :
       \/ f[j].prev = 0 /\ \A i \in Entries(f) : j <= i
       \/ \E i \in Entries(f) : /\ i < j /\ f[j].prev = f[i].id
                                /\ \A k \in Entries(f) : k <= i \/ j <= k
-----------------------------------------------------------------------------
(* Recording                                                               *)

Prepare(w, at) == recorder[w].at = at
Goes(w, at) == recorder' = [recorder EXCEPT ![w].at = at]
\* Mutant: the action's hashes stay.
RestsHalf(w) == Goes(w, "idle")
Rests(w) == recorder' = [recorder EXCEPT ![w] = Resting]

Act(w) ==
  /\ Prepare(w, "idle") /\ actions < MaxActions /\ actions' = actions + 1
  /\ recorder' = [recorder EXCEPT ![w] = [at |-> "history", id |-> actions', prev |-> 0]]
  /\ UNCHANGED <<historyLog, ledgerLog, checkpoints, clashed, failures>>

\* Mutant: the ledger comes first and the history is forgotten.
SkipHistory(w) ==
  /\ Prepare(w, "history") /\ Goes(w, "tip")
  /\ UNCHANGED <<historyLog, ledgerLog, checkpoints, actions, clashed, failures>>
LogHistory(w) ==
  /\ Prepare(w, "history") /\ Goes(w, "history_nl")
  /\ historyLog' = Append(historyLog, [id |-> recorder[w].id, prev |-> 0])
  /\ UNCHANGED <<ledgerLog, checkpoints, actions, clashed, failures>>
EndHistory(w) ==
  /\ Prepare(w, "history_nl") /\ Goes(w, "tip")
  /\ historyLog' = Append(historyLog, Newline)
  /\ UNCHANGED <<ledgerLog, checkpoints, actions, clashed, failures>>
\* The history cannot be opened or written: the ledger gets its entry all the same.
HistoryFails(w) ==
  /\ Prepare(w, "history") \/ Prepare(w, "history_nl")
  /\ Goes(w, "tip")
  /\ unlogged' = IF Prepare(w, "history") THEN unlogged \cup {recorder[w].id} ELSE unlogged
  /\ UNCHANGED <<historyLog, ledgerLog, checkpoints, actions, clashed, unentered>>

ReadTip(w) ==
  /\ Prepare(w, "tip")
  /\ recorder' = [recorder EXCEPT ![w].at = "entry",
                    ![w].prev = IF HashChain THEN LastHash(ledgerLog) ELSE 0]
  /\ clashed' = (clashed \/ \E v \in Writers \ {w} :
                              recorder[v].at \in {"entry", "entry_nl", "count"})
  /\ UNCHANGED <<historyLog, ledgerLog, checkpoints, actions, failures>>
\* The ledger cannot be read: the entry names no other.
TipUnread(w) ==
  /\ Prepare(w, "tip") /\ HashChain /\ Goes(w, "entry") /\ clashed' = TRUE
  /\ UNCHANGED <<historyLog, ledgerLog, checkpoints, actions, failures>>
LogEntry(w) ==
  /\ Prepare(w, "entry") /\ Goes(w, "entry_nl")
  /\ ledgerLog' = Append(ledgerLog, [id |-> recorder[w].id, prev |-> recorder[w].prev])
  /\ UNCHANGED <<historyLog, checkpoints, actions, clashed, failures>>
EndEntry(w) ==
  /\ Prepare(w, "entry_nl") /\ Goes(w, "count")
  /\ ledgerLog' = Append(ledgerLog, Newline)
  /\ UNCHANGED <<historyLog, checkpoints, actions, clashed, failures>>

\* The ledger cannot be opened or written: the lines are counted, and the entry that is
\* not there may be checkpointed.
EntryFails(w) ==
  /\ Prepare(w, "entry") \/ Prepare(w, "entry_nl")
  /\ Goes(w, "count")
  /\ unentered' = IF Prepare(w, "entry") THEN unentered \cup {recorder[w].id} ELSE unentered
  /\ clashed' = (clashed \/ Prepare(w, "entry_nl"))
  /\ UNCHANGED <<historyLog, ledgerLog, checkpoints, actions, unlogged>>

\* Mutant: the checkpoint names the entry before its own.
MarkBehind(w) ==
  LET n == LineCount(ledgerLog) IN
  /\ Prepare(w, "count") /\ Rests(w)
  /\ checkpoints' = IF CheckpointEvery > 0 /\ n > 0 /\ n % CheckpointEvery = 0
                    THEN Append(checkpoints, [entries |-> n - 1, tip |-> recorder[w].id])
                    ELSE checkpoints
  /\ UNCHANGED <<historyLog, ledgerLog, actions, clashed, failures>>
\* The lines are counted after the append.
Checkpoint(w) ==
  LET n == LineCount(ledgerLog) IN
  /\ Prepare(w, "count") /\ Rests(w)
  /\ checkpoints' = IF CheckpointEvery > 0 /\ n > 0 /\ n % CheckpointEvery = 0
                    THEN Append(checkpoints, [entries |-> n, tip |-> recorder[w].id])
                    ELSE checkpoints
  /\ UNCHANGED <<historyLog, ledgerLog, actions, clashed, failures>>

\* The process dies, between the writes of a line too; or its checkpoint fails.
RecorderDies(w) ==
  /\ ~Prepare(w, "idle") /\ Rests(w)
  /\ clashed' = (clashed \/ Prepare(w, "entry_nl"))
  /\ UNCHANGED <<historyLog, ledgerLog, checkpoints, actions, failures>>

LedgerNext ==
  \E w \in Writers :
    \/ Act(w) \/ LogHistory(w) \/ EndHistory(w) \/ HistoryFails(w) \/ ReadTip(w) \/ TipUnread(w)
    \/ LogEntry(w) \/ EndEntry(w) \/ EntryFails(w) \/ Checkpoint(w) \/ RecorderDies(w)
LedgerSpec == LedgerInit /\ [][LedgerNext]_ledgerVars
-----------------------------------------------------------------------------
(* Properties                                                              *)

\* The ledger verifies as long as no two appends have overlapped, none has broken off
\* in the middle of its line and the tip was read, whatever died before or between and
\* whichever appends failed from their start.
ChainVerifies == ~clashed => Verifies(ledgerLog)

\* And then a checkpoint names the entry that its count says, or one whose append failed:
\* that one is not in the ledger.
CheckpointsTrue ==
  ~clashed => \A m \in DOMAIN checkpoints :
    \/ checkpoints[m].tip \in unentered
    \/ \E i \in Entries(ledgerLog) :
         /\ ledgerLog[i].id = checkpoints[m].tip
         /\ Cardinality({j \in Entries(ledgerLog) : j <= i}) = checkpoints[m].entries

\* However writers overlap and die, an action is in the history before the ledger hears
\* of it: the ledger holds nothing that the history does not, but for actions whose
\* append to the history failed.
HistoryFirst ==
  \A i \in Entries(ledgerLog) :
    \/ ledgerLog[i].id \in unlogged
    \/ \E j \in Entries(historyLog) : historyLog[j].id = ledgerLog[i].id

\* What the two logs and the checkpoints keep, whoever writes and dies.
LedgerKeeps == LedgerTypeOK /\ ChainVerifies /\ CheckpointsTrue /\ HistoryFirst
=============================================================================
