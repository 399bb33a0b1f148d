--------------------------- MODULE Records_proofs ----------------------------
(***************************************************************************)
(* Proofs about what is recorded, what runs outside the engine and what is *)
(* edited: the ledger of actions, the table of background tasks, the       *)
(* sessions of tools and the edits of a file, for any number of writers,   *)
(* commands, groups, calls and editors.  Each part opens with the inductive *)
(* invariant that its theorem rests on.                                    *)
(***************************************************************************)
EXTENDS Ledger, ShellTasks, ToolSessions, Editing, FiniteSetTheorems, SequenceTheorems, WellFoundedInduction, TLAPS

-----------------------------------------------------------------------------
(* The ledger: an append that nobody crosses finds whole, chained lines.   *)

\* A file of lines, the last of which may still lack its newline.
Lines(f) ==
  \A i \in 1..Len(f) : \/ f[i] = Newline /\ i > 1 /\ f[i - 1].id # 0
                       \/ f[i].id # 0 /\ (i = 1 \/ f[i - 1] = Newline)
Ended(f) == Len(f) = 0 \/ f[Len(f)] = Newline
\* Each entry names the one before it.
Chained(f) ==
  HashChain => \A j \in 1..Len(f) : f[j].id # 0 => f[j].prev = IF j = 1 THEN 0 ELSE f[j - 2].id
Appending(w) == recorder[w].at \in {"entry", "entry_nl", "count"}

\* What an append that nobody crosses finds and leaves.
AppendsSound ==
  /\ Lines(ledgerLog) /\ Chained(ledgerLog)
  /\ \A w, v \in Writers : Appending(w) /\ Appending(v) => w = v
  /\ (\A w \in Writers : recorder[w].at # "entry_nl") => Ended(ledgerLog)
  /\ \A w \in Writers :
       /\ recorder[w].at = "entry" /\ HashChain => recorder[w].prev = LastHash(ledgerLog)
       /\ recorder[w].at = "entry_nl" => Len(ledgerLog) > 0 /\ ledgerLog[Len(ledgerLog)].id = recorder[w].id
       /\ recorder[w].at = "count" /\ recorder[w].id \notin unentered =>
            /\ Len(ledgerLog) > 1 /\ ledgerLog[Len(ledgerLog)] = Newline
            /\ ledgerLog[Len(ledgerLog) - 1].id = recorder[w].id
\* Who has written the history knows its entry there, or that it failed.
HistoryKnows ==
  \A w \in Writers : recorder[w].at # "idle" =>
    /\ recorder[w].id \in Ids
    /\ recorder[w].at # "history" => \/ recorder[w].id \in unlogged
                                     \/ \E j \in DOMAIN historyLog : historyLog[j].id = recorder[w].id
LedgerInv ==
  LedgerTypeOK /\ HistoryKnows /\ HistoryFirst /\ CheckpointsTrue /\ (~clashed => AppendsSound)
-----------------------------------------------------------------------------
(* Files                                                                   *)

\* One more piece leaves those before it where they are.
LEMMA Appended ==
  ASSUME NEW f \in Seq(Piece), NEW e \in Piece
  PROVE  /\ Append(f, e) \in Seq(Piece) /\ Len(Append(f, e)) = Len(f) + 1 /\ Len(f) \in Nat
         /\ DOMAIN Append(f, e) = 1..(Len(f) + 1) /\ DOMAIN f = 1..Len(f)
         /\ \A i \in 1..Len(f) : Append(f, e)[i] = f[i]
         /\ Append(f, e)[Len(f) + 1] = e
<1>1. /\ Append(f, e) \in Seq(Piece) /\ Len(Append(f, e)) = Len(f) + 1
      /\ \A i \in 1..Len(f) : Append(f, e)[i] = f[i]
      /\ Append(f, e)[Len(f) + 1] = e
  BY AppendProperties
<1>2. Len(f) \in Nat /\ DOMAIN f = 1..Len(f) BY LenProperties
<1>3. DOMAIN Append(f, e) = 1..Len(Append(f, e)) BY <1>1, LenProperties
<1> QED BY <1>1, <1>2, <1>3

LEMMA NewlineTyped == Newline \in Piece /\ Newline.id = 0
  BY LedgerAssumption DEF Newline, Piece

\* The hash of the last of whole lines.
LEMMA LastHashDef ==
  ASSUME NEW f \in Seq(Piece), Lines(f), Ended(f)
  PROVE  LastHash(f) = IF Len(f) = 0 THEN 0 ELSE f[Len(f) - 1].id
<1>1. Len(f) \in Nat /\ DOMAIN f = 1..Len(f) BY LenProperties
<1>2. CASE Len(f) = 0
  <2>1. ~\E i \in DOMAIN f : IsLast(f, i) /\ Alone(f, i) BY <1>1, <1>2
  <2> QED BY <1>2, <2>1 DEF LastHash
<1>3. CASE Len(f) # 0
  <2> DEFINE n == Len(f) - 1
  <2>1. f[n + 1] = Newline /\ n + 1 \in 1..Len(f) /\ n \in Int BY <1>1, <1>3 DEF Ended
  <2>2. n \in 1..Len(f) /\ f[n].id # 0
    BY <1>1, <2>1, NewlineTyped DEF Lines
  <2>3. IsLast(f, n)
    <3>1. \A j \in 1..Len(f) : f[j].id # 0 => j <= n BY <1>1, <2>1, NewlineTyped
    <3> QED BY <1>1, <2>2, <3>1 DEF IsLast, Entries
  <2>4. \A i \in DOMAIN f : IsLast(f, i) => i = n
    BY <1>1, <2>2, <2>3 DEF IsLast, Entries
  <2>5. Alone(f, n)
    <3>1. n = 1 \/ f[n - 1] = Newline BY <2>2, NewlineTyped DEF Lines
    <3> QED BY <3>1, <2>1 DEF Alone
  <2>6. (CHOOSE i \in DOMAIN f : IsLast(f, i)) = n
    BY <1>1, <2>2, <2>3, <2>4
  <2>7. \E i \in DOMAIN f : IsLast(f, i) /\ Alone(f, i) BY <1>1, <2>2, <2>3, <2>5
  <2> HIDE DEF n
  <2>8. LastHash(f) = f[n].id BY <2>6, <2>7 DEF LastHash
  <2> QED BY <2>8, <1>3 DEF n
<1> QED BY <1>2, <1>3

\* Chained lines verify.
LEMMA LinesVerify ==
  ASSUME NEW f \in Seq(Piece), Lines(f), Chained(f)
  PROVE  Verifies(f)
<1>1. Len(f) \in Nat /\ DOMAIN f = 1..Len(f) BY LenProperties
<1>2. \A i \in Entries(f) : i \in 1..Len(f) /\ f[i].id # 0 /\ (i = 1 \/ f[i - 1] = Newline)
  BY <1>1, NewlineTyped DEF Entries, Lines
<1>3. ASSUME NEW i \in Entries(f) PROVE Alone(f, i)
  <2>1. ASSUME i # Len(f) PROVE f[i + 1] = Newline
    <3>1. i + 1 \in 1..Len(f) /\ (i + 1) - 1 = i /\ i + 1 # 1 BY <1>1, <1>2, <2>1
    <3>2. f[i].id # 0 BY <1>2
    <3>3. f[i + 1] = Newline \/ f[(i + 1) - 1] = Newline BY <3>1 DEF Lines
    <3> QED BY <3>1, <3>2, <3>3, NewlineTyped
  <2> QED BY <2>1, <1>2 DEF Alone
<1>4. ASSUME HashChain, NEW j \in Entries(f)
      PROVE  \/ f[j].prev = 0 /\ \A i \in Entries(f) : j <= i
             \/ \E i \in Entries(f) : /\ i < j /\ f[j].prev = f[i].id
                                      /\ \A k \in Entries(f) : k <= i \/ j <= k
  <2>1. CASE j = 1
    <3>1. f[j].prev = 0 BY <1>2, <1>4, <2>1 DEF Chained
    <3>2. \A i \in Entries(f) : i \in 1..Len(f) BY <1>2
    <3>3. \A i \in Entries(f) : j <= i BY ONLY <1>1, <2>1, <3>2
    <3> QED BY <3>1, <3>3
  <2>2. CASE j # 1
    <3>1. f[j - 1] = Newline /\ j - 1 \in 1..Len(f) /\ j \in Nat BY <1>1, <1>2, <2>2
    <3>2. j - 1 > 1 /\ f[(j - 1) - 1].id # 0 BY <3>1, NewlineTyped DEF Lines
    <3>3. (j - 1) - 1 = j - 2 /\ j - 2 \in 1..Len(f) BY <1>1, <3>1, <3>2
    <3>4. j - 2 \in Entries(f) BY <1>1, <3>2, <3>3 DEF Entries
    <3>5. f[j].prev = f[j - 2].id BY <1>2, <1>4, <2>2 DEF Chained
    <3>6. \A k \in Entries(f) : k <= j - 2 \/ j <= k
      <4> TAKE k \in Entries(f)
      <4>1. k \in Nat /\ f[k].id # 0 BY <1>2
      <4>2. k # j - 1 BY <4>1, <3>1, NewlineTyped
      <4> QED BY <4>1, <4>2, <3>1
    <3>7. j - 2 < j BY <3>1
    <3> QED BY <3>4, <3>5, <3>6, <3>7
  <2> QED BY <2>1, <2>2
<1> QED BY <1>3, <1>4 DEF Verifies
-----------------------------------------------------------------------------
(* Steps                                                                   *)

LEMMA LedgerStarts == LedgerInit => LedgerInv
<1> SUFFICES ASSUME LedgerInit PROVE LedgerInv OBVIOUS
<1> USE LedgerAssumption DEF LedgerInit
<1>1. LedgerTypeOK
  <2>1. Resting \in [at: Stages, id: 0..MaxActions, prev: 0..MaxActions]
    BY DEF Resting, Stages
  <2>2. \A w \in Writers : recorder[w] = Resting OBVIOUS
  <2>3. recorder \in [Writers -> [at: Stages, id: 0..MaxActions, prev: 0..MaxActions]]
    BY <2>1
  <2>4. historyLog \in Seq(Piece) /\ ledgerLog \in Seq(Piece)
        /\ checkpoints \in Seq([entries: Nat, tip: Ids])
    BY EmptySeq
  <2>5. \A w \in Writers : recorder[w].id = 0 /\ recorder[w].prev = 0 BY <2>2 DEF Resting
  <2>6. actions \in 0..MaxActions OBVIOUS
  <2>7. clashed \in BOOLEAN OBVIOUS
  <2> QED BY <2>3, <2>4, <2>5, <2>6, <2>7 DEF LedgerTypeOK
<1>2. Entries(ledgerLog) = {} /\ DOMAIN checkpoints = {} BY DEF Entries
<1>3. HistoryKnows BY DEF HistoryKnows, Resting
<1>4. HistoryFirst /\ CheckpointsTrue BY <1>2 DEF HistoryFirst, CheckpointsTrue
<1>5. AppendsSound
  <2>1. Lines(ledgerLog) /\ Chained(ledgerLog) /\ Ended(ledgerLog)
    BY DEF Lines, Chained, Ended
  <2>2. \A w \in Writers : recorder[w].at = "idle" BY DEF Resting
  <2> QED BY <2>1, <2>2 DEF AppendsSound, Appending
<1> QED BY <1>1, <1>3, <1>4, <1>5 DEF LedgerInv

\* A writer goes to its next stage.
LEMMA StageMoves ==
  ASSUME LedgerTypeOK, NEW w \in Writers, NEW at \in Stages, at # "idle", Goes(w, at)
  PROVE  /\ recorder' \in [Writers -> [at: Stages, id: 0..MaxActions, prev: 0..MaxActions]]
         /\ \A v \in Writers : recorder'[v].at = "idle" => recorder'[v].id = 0 /\ recorder'[v].prev = 0
         /\ recorder'[w].at = at /\ recorder'[w].id = recorder[w].id
         /\ recorder'[w].prev = recorder[w].prev
         /\ \A v \in Writers : v # w => recorder'[v] = recorder[v]
<1>1. recorder \in [Writers -> [at: Stages, id: 0..MaxActions, prev: 0..MaxActions]]
  BY DEF LedgerTypeOK
<1>2. /\ recorder' \in [Writers -> [at: Stages, id: 0..MaxActions, prev: 0..MaxActions]]
      /\ recorder'[w].at = at /\ recorder'[w].id = recorder[w].id
      /\ recorder'[w].prev = recorder[w].prev
  BY <1>1 DEF Goes
<1>3. \A v \in Writers : v # w => recorder'[v] = recorder[v] BY <1>1 DEF Goes
<1> QED BY <1>2, <1>3 DEF LedgerTypeOK

\* A piece at the end of the ledger changes no entry before it, nor their number.
LEMMA EntriesStay ==
  ASSUME NEW f \in Seq(Piece), NEW e \in Piece
  PROVE  \A i \in Entries(f) :
           /\ i \in Entries(Append(f, e)) /\ Append(f, e)[i] = f[i]
           /\ {j \in Entries(Append(f, e)) : j <= i} = {j \in Entries(f) : j <= i}
<1> DEFINE g == Append(f, e)
<1>1. /\ Len(f) \in Nat /\ DOMAIN g = 1..(Len(f) + 1) /\ DOMAIN f = 1..Len(f)
      /\ \A i \in 1..Len(f) : g[i] = f[i]
  BY Appended
<1> HIDE DEF g
<1>2. ASSUME NEW i \in Entries(f)
      PROVE  /\ i \in Entries(g) /\ g[i] = f[i]
             /\ {j \in Entries(g) : j <= i} = {j \in Entries(f) : j <= i}
  <2>1. i \in 1..Len(f) /\ g[i] = f[i] /\ f[i].id # 0 BY <1>1 DEF Entries
  <2>2. i \in Entries(g) BY <1>1, <2>1 DEF Entries
  <2>3. \A j : j \in Entries(g) /\ j <= i <=> j \in Entries(f) /\ j <= i
    BY <1>1, <2>1 DEF Entries
  <2> QED BY <2>1, <2>2, <2>3
<1> QED BY <1>2 DEF g

\* So what is said of the entries, the checkpoints and the history stays true.
LEMMA TrueStays ==
  ASSUME LedgerTypeOK, NEW e \in Piece, ledgerLog' = Append(ledgerLog, e),
         UNCHANGED <<historyLog, checkpoints, clashed, unlogged, unentered>>, CheckpointsTrue, HistoryFirst,
         e.id # 0 => e.id \in unlogged \/ \E j \in Entries(historyLog) : historyLog[j].id = e.id
  PROVE  CheckpointsTrue' /\ HistoryFirst' /\ ledgerLog' \in Seq(Piece)
<1>1. ledgerLog \in Seq(Piece) BY DEF LedgerTypeOK
<1>2. \A i \in Entries(ledgerLog) :
        /\ i \in Entries(ledgerLog') /\ ledgerLog'[i] = ledgerLog[i]
        /\ {j \in Entries(ledgerLog') : j <= i} = {j \in Entries(ledgerLog) : j <= i}
  BY <1>1, EntriesStay
<1>3. /\ Len(ledgerLog) \in Nat /\ DOMAIN ledgerLog' = 1..(Len(ledgerLog) + 1)
      /\ ledgerLog' \in Seq(Piece) /\ ledgerLog'[Len(ledgerLog) + 1] = e
      /\ \A i \in 1..Len(ledgerLog) : ledgerLog'[i] = ledgerLog[i]
      /\ DOMAIN ledgerLog = 1..Len(ledgerLog)
  BY <1>1, Appended
<1>4. CheckpointsTrue'
  <2> SUFFICES ASSUME ~clashed, NEW m \in DOMAIN checkpoints, checkpoints[m].tip \notin unentered
               PROVE  \E i \in Entries(ledgerLog') :
                        /\ ledgerLog'[i].id = checkpoints[m].tip
                        /\ Cardinality({j \in Entries(ledgerLog') : j <= i}) = checkpoints[m].entries
    BY DEF CheckpointsTrue
  <2>1. PICK i \in Entries(ledgerLog) :
          /\ ledgerLog[i].id = checkpoints[m].tip
          /\ Cardinality({j \in Entries(ledgerLog) : j <= i}) = checkpoints[m].entries
    BY DEF CheckpointsTrue
  <2> QED BY <1>2, <2>1
<1>5. \A i \in Entries(ledgerLog') : i \in Entries(ledgerLog) \/ i = Len(ledgerLog) + 1
  BY <1>3 DEF Entries
<1>6. HistoryFirst'
  <2> SUFFICES ASSUME NEW i \in Entries(ledgerLog')
               PROVE  \/ ledgerLog'[i].id \in unlogged
                      \/ \E j \in Entries(historyLog) : historyLog[j].id = ledgerLog'[i].id
    BY DEF HistoryFirst
  <2>1. CASE i \in Entries(ledgerLog) BY <2>1, <1>2 DEF HistoryFirst
  <2>2. CASE i = Len(ledgerLog) + 1
    <3>1. ledgerLog'[i] = e /\ e.id # 0 BY <1>3, <2>2 DEF Entries
    <3> QED BY <3>1
  <2> QED BY <2>1, <2>2, <1>5
<1> QED BY <1>3, <1>4, <1>6

\* A step of w that leaves the ledger alone, at a stage that is no append, leaves
\* the appends sound.
LEMMA AppendsStay ==
  ASSUME AppendsSound, UNCHANGED <<ledgerLog, unentered>>, NEW w \in Writers,
         \A v \in Writers : v # w => recorder'[v] = recorder[v],
         recorder'[w].at \in {"idle", "history", "history_nl", "tip"},
         recorder[w].at # "entry_nl"
  PROVE  AppendsSound'
<1>1. \A v \in Writers : (Appending(v))' => v # w /\ Appending(v) BY DEF Appending
<1>2. (\A v \in Writers : recorder'[v].at # "entry_nl") => \A v \in Writers : recorder[v].at # "entry_nl"
  OBVIOUS
<1>3. Lines(ledgerLog') /\ Chained(ledgerLog') /\ LastHash(ledgerLog') = LastHash(ledgerLog)
  BY DEF AppendsSound
<1>4. \A v, u \in Writers : (Appending(v))' /\ (Appending(u))' => v = u BY <1>1 DEF AppendsSound
<1>5. (\A v \in Writers : recorder'[v].at # "entry_nl") => Ended(ledgerLog') BY <1>2 DEF AppendsSound
<1>6. \A v \in Writers :
       /\ recorder'[v].at = "entry" /\ HashChain => recorder'[v].prev = LastHash(ledgerLog')
       /\ recorder'[v].at = "entry_nl" =>
            Len(ledgerLog') > 0 /\ ledgerLog'[Len(ledgerLog')].id = recorder'[v].id
       /\ recorder'[v].at = "count" /\ recorder'[v].id \notin unentered' =>
            /\ Len(ledgerLog') > 1 /\ ledgerLog'[Len(ledgerLog')] = Newline
            /\ ledgerLog'[Len(ledgerLog') - 1].id = recorder'[v].id
  <2> TAKE v \in Writers
  <2>1. CASE v = w BY <2>1
  <2>2. CASE v # w
    <3>1. recorder'[v] = recorder[v] /\ ledgerLog' = ledgerLog /\ unentered' = unentered BY <2>2
    <3> QED BY <3>1, <1>3 DEF AppendsSound
  <2> QED BY <2>1, <2>2
<1> QED BY <1>3, <1>4, <1>5, <1>6 DEF AppendsSound

LEMMA ActKeeps ==
  ASSUME LedgerInv, NEW w \in Writers, Act(w) PROVE LedgerInv'
<1> USE LedgerAssumption DEF LedgerInv, Act, Prepare, failures
<1>1. LedgerTypeOK OBVIOUS
<1> DEFINE r == [at |-> "history", id |-> actions', prev |-> 0]
<1>2. actions' \in 0..MaxActions /\ actions' \in Ids /\ actions' # 0 BY DEF LedgerTypeOK, Ids
<1>3. r \in [at: Stages, id: 0..MaxActions, prev: 0..MaxActions] BY <1>2 DEF Stages
<1>4. /\ recorder' = [recorder EXCEPT ![w] = r]
      /\ recorder \in [Writers -> [at: Stages, id: 0..MaxActions, prev: 0..MaxActions]]
  BY <1>1 DEF LedgerTypeOK
<1>5. r.at = "history" /\ r.id = actions' OBVIOUS
<1> HIDE DEF r
<1>6. /\ recorder' \in [Writers -> [at: Stages, id: 0..MaxActions, prev: 0..MaxActions]]
      /\ recorder'[w] = r /\ \A v \in Writers : v # w => recorder'[v] = recorder[v]
  BY <1>3, <1>4
<1>7. LedgerTypeOK' BY <1>1, <1>2, <1>5, <1>6 DEF LedgerTypeOK
<1>8. HistoryKnows' BY <1>2, <1>5, <1>6 DEF HistoryKnows
<1>9. HistoryFirst' /\ CheckpointsTrue' BY DEF HistoryFirst, CheckpointsTrue
<1>10. ~clashed' => AppendsSound' BY <1>5, <1>6, AppendsStay
<1> QED BY <1>7, <1>8, <1>9, <1>10

LEMMA HistoryKeeps ==
  ASSUME LedgerInv, NEW w \in Writers, LogHistory(w) \/ EndHistory(w) PROVE LedgerInv'
<1> USE LedgerAssumption DEF LedgerInv, Prepare, failures
<1>1. LedgerTypeOK /\ historyLog \in Seq(Piece) BY DEF LedgerTypeOK
<1> DEFINE next == IF recorder[w].at = "history" THEN "history_nl" ELSE "tip"
           e == IF recorder[w].at = "history" THEN [id |-> recorder[w].id, prev |-> 0] ELSE Newline
<1>2. /\ recorder[w].at \in {"history", "history_nl"} /\ Goes(w, next) /\ next \in {"history_nl", "tip"}
      /\ historyLog' = Append(historyLog, e)
      /\ UNCHANGED <<ledgerLog, checkpoints, actions, clashed, unlogged, unentered>>
  BY DEF LogHistory, EndHistory
<1>3. e \in Piece /\ (recorder[w].at = "history" => e.id = recorder[w].id)
  BY <1>1, NewlineTyped DEF LedgerTypeOK, Piece
<1> HIDE DEF next, e
<1>4. next \in Stages /\ next # "idle" BY <1>2 DEF Stages
<1>5. /\ recorder' \in [Writers -> [at: Stages, id: 0..MaxActions, prev: 0..MaxActions]]
      /\ \A v \in Writers : recorder'[v].at = "idle" => recorder'[v].id = 0 /\ recorder'[v].prev = 0
      /\ recorder'[w].at = next /\ recorder'[w].id = recorder[w].id
      /\ \A v \in Writers : v # w => recorder'[v] = recorder[v]
  BY <1>1, <1>2, <1>4, StageMoves
<1>6. /\ historyLog' \in Seq(Piece) /\ Len(historyLog) \in Nat
      /\ DOMAIN historyLog' = 1..(Len(historyLog) + 1) /\ DOMAIN historyLog = 1..Len(historyLog)
      /\ \A i \in 1..Len(historyLog) : historyLog'[i] = historyLog[i]
      /\ historyLog'[Len(historyLog) + 1] = e
  BY <1>1, <1>2, <1>3, Appended
<1>7. LedgerTypeOK' BY <1>1, <1>2, <1>5, <1>6 DEF LedgerTypeOK
<1>8. HistoryKnows'
  <2> SUFFICES ASSUME NEW v \in Writers, recorder'[v].at # "idle"
               PROVE  /\ recorder'[v].id \in Ids
                      /\ recorder'[v].at # "history" =>
                           \/ recorder'[v].id \in unlogged
                           \/ \E j \in DOMAIN historyLog' : historyLog'[j].id = recorder'[v].id
    BY <1>2 DEF HistoryKnows
  <2>1. recorder'[v].id = recorder[v].id /\ recorder[v].at # "idle" BY <1>2, <1>5
  <2>2. CASE v = w /\ recorder[w].at = "history"
    <3>1. historyLog'[Len(historyLog) + 1].id = recorder'[v].id BY <1>3, <1>6, <2>1, <2>2
    <3>2. Len(historyLog) + 1 \in DOMAIN historyLog' BY <1>6
    <3> QED BY <2>1, <3>1, <3>2 DEF HistoryKnows
  <2>3. CASE ~(v = w /\ recorder[w].at = "history")
    <3>1. recorder'[v].at # "history" => recorder[v].at # "history" BY <1>2, <1>5, <2>3
    <3>2. \A j \in DOMAIN historyLog : j \in DOMAIN historyLog' /\ historyLog'[j] = historyLog[j] BY <1>6
    <3> QED BY <2>1, <3>1, <3>2 DEF HistoryKnows
  <2> QED BY <2>2, <2>3
<1>9. HistoryFirst'
  <2>1. \A j \in Entries(historyLog) : j \in Entries(historyLog') /\ historyLog'[j] = historyLog[j]
    BY <1>6 DEF Entries
  <2> QED BY <1>2, <2>1 DEF HistoryFirst
<1>10. CheckpointsTrue' BY <1>2 DEF CheckpointsTrue
<1>11. ~clashed' => AppendsSound' BY <1>2, <1>5, AppendsStay
<1> QED BY <1>7, <1>8, <1>9, <1>10, <1>11

LEMMA ReadTipKeeps ==
  ASSUME LedgerInv, NEW w \in Writers, ReadTip(w) PROVE LedgerInv'
<1> USE LedgerAssumption DEF LedgerInv, ReadTip, Prepare, failures
<1> DEFINE tip == IF HashChain THEN LastHash(ledgerLog) ELSE 0
<1>1. LedgerTypeOK /\ ledgerLog \in Seq(Piece) BY DEF LedgerTypeOK
<1>2. LastHash(ledgerLog) \in 0..MaxActions
  <2>1. CASE \E i \in DOMAIN ledgerLog : IsLast(ledgerLog, i) /\ Alone(ledgerLog, i)
    <3>1. PICK i \in DOMAIN ledgerLog : i = CHOOSE k \in DOMAIN ledgerLog : IsLast(ledgerLog, k)
      BY <2>1
    <3>2. ledgerLog[i] \in Piece
      <4>1. DOMAIN ledgerLog = 1..Len(ledgerLog) BY <1>1, LenProperties
      <4> QED BY <1>1, <4>1, ElementOfSeq
    <3>3. LastHash(ledgerLog) = ledgerLog[i].id BY <2>1, <3>1 DEF LastHash
    <3> QED BY <3>2, <3>3 DEF Piece
  <2>2. CASE ~\E i \in DOMAIN ledgerLog : IsLast(ledgerLog, i) /\ Alone(ledgerLog, i)
    BY <2>2 DEF LastHash
  <2> QED BY <2>1, <2>2
<1>3. tip \in 0..MaxActions BY <1>2
<1>4. recorder' = [recorder EXCEPT ![w].at = "entry", ![w].prev = tip] OBVIOUS
<1> HIDE DEF tip
<1>5. recorder \in [Writers -> [at: Stages, id: 0..MaxActions, prev: 0..MaxActions]]
  BY <1>1 DEF LedgerTypeOK
<1>6. /\ recorder' \in [Writers -> [at: Stages, id: 0..MaxActions, prev: 0..MaxActions]]
      /\ recorder'[w].at = "entry" /\ recorder'[w].id = recorder[w].id /\ recorder'[w].prev = tip
  <2>1. recorder[w] \in [at: Stages, id: 0..MaxActions, prev: 0..MaxActions] BY <1>5
  <2> DEFINE r == [recorder[w] EXCEPT !.at = "entry", !.prev = tip]
  <2>2. /\ r \in [at: Stages, id: 0..MaxActions, prev: 0..MaxActions]
        /\ r.at = "entry" /\ r.id = recorder[w].id /\ r.prev = tip
    BY <1>3, <2>1 DEF Stages
  <2>3. recorder' = [recorder EXCEPT ![w] = r] BY <1>4, <1>5
  <2> HIDE DEF r
  <2>4. recorder'[w] = r /\ recorder' \in [Writers -> [at: Stages, id: 0..MaxActions, prev: 0..MaxActions]]
    BY <1>5, <2>2, <2>3
  <2> QED BY <2>2, <2>4
<1>7. \A v \in Writers : v # w => recorder'[v] = recorder[v] BY <1>4, <1>5
<1>8. LedgerTypeOK' BY <1>1, <1>6, <1>7 DEF LedgerTypeOK
<1>9. HistoryKnows' BY <1>6, <1>7 DEF HistoryKnows
<1>10. HistoryFirst' /\ CheckpointsTrue' BY DEF HistoryFirst, CheckpointsTrue
<1>11. ASSUME ~clashed' PROVE AppendsSound'
  <2>1. ~clashed /\ \A v \in Writers : v # w => ~Appending(v) BY <1>11 DEF Appending
  <2>2. AppendsSound /\ ~Appending(w) BY <2>1 DEF Appending
  <2>3. \A v \in Writers : recorder[v].at \notin {"entry", "entry_nl", "count"} BY <2>1, <2>2 DEF Appending
  <2>4. Lines(ledgerLog') /\ Chained(ledgerLog') BY <2>2 DEF AppendsSound
  <2>5. \A v, u \in Writers : (Appending(v))' /\ (Appending(u))' => v = u
    BY <2>3, <1>7 DEF Appending
  <2>6. Ended(ledgerLog') BY <2>2, <2>3 DEF AppendsSound
  <2>7. \A v \in Writers : v # w => recorder'[v].at \notin {"entry", "entry_nl", "count"}
    BY <2>3, <1>7
  <2>8. HashChain => recorder'[w].prev = LastHash(ledgerLog') BY <1>6 DEF tip
  <2> QED BY <2>4, <2>5, <2>6, <2>7, <2>8, <1>6 DEF AppendsSound
<1> QED BY <1>8, <1>9, <1>10, <1>11

LEMMA LogEntryKeeps ==
  ASSUME LedgerInv, NEW w \in Writers, LogEntry(w) PROVE LedgerInv'
<1> USE LedgerAssumption DEF LedgerInv, LogEntry, Prepare, failures
<1> DEFINE e == [id |-> recorder[w].id, prev |-> recorder[w].prev]
<1>1. LedgerTypeOK /\ ledgerLog \in Seq(Piece) BY DEF LedgerTypeOK
<1>2. /\ recorder[w].id \in Ids
      /\ recorder[w].id \in unlogged \/ \E j \in DOMAIN historyLog : historyLog[j].id = recorder[w].id
  BY DEF HistoryKnows
<1>3. e \in Piece /\ e.id = recorder[w].id /\ e.prev = recorder[w].prev /\ e.id # 0
  BY <1>1, <1>2 DEF Piece, LedgerTypeOK, Ids
<1>4. ledgerLog' = Append(ledgerLog, e) /\ Goes(w, "entry_nl") OBVIOUS
<1> HIDE DEF e
<1>5. /\ recorder' \in [Writers -> [at: Stages, id: 0..MaxActions, prev: 0..MaxActions]]
      /\ \A v \in Writers : recorder'[v].at = "idle" => recorder'[v].id = 0 /\ recorder'[v].prev = 0
      /\ recorder'[w].at = "entry_nl" /\ recorder'[w].id = recorder[w].id
      /\ \A v \in Writers : v # w => recorder'[v] = recorder[v]
  <2>1. "entry_nl" \in Stages BY DEF Stages
  <2> QED BY <1>1, <1>4, <2>1, StageMoves
<1>6. e.id \in unlogged \/ \E j \in Entries(historyLog) : historyLog[j].id = e.id
  BY <1>2, <1>3 DEF Entries
<1>7. CheckpointsTrue' /\ HistoryFirst' /\ ledgerLog' \in Seq(Piece)
  BY <1>1, <1>3, <1>4, <1>6, TrueStays
<1>8. LedgerTypeOK' BY <1>1, <1>5, <1>7 DEF LedgerTypeOK
<1>9. HistoryKnows' BY <1>5 DEF HistoryKnows
<1>10. ASSUME ~clashed' PROVE AppendsSound'
  <2>1. AppendsSound /\ Appending(w) BY <1>10 DEF Appending
  <2>2. \A v \in Writers : v # w => recorder[v].at \notin {"entry", "entry_nl", "count"}
    BY <2>1 DEF AppendsSound, Appending
  <2>3. Ended(ledgerLog) /\ Lines(ledgerLog) /\ Chained(ledgerLog)
    BY <2>1, <2>2 DEF AppendsSound
  <2> DEFINE n == Len(ledgerLog)
  <2>4. /\ n \in Nat /\ Len(ledgerLog') = n + 1 /\ ledgerLog'[n + 1] = e
        /\ \A i \in 1..n : ledgerLog'[i] = ledgerLog[i]
    BY <1>1, <1>3, <1>4, Appended
  <2>5. HashChain => e.prev = IF n = 0 THEN 0 ELSE ledgerLog[n - 1].id
    BY <1>1, <1>3, <2>1, <2>3, LastHashDef DEF AppendsSound
  <2>6. n # 0 => n > 1 /\ ledgerLog[n] = Newline
    BY <2>3, <2>4, NewlineTyped DEF Ended, Lines
  <2> HIDE DEF n
  <2>7. Lines(ledgerLog')
    <3> SUFFICES ASSUME NEW i \in 1..(n + 1)
                 PROVE \/ ledgerLog'[i] = Newline /\ i > 1 /\ ledgerLog'[i - 1].id # 0
                       \/ ledgerLog'[i].id # 0 /\ (i = 1 \/ ledgerLog'[i - 1] = Newline)
      BY <2>4 DEF Lines
    <3>1. CASE i = n + 1
      <4>1. n # 0 => ledgerLog'[n] = Newline BY <2>4, <2>6
      <4> QED BY <3>1, <4>1, <2>4, <1>3
    <3>2. CASE i # n + 1
      <4>1. i \in 1..n /\ (i # 1 => i - 1 \in 1..n) BY <3>2, <2>4
      <4>2. ledgerLog'[i] = ledgerLog[i] /\ (i # 1 => ledgerLog'[i - 1] = ledgerLog[i - 1])
        BY <4>1, <2>4
      <4>3. \/ ledgerLog[i] = Newline /\ i > 1 /\ ledgerLog[i - 1].id # 0
            \/ ledgerLog[i].id # 0 /\ (i = 1 \/ ledgerLog[i - 1] = Newline)
        BY <4>1, <2>3 DEF Lines, n
      <4> QED BY <4>1, <4>2, <4>3, <2>4
    <3> QED BY <3>1, <3>2
  <2>8. Chained(ledgerLog')
    <3> SUFFICES ASSUME HashChain, NEW j \in 1..(n + 1), ledgerLog'[j].id # 0
                 PROVE  ledgerLog'[j].prev = IF j = 1 THEN 0 ELSE ledgerLog'[j - 2].id
      BY <2>4 DEF Chained
    <3>1. CASE j = n + 1
      <4>1. n # 0 => n - 1 \in 1..n /\ (n + 1) - 2 = n - 1 BY <2>4, <2>6
      <4>2. n # 0 => ledgerLog'[(n + 1) - 2] = ledgerLog[n - 1] BY <4>1, <2>4
      <4>3. ledgerLog'[j].prev = IF n = 0 THEN 0 ELSE ledgerLog[n - 1].id BY <3>1, <2>4, <2>5
      <4>4. j - 2 = (n + 1) - 2 /\ (j = 1 <=> n = 0) BY <3>1, <2>4
      <4> QED BY <4>2, <4>3, <4>4
    <3>2. CASE j # n + 1
      <4>1. j \in 1..n /\ ledgerLog'[j] = ledgerLog[j] BY <3>2, <2>4
      <4>2. ledgerLog[j].prev = IF j = 1 THEN 0 ELSE ledgerLog[j - 2].id
        BY <4>1, <2>3 DEF Chained, n
      <4>3. j # 1 => j - 2 \in 1..n
        <5>1. ASSUME j # 1 PROVE ledgerLog[j - 1] = Newline /\ j - 1 \in 1..n
          BY <4>1, <5>1, <2>3, <2>4, NewlineTyped DEF Lines, n
        <5>2. ASSUME j # 1 PROVE j - 1 > 1
          BY <5>1, <5>2, <2>3, NewlineTyped DEF Lines, n
        <5> QED BY <5>2, <4>1, <2>4
      <4> QED BY <4>1, <4>2, <4>3, <2>4
    <3> QED BY <3>1, <3>2
  <2>9. \A v, u \in Writers : (Appending(v))' /\ (Appending(u))' => v = u
    BY <2>2, <1>5 DEF Appending
  <2>10. Len(ledgerLog') > 0 /\ ledgerLog'[Len(ledgerLog')].id = recorder'[w].id
    BY <2>4, <1>3, <1>5
  <2>11. \A v \in Writers : v # w => recorder'[v].at \notin {"entry", "entry_nl", "count"}
    BY <2>2, <1>5
  <2> QED BY <2>7, <2>8, <2>9, <2>10, <2>11, <1>5 DEF AppendsSound
<1> QED BY <1>7, <1>8, <1>9, <1>10

LEMMA EndEntryKeeps ==
  ASSUME LedgerInv, NEW w \in Writers, EndEntry(w) PROVE LedgerInv'
<1> USE LedgerAssumption DEF LedgerInv, EndEntry, Prepare, failures
<1>1. LedgerTypeOK /\ ledgerLog \in Seq(Piece) BY DEF LedgerTypeOK
<1>2. ledgerLog' = Append(ledgerLog, Newline) /\ Goes(w, "count") OBVIOUS
<1>3. /\ recorder' \in [Writers -> [at: Stages, id: 0..MaxActions, prev: 0..MaxActions]]
      /\ \A v \in Writers : recorder'[v].at = "idle" => recorder'[v].id = 0 /\ recorder'[v].prev = 0
      /\ recorder'[w].at = "count" /\ recorder'[w].id = recorder[w].id
      /\ \A v \in Writers : v # w => recorder'[v] = recorder[v]
  <2>1. "count" \in Stages BY DEF Stages
  <2> QED BY <1>1, <1>2, <2>1, StageMoves
<1>4. CheckpointsTrue' /\ HistoryFirst' /\ ledgerLog' \in Seq(Piece)
  BY <1>1, <1>2, NewlineTyped, TrueStays
<1>5. LedgerTypeOK' BY <1>1, <1>3, <1>4 DEF LedgerTypeOK
<1>6. HistoryKnows' BY <1>3 DEF HistoryKnows
<1>7. ASSUME ~clashed' PROVE AppendsSound'
  <2>1. AppendsSound /\ Appending(w) BY <1>7 DEF Appending
  <2>2. \A v \in Writers : v # w => recorder[v].at \notin {"entry", "entry_nl", "count"}
    BY <2>1 DEF AppendsSound, Appending
  <2> DEFINE n == Len(ledgerLog)
  <2>3. /\ n \in Nat /\ Len(ledgerLog') = n + 1 /\ ledgerLog'[n + 1] = Newline
        /\ \A i \in 1..n : ledgerLog'[i] = ledgerLog[i]
    BY <1>1, <1>2, NewlineTyped, Appended
  <2>4. n > 0 /\ ledgerLog[n].id = recorder[w].id /\ Lines(ledgerLog) /\ Chained(ledgerLog)
    BY <2>1 DEF AppendsSound
  <2>5. recorder[w].id # 0 BY DEF HistoryKnows, Ids
  <2> HIDE DEF n
  <2>6. Lines(ledgerLog')
    <3> SUFFICES ASSUME NEW i \in 1..(n + 1)
                 PROVE \/ ledgerLog'[i] = Newline /\ i > 1 /\ ledgerLog'[i - 1].id # 0
                       \/ ledgerLog'[i].id # 0 /\ (i = 1 \/ ledgerLog'[i - 1] = Newline)
      BY <2>3 DEF Lines
    <3>1. CASE i = n + 1
      <4>1. ledgerLog'[n].id # 0 /\ i - 1 = n /\ i > 1 BY <2>3, <2>4, <2>5, <3>1
      <4> QED BY <3>1, <4>1, <2>3
    <3>2. CASE i # n + 1
      <4>1. i \in 1..n /\ (i # 1 => i - 1 \in 1..n) BY <3>2, <2>3
      <4>2. ledgerLog'[i] = ledgerLog[i] /\ (i # 1 => ledgerLog'[i - 1] = ledgerLog[i - 1])
        BY <4>1, <2>3
      <4>3. \/ ledgerLog[i] = Newline /\ i > 1 /\ ledgerLog[i - 1].id # 0
            \/ ledgerLog[i].id # 0 /\ (i = 1 \/ ledgerLog[i - 1] = Newline)
        BY <4>1, <2>4 DEF Lines, n
      <4> QED BY <4>1, <4>2, <4>3, <2>3
    <3> QED BY <3>1, <3>2
  <2>7. Chained(ledgerLog')
    <3> SUFFICES ASSUME HashChain, NEW j \in 1..(n + 1), ledgerLog'[j].id # 0
                 PROVE  ledgerLog'[j].prev = IF j = 1 THEN 0 ELSE ledgerLog'[j - 2].id
      BY <2>3 DEF Chained
    <3>1. j # n + 1 BY <2>3, NewlineTyped
    <3>2. j \in 1..n /\ ledgerLog'[j] = ledgerLog[j] BY <3>1, <2>3
    <3>3. ledgerLog[j].prev = IF j = 1 THEN 0 ELSE ledgerLog[j - 2].id
      BY <3>2, <2>4 DEF Chained, n
    <3>4. j # 1 => j - 2 \in 1..n
      <4>1. ASSUME j # 1 PROVE ledgerLog[j - 1] = Newline /\ j - 1 \in 1..n
        BY <3>2, <4>1, <2>3, <2>4, NewlineTyped DEF Lines, n
      <4>2. ASSUME j # 1 PROVE j - 1 > 1
        BY <4>1, <4>2, <2>4, NewlineTyped DEF Lines, n
      <4> QED BY <4>2, <3>2, <2>3
    <3> QED BY <3>2, <3>3, <3>4, <2>3
  <2>8. \A v, u \in Writers : (Appending(v))' /\ (Appending(u))' => v = u
    BY <2>2, <1>3 DEF Appending
  <2>9. /\ Len(ledgerLog') > 1 /\ ledgerLog'[Len(ledgerLog')] = Newline
        /\ ledgerLog'[Len(ledgerLog') - 1].id = recorder'[w].id
    <3>1. (n + 1) - 1 = n /\ n \in 1..n BY <2>3, <2>4
    <3> QED BY <3>1, <2>3, <2>4, <1>3
  <2>10. \A v \in Writers : v # w => recorder'[v].at \notin {"entry", "entry_nl", "count"}
    BY <2>2, <1>3
  <2>11. Ended(ledgerLog') BY <2>3 DEF Ended
  <2> QED BY <2>6, <2>7, <2>8, <2>9, <2>10, <2>11, <1>3 DEF AppendsSound
<1> QED BY <1>4, <1>5, <1>6, <1>7

\* A writer that rests.
LEMMA RestDef ==
  ASSUME LedgerTypeOK, NEW w \in Writers, Rests(w)
  PROVE  /\ recorder' \in [Writers -> [at: Stages, id: 0..MaxActions, prev: 0..MaxActions]]
         /\ recorder'[w] = Resting
         /\ \A v \in Writers : v # w => recorder'[v] = recorder[v]
<1>1. Resting \in [at: Stages, id: 0..MaxActions, prev: 0..MaxActions]
  BY LedgerAssumption DEF Resting, Stages
<1>2. recorder \in [Writers -> [at: Stages, id: 0..MaxActions, prev: 0..MaxActions]]
  BY DEF LedgerTypeOK
<1> QED BY <1>1, <1>2 DEF Rests

\* In whole lines, the entries that start a line are all of them.
LEMMA LinesCounted ==
  ASSUME NEW f \in Seq(Piece), Lines(f), Len(f) > 1, f[Len(f)] = Newline
  PROVE  /\ Len(f) - 1 \in Entries(f)
         /\ LineCount(f) = Cardinality({j \in Entries(f) : j <= Len(f) - 1})
         /\ LineCount(f) \in Nat
<1>1. Len(f) \in Nat /\ DOMAIN f = 1..Len(f) BY LenProperties
<1>2. f[Len(f) - 1].id # 0 BY <1>1, NewlineTyped DEF Lines
<1>3. Len(f) - 1 \in Entries(f) BY <1>1, <1>2 DEF Entries
<1>4. \A i \in Entries(f) : (i = 1 \/ f[i - 1] = Newline) /\ i <= Len(f) - 1
  BY <1>1, NewlineTyped DEF Entries, Lines
<1>5. {i \in Entries(f) : i = 1 \/ f[i - 1] = Newline} = {j \in Entries(f) : j <= Len(f) - 1}
  BY <1>4
<1>6. Cardinality({j \in Entries(f) : j <= Len(f) - 1}) \in Nat
  <2>1. IsFiniteSet(1..Len(f)) BY <1>1, FS_Interval
  <2>2. {j \in Entries(f) : j <= Len(f) - 1} \subseteq 1..Len(f) BY <1>1 DEF Entries
  <2>3. IsFiniteSet({j \in Entries(f) : j <= Len(f) - 1}) BY <2>1, <2>2, FS_Subset
  <2> QED BY <2>3, FS_CardinalityType
<1> QED BY <1>3, <1>5, <1>6 DEF LineCount

LEMMA CheckpointKeeps ==
  ASSUME LedgerInv, NEW w \in Writers, Checkpoint(w) PROVE LedgerInv'
<1> DEFINE n == LineCount(ledgerLog)
           m == [entries |-> n, tip |-> recorder[w].id]
<1>1. LedgerTypeOK /\ ledgerLog \in Seq(Piece) /\ recorder[w].id \in Ids
  BY DEF LedgerInv, Checkpoint, Prepare, LedgerTypeOK, HistoryKnows
<1>2. /\ recorder' \in [Writers -> [at: Stages, id: 0..MaxActions, prev: 0..MaxActions]]
      /\ recorder'[w] = Resting
      /\ \A v \in Writers : v # w => recorder'[v] = recorder[v]
  BY <1>1, RestDef DEF Checkpoint
<1>3. n \in Nat
  <2>1. Len(ledgerLog) \in Nat /\ DOMAIN ledgerLog = 1..Len(ledgerLog) BY <1>1, LenProperties
  <2>2. IsFiniteSet(1..Len(ledgerLog)) BY <2>1, FS_Interval
  <2>3. {i \in Entries(ledgerLog) : i = 1 \/ ledgerLog[i - 1] = Newline} \subseteq 1..Len(ledgerLog)
    BY <2>1 DEF Entries
  <2>4. IsFiniteSet({i \in Entries(ledgerLog) : i = 1 \/ ledgerLog[i - 1] = Newline})
    BY <2>2, <2>3, FS_Subset
  <2> QED BY <2>4, FS_CardinalityType DEF LineCount
<1>4. checkpoints' = Append(checkpoints, m) \/ checkpoints' = checkpoints BY DEF Checkpoint
<1>5. m \in [entries: Nat, tip: Ids] /\ m.entries = n /\ m.tip = recorder[w].id BY <1>1, <1>3
<1>6. UNCHANGED <<historyLog, ledgerLog, actions, clashed, unlogged, unentered>> BY DEF Checkpoint, failures
<1> HIDE DEF n, m
<1>7. /\ checkpoints' \in Seq([entries: Nat, tip: Ids])
      /\ \A k \in DOMAIN checkpoints' :
           \/ checkpoints'[k] = m
           \/ k \in DOMAIN checkpoints /\ checkpoints'[k] = checkpoints[k]
  <2>1. checkpoints \in Seq([entries: Nat, tip: Ids]) BY <1>1 DEF LedgerTypeOK
  <2>2. CASE checkpoints' = Append(checkpoints, m)
    <3>1. /\ checkpoints' \in Seq([entries: Nat, tip: Ids])
          /\ Len(checkpoints') = Len(checkpoints) + 1
          /\ \A k \in 1..Len(checkpoints) : checkpoints'[k] = checkpoints[k]
          /\ checkpoints'[Len(checkpoints) + 1] = m
      BY <1>5, <2>1, <2>2, AppendProperties
    <3>2. Len(checkpoints) \in Nat /\ DOMAIN checkpoints = 1..Len(checkpoints)
      BY <2>1, LenProperties
    <3>3. DOMAIN checkpoints' = 1..Len(checkpoints') BY <3>1, LenProperties
    <3>4. ASSUME NEW k \in DOMAIN checkpoints'
          PROVE  \/ checkpoints'[k] = m
                 \/ k \in DOMAIN checkpoints /\ checkpoints'[k] = checkpoints[k]
      <4>1. k \in 1..Len(checkpoints) \/ k = Len(checkpoints) + 1 BY <3>1, <3>2, <3>3
      <4>2. CASE k = Len(checkpoints) + 1 BY <4>2, <3>1
      <4>3. CASE k \in 1..Len(checkpoints) BY <4>3, <3>1, <3>2
      <4> QED BY <4>1, <4>2, <4>3
    <3> QED BY <3>1, <3>4
  <2>3. CASE checkpoints' = checkpoints BY <2>1, <2>3
  <2> QED BY <1>4, <2>2, <2>3
<1>8. LedgerTypeOK'
  <2>1. \A v \in Writers : recorder'[v].at = "idle" => recorder'[v].id = 0 /\ recorder'[v].prev = 0
    <3>1. Resting.id = 0 /\ Resting.prev = 0 BY DEF Resting
    <3>2. \A v \in Writers : recorder[v].at = "idle" => recorder[v].id = 0 /\ recorder[v].prev = 0
      BY <1>1 DEF LedgerTypeOK
    <3> QED BY <1>2, <3>1, <3>2
  <2>2. UNCHANGED <<historyLog, ledgerLog, actions, clashed, unlogged, unentered>> BY <1>6
  <2> QED BY <1>1, <1>2, <1>7, <2>1, <2>2 DEF LedgerTypeOK
<1>9. HistoryKnows' BY <1>2, <1>6 DEF LedgerInv, HistoryKnows, Resting
<1>10. HistoryFirst' BY <1>6 DEF LedgerInv, HistoryFirst
<1>11. CheckpointsTrue'
  <2> SUFFICES ASSUME ~clashed, NEW k \in DOMAIN checkpoints'
               PROVE  \/ checkpoints'[k].tip \in unentered
                      \/ \E i \in Entries(ledgerLog) :
                           /\ ledgerLog[i].id = checkpoints'[k].tip
                           /\ Cardinality({j \in Entries(ledgerLog) : j <= i}) = checkpoints'[k].entries
    BY <1>6 DEF CheckpointsTrue
  <2>3. CASE checkpoints'[k] = m /\ recorder[w].id \in unentered
    BY <2>3, <1>5
  <2>1. CASE checkpoints'[k] = m /\ recorder[w].id \notin unentered
    <3>1. /\ Lines(ledgerLog) /\ Len(ledgerLog) > 1 /\ ledgerLog[Len(ledgerLog)] = Newline
          /\ ledgerLog[Len(ledgerLog) - 1].id = recorder[w].id
      BY <2>1 DEF LedgerInv, Checkpoint, Prepare, AppendsSound
    <3>2. /\ Len(ledgerLog) - 1 \in Entries(ledgerLog)
          /\ n = Cardinality({j \in Entries(ledgerLog) : j <= Len(ledgerLog) - 1})
      BY <1>1, <3>1, LinesCounted DEF n
    <3> QED BY <2>1, <3>1, <3>2, <1>5
  <2>2. CASE k \in DOMAIN checkpoints /\ checkpoints'[k] = checkpoints[k]
    BY <2>2 DEF LedgerInv, CheckpointsTrue
  <2> QED BY <1>7, <2>1, <2>2, <2>3
<1>12. ~clashed' => AppendsSound'
  <2>1. recorder'[w].at = "idle" BY <1>2 DEF Resting
  <2>2. recorder[w].at # "entry_nl" BY DEF Checkpoint, Prepare
  <2> QED BY <1>2, <1>6, <2>1, <2>2, AppendsStay DEF LedgerInv
<1> QED BY <1>8, <1>9, <1>10, <1>11, <1>12 DEF LedgerInv

\* An append to the history that fails leaves a mark, and the writer goes on.
LEMMA HistoryFailsKeeps ==
  ASSUME LedgerInv, NEW w \in Writers, HistoryFails(w) PROVE LedgerInv'
<1> USE DEF LedgerInv, Prepare
<1>1. LedgerTypeOK BY DEF LedgerTypeOK
<1>2. /\ recorder[w].at \in {"history", "history_nl"} /\ Goes(w, "tip")
      /\ unlogged' = IF recorder[w].at = "history" THEN unlogged \cup {recorder[w].id} ELSE unlogged
      /\ UNCHANGED <<historyLog, ledgerLog, checkpoints, actions, clashed, unentered>>
  BY DEF HistoryFails
<1>3. /\ recorder' \in [Writers -> [at: Stages, id: 0..MaxActions, prev: 0..MaxActions]]
      /\ \A v \in Writers : recorder'[v].at = "idle" => recorder'[v].id = 0 /\ recorder'[v].prev = 0
      /\ recorder'[w].at = "tip" /\ recorder'[w].id = recorder[w].id
      /\ \A v \in Writers : v # w => recorder'[v] = recorder[v]
  <2>1. "tip" \in Stages BY DEF Stages
  <2> QED BY <1>1, <1>2, <2>1, StageMoves
<1>4. recorder[w].id \in Ids BY <1>2 DEF HistoryKnows
<1>5. unlogged \subseteq unlogged' /\ unlogged' \subseteq Ids BY <1>1, <1>2, <1>4 DEF LedgerTypeOK
<1>6. LedgerTypeOK' BY <1>1, <1>2, <1>3, <1>5 DEF LedgerTypeOK
<1>7. HistoryKnows'
  <2> SUFFICES ASSUME NEW v \in Writers, recorder'[v].at # "idle"
               PROVE  /\ recorder'[v].id \in Ids
                      /\ recorder'[v].at # "history" =>
                           \/ recorder'[v].id \in unlogged'
                           \/ \E j \in DOMAIN historyLog : historyLog[j].id = recorder'[v].id
    BY <1>2 DEF HistoryKnows
  <2>1. CASE v = w BY <2>1, <1>2, <1>3, <1>4 DEF HistoryKnows
  <2>2. CASE v # w BY <2>2, <1>3, <1>5 DEF HistoryKnows
  <2> QED BY <2>1, <2>2
<1>8. HistoryFirst' /\ CheckpointsTrue' BY <1>2, <1>5 DEF HistoryFirst, CheckpointsTrue
<1>9. ~clashed' => AppendsSound' BY <1>2, <1>3, AppendsStay
<1> QED BY <1>6, <1>7, <1>8, <1>9

\* An entry that names no other may break the chain.
LEMMA TipUnreadKeeps ==
  ASSUME LedgerInv, NEW w \in Writers, TipUnread(w) PROVE LedgerInv'
<1>1. LedgerTypeOK /\ HistoryKnows /\ HistoryFirst BY DEF LedgerInv
<1>2. /\ recorder[w].at = "tip" /\ Goes(w, "entry") /\ clashed' = TRUE
      /\ UNCHANGED <<historyLog, ledgerLog, checkpoints, actions, unlogged, unentered>>
  BY DEF TipUnread, Prepare, failures
<1>3. /\ recorder' \in [Writers -> [at: Stages, id: 0..MaxActions, prev: 0..MaxActions]]
      /\ \A v \in Writers : recorder'[v].at = "idle" => recorder'[v].id = 0 /\ recorder'[v].prev = 0
      /\ recorder'[w].at = "entry" /\ recorder'[w].id = recorder[w].id
      /\ \A v \in Writers : v # w => recorder'[v] = recorder[v]
  <2>1. "entry" \in Stages BY DEF Stages
  <2> QED BY <1>1, <1>2, <2>1, StageMoves
<1>4. LedgerTypeOK' BY <1>1, <1>2, <1>3 DEF LedgerTypeOK
<1>5. HistoryKnows' BY <1>1, <1>2, <1>3 DEF HistoryKnows
<1> QED BY <1>1, <1>2, <1>4, <1>5 DEF LedgerInv, HistoryFirst, CheckpointsTrue

\* An entry whose append fails from its start changes nothing; one that breaks off
\* leaves its line to the next.
LEMMA EntryFailsKeeps ==
  ASSUME LedgerInv, NEW w \in Writers, EntryFails(w) PROVE LedgerInv'
<1> USE DEF LedgerInv
<1>1. LedgerTypeOK BY DEF LedgerTypeOK
<1>2. /\ recorder[w].at \in {"entry", "entry_nl"} /\ Goes(w, "count")
      /\ unentered' = IF recorder[w].at = "entry" THEN unentered \cup {recorder[w].id} ELSE unentered
      /\ clashed' = (clashed \/ recorder[w].at = "entry_nl")
      /\ UNCHANGED <<historyLog, ledgerLog, checkpoints, actions, unlogged>>
  BY DEF EntryFails, Prepare
<1>3. /\ recorder' \in [Writers -> [at: Stages, id: 0..MaxActions, prev: 0..MaxActions]]
      /\ \A v \in Writers : recorder'[v].at = "idle" => recorder'[v].id = 0 /\ recorder'[v].prev = 0
      /\ recorder'[w].at = "count" /\ recorder'[w].id = recorder[w].id
      /\ \A v \in Writers : v # w => recorder'[v] = recorder[v]
  <2>1. "count" \in Stages BY DEF Stages
  <2> QED BY <1>1, <1>2, <2>1, StageMoves
<1>4. recorder[w].id \in Ids BY <1>2 DEF HistoryKnows
<1>5. unentered \subseteq unentered' /\ unentered' \subseteq Ids BY <1>1, <1>2, <1>4 DEF LedgerTypeOK
<1>6. LedgerTypeOK' BY <1>1, <1>2, <1>3, <1>5 DEF LedgerTypeOK
<1>7. HistoryKnows' BY <1>2, <1>3 DEF HistoryKnows
<1>8. HistoryFirst' /\ CheckpointsTrue' BY <1>2, <1>5 DEF HistoryFirst, CheckpointsTrue
<1>9. ASSUME ~clashed' PROVE AppendsSound'
  <2>1. AppendsSound /\ recorder[w].at = "entry" /\ recorder'[w].id \in unentered' BY <1>2, <1>3, <1>9
  <2>2. \A v \in Writers : v # w => recorder[v].at \notin {"entry", "entry_nl", "count"}
    BY <2>1 DEF AppendsSound, Appending
  <2>3. \A v \in Writers : v # w => recorder'[v].at \notin {"entry", "entry_nl", "count"}
    BY <1>3, <2>2
  <2>4. Ended(ledgerLog') /\ Lines(ledgerLog') /\ Chained(ledgerLog')
    BY <1>2, <2>1, <2>2 DEF AppendsSound
  <2>5. \A v, u \in Writers : (Appending(v))' /\ (Appending(u))' => v = u
    BY <2>3 DEF Appending
  <2> QED BY <1>3, <2>1, <2>3, <2>4, <2>5 DEF AppendsSound
<1> QED BY <1>6, <1>7, <1>8, <1>9

LEMMA RecorderDiesKeeps ==
  ASSUME LedgerInv, NEW w \in Writers, RecorderDies(w) PROVE LedgerInv'
<1> USE LedgerAssumption DEF LedgerInv, RecorderDies, Prepare, failures
<1>1. LedgerTypeOK OBVIOUS
<1>2. /\ recorder' \in [Writers -> [at: Stages, id: 0..MaxActions, prev: 0..MaxActions]]
      /\ recorder'[w] = Resting
      /\ \A v \in Writers : v # w => recorder'[v] = recorder[v]
  BY <1>1, RestDef
<1>3. LedgerTypeOK'
  <2>1. clashed' \in BOOLEAN BY <1>1 DEF LedgerTypeOK
  <2>2. UNCHANGED <<historyLog, ledgerLog, checkpoints, actions>> OBVIOUS
  <2>3. \A v \in Writers : recorder'[v].at = "idle" => recorder'[v].id = 0 /\ recorder'[v].prev = 0
    BY <1>1, <1>2 DEF LedgerTypeOK, Resting
  <2> QED BY <1>1, <1>2, <2>1, <2>2, <2>3 DEF LedgerTypeOK
<1>4. HistoryKnows' BY <1>2 DEF HistoryKnows, Resting
<1>5. HistoryFirst' /\ CheckpointsTrue' BY DEF HistoryFirst, CheckpointsTrue
<1>6. ~clashed' => AppendsSound'
  <2>1. recorder'[w].at = "idle" BY <1>2 DEF Resting
  <2> QED BY <1>2, <2>1, AppendsStay
<1> QED BY <1>3, <1>4, <1>5, <1>6

\* The ledger verifies as long as no appends overlap or break off in their line and the tip is
\* read, and then its checkpoints are true but for entries whose append failed; it never
\* knows an action that the history does not, but for those whose append there failed
\* (history.rs): for any number of writers, actions and entries to a checkpoint.
THEOREM LedgerSafe == LedgerSpec => []LedgerKeeps
<1>1. LedgerInv /\ [LedgerNext]_ledgerVars => LedgerInv'
  <2> SUFFICES ASSUME LedgerInv, [LedgerNext]_ledgerVars PROVE LedgerInv'
    OBVIOUS
  <2>1. CASE UNCHANGED ledgerVars
    BY <2>1 DEF ledgerVars, LedgerInv, LedgerTypeOK, HistoryKnows, HistoryFirst,
                CheckpointsTrue, AppendsSound, Appending
  <2>2. ASSUME NEW w \in Writers,
               \/ Act(w) \/ LogHistory(w) \/ EndHistory(w) \/ HistoryFails(w) \/ ReadTip(w)
               \/ TipUnread(w) \/ LogEntry(w) \/ EndEntry(w) \/ EntryFails(w) \/ Checkpoint(w)
               \/ RecorderDies(w)
        PROVE  LedgerInv'
    BY <2>2, HistoryFailsKeeps, TipUnreadKeeps, EntryFailsKeeps, ActKeeps, HistoryKeeps, ReadTipKeeps, LogEntryKeeps, EndEntryKeeps,
       CheckpointKeeps, RecorderDiesKeeps
  <2> QED BY <2>1, <2>2 DEF LedgerNext
<1>2. LedgerInv => LedgerKeeps
  <2> SUFFICES ASSUME LedgerInv PROVE LedgerKeeps OBVIOUS
  <2>1. ChainVerifies
    <3>1. ledgerLog \in Seq(Piece) BY DEF LedgerInv, LedgerTypeOK
    <3> QED BY <3>1, LinesVerify DEF LedgerInv, ChainVerifies, AppendsSound
  <2> QED BY <2>1 DEF LedgerInv, LedgerKeeps
<1> QED BY <1>1, <1>2, LedgerStarts, PTL DEF LedgerSpec

-----------------------------------------------------------------------------
(* Background tasks: the table holds no more than its limit.               *)

Command == [pc: ShellPCs, p: Procs \cup {NoProc}]
Inserting == {c \in Shells : Stands(c, "insert")}

\* A process is born before anybody holds it, and its exit code comes when the handle goes.
HoldersSound ==
  /\ \A c \in Shells : shellCall[c].p # NoProc => proc[shellCall[c].p] # "unborn"
  /\ \A p \in DOMAIN tasks : proc[p] # "unborn" /\ (tasks[p].held => ~tasks[p].code)
ShellInv == ShellTypeOK /\ HoldersSound /\ TasksBounded /\ NoStrays /\ PlacesComeFree
-----------------------------------------------------------------------------
\* The table is a function on some of the processes.
LEMMA TableDef == \A t : t \in Table <=> t \in [DOMAIN t -> Task] /\ DOMAIN t \subseteq Procs
<1>1. ASSUME NEW t, t \in Table PROVE t \in [DOMAIN t -> Task] /\ DOMAIN t \subseteq Procs
  <2>1. PICK S \in SUBSET Procs : t \in [S -> Task] BY <1>1 DEF Table
  <2> QED BY <2>1
<1>2. ASSUME NEW t, t \in [DOMAIN t -> Task], DOMAIN t \subseteq Procs PROVE t \in Table
  BY <1>2 DEF Table
<1> QED BY <1>1, <1>2

LEMMA Finite ==
  ASSUME ShellTypeOK
  PROVE  /\ IsFiniteSet(Active) /\ Cardinality(Active) \in Nat
         /\ IsFiniteSet(Inserting) /\ Cardinality(Inserting) \in Nat
         /\ Cardinality(Shells) \in Nat
<1>1. IsFiniteSet(Procs) BY ShellAssumption, FS_Interval DEF Procs
<1>2. Active \in SUBSET Procs BY TableDef DEF ShellTypeOK, Active
<1>3. Inserting \in SUBSET Shells BY DEF Inserting
<1> QED BY <1>1, <1>2, <1>3, ShellAssumption, FS_Subset, FS_CardinalityType

\* What the bound allows: fewer active tasks and fewer calls that insert.
LEMMA BoundHolds ==
  ASSUME ShellInv, ShellTypeOK', Active' \subseteq Active, Inserting' \subseteq Inserting
  PROVE  TasksBounded'
<1>1. /\ IsFiniteSet(Active) /\ Cardinality(Active) \in Nat /\ IsFiniteSet(Inserting) /\ Cardinality(Inserting) \in Nat
      /\ Cardinality(Shells) \in Nat
  BY Finite DEF ShellInv
<1>2. /\ Cardinality(Active') \in Nat /\ Cardinality(Active') <= Cardinality(Active)
      /\ Cardinality(Inserting') \in Nat /\ Cardinality(Inserting') <= Cardinality(Inserting)
  BY <1>1, FS_Subset, FS_CardinalityType
<1>3. Cardinality(Active) + Cardinality(Inserting) <= TaskLimit + Cardinality(Shells) - 1
  BY DEF ShellInv, TasksBounded, Inserting
<1>4. Cardinality(Active') + Cardinality(Inserting') <= TaskLimit + Cardinality(Shells) - 1
  BY <1>1, <1>2, <1>3, ShellAssumption
<1>5. Inserting' = {c \in Shells : Stands(c, "insert")'}
  BY DEF Inserting
<1> QED BY <1>4, <1>5 DEF TasksBounded
LEMMA NobodysProcess == NoProc \notin Procs
  BY ShellAssumption DEF Procs

\* Who leaves has no process any more, and everybody else stands where he stood.
LEMMA LeavesTyped ==
  ASSUME ShellTypeOK, NEW c \in Shells, Leaves(c)
  PROVE  /\ shellCall' \in [Shells -> Command]
         /\ shellCall'[c].pc = "idle" /\ shellCall'[c].p = NoProc
         /\ \A d \in Shells \ {c} : shellCall'[d] = shellCall[d]
         /\ \A d \in Shells : shellCall'[d].pc = "idle" <=> shellCall'[d].p = NoProc
         /\ Inserting' \subseteq Inserting
<1>1. NoCommand \in Command /\ NoCommand.pc = "idle" /\ NoCommand.p = NoProc
  BY DEF NoCommand, Command, ShellPCs
<1>2. shellCall' = [shellCall EXCEPT ![c] = NoCommand] /\ shellCall \in [Shells -> Command]
  BY DEF Leaves, ShellTypeOK, Command
<1>3. /\ shellCall' \in [Shells -> Command] /\ shellCall'[c] = NoCommand
      /\ \A d \in Shells \ {c} : shellCall'[d] = shellCall[d]
  BY <1>1, <1>2
<1>4. \A d \in Shells : shellCall'[d].pc = "idle" <=> shellCall'[d].p = NoProc
  BY <1>1, <1>3 DEF ShellTypeOK
<1>5. Inserting' \subseteq Inserting
  BY <1>1, <1>3 DEF Inserting, Stands
<1> QED BY <1>1, <1>3, <1>4, <1>5

LEMMA KillTyped ==
  ASSUME ShellTypeOK, NEW p \in Procs, Kill(p)
  PROVE  /\ proc' \in [Procs -> ProcState] /\ proc'[p] # "runs"
         /\ \A q \in Procs : proc'[q] = "runs" => q # p /\ proc[q] = "runs"
         /\ \A q \in Procs : /\ proc'[q] = "unborn" <=> proc[q] = "unborn"
                             /\ proc[q] = "signalled" => proc'[q] = "signalled"
  BY DEF Kill, ShellTypeOK, ProcState

LEMMA StartsSound == ShellInit => ShellInv
<1> SUFFICES ASSUME ShellInit PROVE ShellInv
  OBVIOUS
<1> USE DEF ShellInit
<1>1. \A c \in Shells : shellCall[c] = NoCommand
  OBVIOUS
<1>2. ShellTypeOK
  <2>1. NoCommand \in Command /\ NoCommand.pc = "idle" /\ NoCommand.p = NoProc
    BY DEF NoCommand, Command, ShellPCs
  <2>2. tasks \in Table BY TableDef
  <2>3. shellCall \in [Shells -> Command] BY <2>1
  <2> QED BY <1>1, <2>1, <2>2, <2>3 DEF ShellTypeOK, Command, ProcState
<1>3. HoldersSound BY <1>1 DEF HoldersSound, NoCommand
<1>4. Active = {} /\ Inserting = {} BY <1>1 DEF Active, Inserting, Stands, NoCommand
<1>5. TasksBounded
  <2>1. Cardinality(Shells) \in Nat BY FS_CardinalityType, ShellAssumption
  <2>2. Cardinality(Active) = 0 /\ Cardinality(Inserting) = 0 BY <1>4, FS_EmptySet
  <2>3. TaskLimit \in Nat \ {0} BY ShellAssumption
  <2> QED BY <2>1, <2>2, <2>3 DEF TasksBounded, Inserting
<1>6. NoStrays /\ PlacesComeFree
  BY <1>4 DEF NoStrays, PlacesComeFree
<1> QED BY <1>2, <1>3, <1>5, <1>6 DEF ShellInv
-----------------------------------------------------------------------------
LEMMA ExecuteKeeps ==
  ASSUME ShellInv, NEW c \in Shells, NEW background \in BOOLEAN, Execute(c, background)
  PROVE  ShellInv'
<1> USE DEF ShellInv
<1> DEFINE r(p) == [pc |-> IF background THEN "count" ELSE "wait", p |-> p]
<1>1. PICK p \in Procs :
        /\ shellCall[c].pc = "idle" /\ \A q \in Procs : q < p <=> proc[q] # "unborn"
        /\ proc' = [proc EXCEPT ![p] = "runs"]
        /\ shellCall' = [shellCall EXCEPT ![c] = r(p)]
        /\ UNCHANGED <<tasks, cutOff, unwaited>>
  BY DEF Execute, Stands
<1>2. proc[p] = "unborn"
  <2>1. p \in Nat BY DEF Procs
  <2> QED BY <1>1, <2>1
<1>3. r(p) \in Command /\ r(p).p = p /\ r(p).pc \in {"count", "wait"}
  BY DEF Command, ShellPCs
<1> HIDE DEF r
<1>4. /\ shellCall' \in [Shells -> Command] /\ shellCall'[c] = r(p)
      /\ \A d \in Shells \ {c} : shellCall'[d] = shellCall[d]
  BY <1>1, <1>3 DEF ShellTypeOK, Command
<1>5. /\ proc' \in [Procs -> ProcState] /\ proc'[p] = "runs" /\ \A q \in Procs \ {p} : proc'[q] = proc[q]
  BY <1>1 DEF ShellTypeOK, ProcState
<1>6. ShellTypeOK'
  BY <1>1, <1>3, <1>4, <1>5, NobodysProcess DEF ShellTypeOK, Command
<1>7. p \notin DOMAIN tasks /\ DOMAIN tasks \subseteq Procs
  BY <1>2, TableDef DEF HoldersSound, ShellTypeOK
<1>8. HoldersSound'
  BY <1>1, <1>3, <1>4, <1>5, <1>7 DEF HoldersSound, ShellTypeOK
<1>9. Active' = Active /\ Inserting' \subseteq Inserting
  BY <1>1, <1>3, <1>4 DEF Active, Inserting, Stands
<1>10. TasksBounded' BY <1>6, <1>9, BoundHolds
<1>11. NoStrays'
  <2> SUFFICES ASSUME NEW q \in Procs, proc'[q] = "runs"
               PROVE  \/ \E d \in Shells : shellCall'[d].p = q
                      \/ q \in DOMAIN tasks /\ tasks[q].held
                      \/ q \in cutOff \cup unwaited
    BY <1>1 DEF NoStrays
  <2>1. CASE q = p BY <2>1, <1>3, <1>4
  <2>2. CASE q # p
    <3>1. proc[q] = "runs" BY <2>2, <1>5
    <3>2. \A d \in Shells : shellCall[d].p = q => shellCall'[d].p = q
      BY <1>1, <1>4, NobodysProcess DEF ShellTypeOK
    <3> QED BY <3>1, <3>2 DEF NoStrays
  <2> QED BY <2>1, <2>2
<1>12. PlacesComeFree'
  BY <1>1, <1>5, <1>7, <1>9 DEF PlacesComeFree, Active
<1> QED BY <1>6, <1>8, <1>10, <1>11, <1>12

\* A call that leaves, having killed its process or not.
LEMMA LeaveKeeps ==
  ASSUME ShellInv, NEW c \in Shells, Leaves(c), shellCall[c].pc # "idle",
         Kill(shellCall[c].p) \/ UNCHANGED proc,
         UNCHANGED <<tasks, unwaited>>, cutOff' \in {cutOff, cutOff \cup {shellCall[c].p}},
         proc'[shellCall[c].p] # "runs" \/ shellCall[c].p \in cutOff'
  PROVE  ShellInv'
<1> USE DEF ShellInv
<1> DEFINE p == shellCall[c].p
<1>1. p \in Procs
  <2>1. shellCall[c] \in Command BY DEF ShellTypeOK, Command
  <2> QED BY <2>1 DEF ShellTypeOK, Command
<1> HIDE DEF p
<1>2. /\ shellCall' \in [Shells -> Command]
      /\ shellCall'[c].pc = "idle" /\ shellCall'[c].p = NoProc
      /\ \A d \in Shells \ {c} : shellCall'[d] = shellCall[d]
      /\ \A d \in Shells : shellCall'[d].pc = "idle" <=> shellCall'[d].p = NoProc
      /\ Inserting' \subseteq Inserting
  BY LeavesTyped
<1>3. /\ proc' \in [Procs -> ProcState]
      /\ \A q \in Procs : proc'[q] = "runs" => proc[q] = "runs"
      /\ \A q \in Procs : /\ proc'[q] = "unborn" <=> proc[q] = "unborn"
                          /\ proc[q] = "signalled" => proc'[q] = "signalled"
  <2>1. CASE Kill(p) BY <1>1, <2>1, KillTyped
  <2>2. CASE UNCHANGED proc BY <2>2 DEF ShellTypeOK
  <2> QED BY <2>1, <2>2 DEF p
<1>4. ShellTypeOK' BY <1>1, <1>2, <1>3 DEF ShellTypeOK, Command, p
<1>5. DOMAIN tasks \subseteq Procs BY TableDef DEF ShellTypeOK
<1>6. HoldersSound'
  <2>1. \A d \in Shells : shellCall'[d].p # NoProc => proc'[shellCall'[d].p] # "unborn"
    <3> TAKE d \in Shells
    <3>1. CASE d = c BY <3>1, <1>2
    <3>2. CASE d # c
      <4>1. shellCall'[d] = shellCall[d] /\ shellCall[d].p \in Procs \cup {NoProc}
        BY <3>2, <1>2 DEF ShellTypeOK
      <4> QED BY <4>1, <1>3 DEF HoldersSound
    <3> QED BY <3>1, <3>2
  <2>2. \A q \in DOMAIN tasks' : proc'[q] # "unborn" /\ (tasks'[q].held => ~tasks'[q].code)
    BY <1>3, <1>5 DEF HoldersSound
  <2> QED BY <2>1, <2>2 DEF HoldersSound
<1>7. TasksBounded'
  <2>1. Active' = Active BY DEF Active
  <2> QED BY <2>1, <1>2, <1>4, BoundHolds
<1>8. NoStrays'
  <2> SUFFICES ASSUME NEW q \in Procs, proc'[q] = "runs"
               PROVE  \/ \E d \in Shells : shellCall'[d].p = q
                      \/ q \in DOMAIN tasks /\ tasks[q].held
                      \/ q \in cutOff' \cup unwaited
    BY DEF NoStrays
  <2>1. CASE q = p BY <2>1 DEF p
  <2>2. CASE q # p BY <2>2, <1>2, <1>3 DEF NoStrays, p
  <2> QED BY <2>1, <2>2
<1>9. PlacesComeFree'
  BY <1>3, <1>5 DEF PlacesComeFree, Active
<1> QED BY <1>4, <1>6, <1>7, <1>8, <1>9
LEMMA CountKeeps == ASSUME ShellInv, NEW c \in Shells, CountTasks(c) PROVE ShellInv'
<1> USE DEF ShellInv
<1>1. shellCall[c].pc = "count" /\ UNCHANGED <<tasks, cutOff, unwaited>>
  BY DEF CountTasks, Stands
<1>2. shellCall[c] \in Command /\ shellCall[c].p \in Procs
  BY <1>1 DEF ShellTypeOK, Command
<1>3. CASE Cardinality(Active) >= TaskLimit
  <2>1. Leaves(c) /\ Kill(shellCall[c].p) BY <1>3 DEF CountTasks
  <2>2. proc'[shellCall[c].p] # "runs" BY <2>1, <1>2, KillTyped
  <2> QED BY <2>1, <2>2, <1>1, LeaveKeeps
<1>4. CASE ~(Cardinality(Active) >= TaskLimit)
  <2> DEFINE r == [shellCall[c] EXCEPT !.pc = "insert"]
  <2>1. shellCall' = [shellCall EXCEPT ![c] = r] /\ proc' = proc
    BY <1>4 DEF CountTasks, ShellTypeOK
  <2>2. r \in Command /\ r.pc = "insert" /\ r.p = shellCall[c].p BY <1>2 DEF Command, ShellPCs
  <2> HIDE DEF r
  <2>3. /\ shellCall' \in [Shells -> Command] /\ shellCall'[c] = r
        /\ \A d \in Shells \ {c} : shellCall'[d] = shellCall[d]
    BY <2>1, <2>2 DEF ShellTypeOK, Command
  <2>4. ShellTypeOK' BY <1>1, <1>2, <2>1, <2>2, <2>3, NobodysProcess DEF ShellTypeOK, Command
  <2>5. HoldersSound' BY <1>1, <2>1, <2>2, <2>3 DEF HoldersSound
  <2>6. TasksBounded'
    <3>1. Active' = Active BY <1>1 DEF Active
    <3>2. Inserting' = Inserting \cup {c} /\ c \notin Inserting
      BY <1>1, <2>2, <2>3 DEF Inserting, Stands
    <3>3. /\ Cardinality(Active) \in Nat /\ IsFiniteSet(Inserting) /\ Cardinality(Inserting) \in Nat
          /\ Cardinality(Shells) \in Nat
      BY Finite
    <3>4. Cardinality(Inserting') = Cardinality(Inserting) + 1 BY <3>2, <3>3, FS_AddElement
    <3>5. Inserting' \in SUBSET Shells BY DEF Inserting
    <3>6. Cardinality(Inserting') <= Cardinality(Shells) BY <3>5, ShellAssumption, FS_Subset
    <3>7. Cardinality(Active') + Cardinality(Inserting') <= TaskLimit + Cardinality(Shells) - 1
      BY <1>4, <3>1, <3>3, <3>4, <3>6, ShellAssumption
    <3>8. Inserting' = {d \in Shells : Stands(d, "insert")'} BY DEF Inserting
    <3> QED BY <3>7, <3>8 DEF TasksBounded
  <2>7. NoStrays' BY <1>1, <2>1, <2>2, <2>3 DEF NoStrays
  <2>8. PlacesComeFree' BY <1>1, <2>1 DEF PlacesComeFree, Active
  <2> QED BY <2>4, <2>5, <2>6, <2>7, <2>8
<1> QED BY <1>3, <1>4

LEMMA InsertKeeps == ASSUME ShellInv, NEW c \in Shells, InsertTask(c) PROVE ShellInv'
<1> USE DEF ShellInv
<1> DEFINE p == shellCall[c].p
           new == [held |-> TRUE, code |-> FALSE]
<1>1. /\ shellCall[c].pc = "insert" /\ Leaves(c)
      /\ tasks' = [q \in DOMAIN tasks \cup {p} |-> IF q = p THEN new ELSE tasks[q]]
      /\ UNCHANGED <<proc, cutOff, unwaited>>
  BY DEF InsertTask, Stands
<1>2. shellCall[c] \in Command /\ p \in Procs /\ proc[p] # "unborn"
  BY <1>1 DEF ShellTypeOK, Command, HoldersSound
<1>3. tasks \in [DOMAIN tasks -> Task] /\ DOMAIN tasks \subseteq Procs
  BY TableDef DEF ShellTypeOK
<1>4. new \in Task /\ new.held /\ ~new.code BY DEF Task
<1> HIDE DEF p, new
<1>5. /\ tasks' \in [DOMAIN tasks' -> Task] /\ DOMAIN tasks' = DOMAIN tasks \cup {p} /\ tasks'[p] = new
      /\ \A q \in DOMAIN tasks \ {p} : tasks'[q] = tasks[q]
  BY <1>1, <1>3, <1>4
<1>6. tasks' \in Table BY <1>2, <1>3, <1>5, TableDef
<1>7. /\ shellCall' \in [Shells -> Command]
      /\ shellCall'[c].pc = "idle" /\ shellCall'[c].p = NoProc
      /\ \A d \in Shells \ {c} : shellCall'[d] = shellCall[d]
      /\ \A d \in Shells : shellCall'[d].pc = "idle" <=> shellCall'[d].p = NoProc
  BY <1>1, LeavesTyped
<1>8. ShellTypeOK' BY <1>1, <1>6, <1>7 DEF ShellTypeOK, Command
<1>9. HoldersSound'
  BY <1>1, <1>2, <1>4, <1>5, <1>7 DEF HoldersSound
<1>10. TasksBounded'
  <2>1. Active' \subseteq Active \cup {p} BY <1>5 DEF Active
  <2>2. Inserting' = Inserting \ {c} /\ c \in Inserting
    BY <1>1, <1>7 DEF Inserting, Stands
  <2>3. /\ IsFiniteSet(Active) /\ Cardinality(Active) \in Nat /\ IsFiniteSet(Inserting) /\ Cardinality(Inserting) \in Nat
        /\ Cardinality(Shells) \in Nat
    BY Finite
  <2>4. Cardinality(Inserting') = Cardinality(Inserting) - 1 BY <2>2, <2>3, FS_RemoveElement
  <2>5. IsFiniteSet(Active \cup {p}) /\ Cardinality(Active \cup {p}) <= Cardinality(Active) + 1
    <3>1. /\ IsFiniteSet(Active \cup {p})
          /\ Cardinality(Active \cup {p}) = IF p \in Active THEN Cardinality(Active) ELSE Cardinality(Active) + 1
      BY <2>3, FS_AddElement
    <3> QED BY <2>3, <3>1
  <2>6. Cardinality(Active') \in Nat /\ Cardinality(Active') <= Cardinality(Active \cup {p})
        /\ Cardinality(Active \cup {p}) \in Nat
    BY <2>1, <2>5, FS_Subset, FS_CardinalityType
  <2>7. Cardinality(Active) + Cardinality(Inserting) <= TaskLimit + Cardinality(Shells) - 1
    BY DEF TasksBounded, Inserting
  <2>8. Cardinality(Active') + Cardinality(Inserting') <= TaskLimit + Cardinality(Shells) - 1
    BY <2>3, <2>4, <2>5, <2>6, <2>7, ShellAssumption
  <2>9. Inserting' = {d \in Shells : Stands(d, "insert")'} BY DEF Inserting
  <2> QED BY <2>8, <2>9 DEF TasksBounded
<1>11. NoStrays'
  <2> SUFFICES ASSUME NEW q \in Procs, proc[q] = "runs"
               PROVE  \/ \E d \in Shells : shellCall'[d].p = q
                      \/ q \in DOMAIN tasks' /\ tasks'[q].held
                      \/ q \in cutOff \cup unwaited
    BY <1>1 DEF NoStrays
  <2>1. CASE q = p BY <2>1, <1>4, <1>5
  <2>2. CASE q # p BY <2>2, <1>5, <1>7 DEF NoStrays, p
  <2> QED BY <2>1, <2>2
<1>12. PlacesComeFree'
  BY <1>1, <1>4, <1>5 DEF PlacesComeFree, Active
<1> QED BY <1>8, <1>9, <1>10, <1>11, <1>12

LEMMA AnswerKeeps == ASSUME ShellInv, NEW c \in Shells, Answer(c) PROVE ShellInv'
<1>1. /\ shellCall[c].pc # "idle" /\ proc'[shellCall[c].p] # "runs" /\ Leaves(c)
      /\ UNCHANGED <<proc, tasks, cutOff, unwaited>>
  BY DEF Answer, Stands
<1> QED BY <1>1, LeaveKeeps

LEMMA ForegroundKeeps == ASSUME ShellInv, NEW c \in Shells, ForegroundTimeout(c) PROVE ShellInv'
<1>1. /\ shellCall[c].pc # "idle" /\ Kill(shellCall[c].p) /\ Leaves(c)
      /\ UNCHANGED <<tasks, cutOff, unwaited>>
  BY DEF ForegroundTimeout, Stands
<1>2. shellCall[c].p \in Procs BY <1>1 DEF ShellInv, ShellTypeOK
<1>3. proc'[shellCall[c].p] # "runs" BY <1>1, <1>2, KillTyped DEF ShellInv
<1> QED BY <1>1, <1>3, LeaveKeeps

LEMMA DispatchKeeps == ASSUME ShellInv, NEW c \in Shells, DispatchTimeout(c) PROVE ShellInv'
<1>1. /\ shellCall[c].pc # "idle" /\ Leaves(c) /\ cutOff' = cutOff \cup {shellCall[c].p}
      /\ UNCHANGED <<proc, tasks, unwaited>>
  BY DEF DispatchTimeout, Stands
<1> QED BY <1>1, LeaveKeeps
-----------------------------------------------------------------------------
\* What happens to one process and its task, while the calls go on as they do: a process
\* ends, and a task loses its handle or its place.
LEMMA TaskKeeps ==
  ASSUME ShellInv, NEW p \in Procs, UNCHANGED <<shellCall, cutOff>>,
         unwaited \subseteq unwaited', unwaited' \subseteq Procs,
         proc' \in [Procs -> ProcState],
         \A q \in Procs \ {p} : proc'[q] = proc[q],
         proc[p] # "runs" => proc'[p] = proc[p], proc'[p] # "unborn" \/ proc'[p] = proc[p],
         tasks' \in [DOMAIN tasks' -> Task], DOMAIN tasks' \subseteq DOMAIN tasks,
         \A q \in DOMAIN tasks \ {p} : q \in DOMAIN tasks' /\ tasks'[q] = tasks[q],
         p \in DOMAIN tasks' => /\ tasks'[p].held => tasks'[p] = tasks[p]
                                /\ ~tasks'[p].code => ~tasks[p].code
                                /\ ~tasks'[p].held /\ tasks[p].held =>
                                     \/ p \in unwaited'
                                     \/ tasks'[p].code /\ proc'[p] # "runs"
                                     \/ proc'[p] = "signalled",
         p \in DOMAIN tasks /\ tasks[p].held /\ proc'[p] = "runs" =>
             (p \in DOMAIN tasks' /\ tasks'[p].held) \/ p \in unwaited'
  PROVE  ShellInv'
<1> USE DEF ShellInv
<1>1. DOMAIN tasks \subseteq Procs BY TableDef DEF ShellTypeOK
<1>2. \A q \in Procs : /\ proc'[q] = "runs" => proc[q] = "runs"
                       /\ proc[q] # "unborn" => proc'[q] # "unborn"
                       /\ proc[q] = "signalled" => proc'[q] = "signalled"
  <2> TAKE q \in Procs
  <2>1. CASE q # p BY <2>1
  <2>2. CASE q = p
    <3>1. proc[p] # "runs" => proc'[p] = proc[p] OBVIOUS
    <3>2. proc'[p] # "unborn" \/ proc'[p] = proc[p] OBVIOUS
    <3> QED BY <2>2, <3>1, <3>2
  <2> QED BY <2>1, <2>2
<1>3. ShellTypeOK'
  <2>1. tasks' \in Table BY <1>1, TableDef
  <2> QED BY <2>1 DEF ShellTypeOK
<1>4. HoldersSound'
  <2>1. \A c \in Shells : shellCall'[c].p # NoProc => proc'[shellCall'[c].p] # "unborn"
    BY <1>2 DEF HoldersSound, ShellTypeOK
  <2>2. ASSUME NEW q \in DOMAIN tasks' PROVE proc'[q] # "unborn" /\ (tasks'[q].held => ~tasks'[q].code)
    BY <2>2, <1>1, <1>2 DEF HoldersSound
  <2> QED BY <2>1, <2>2 DEF HoldersSound
<1>5. Active' \subseteq Active BY DEF Active
<1>6. TasksBounded'
  <2>1. Inserting' = Inserting BY DEF Inserting, Stands
  <2> QED BY <2>1, <1>3, <1>5, BoundHolds
<1>7. NoStrays'
  <2> SUFFICES ASSUME NEW q \in Procs, proc'[q] = "runs"
               PROVE  \/ \E d \in Shells : shellCall[d].p = q
                      \/ q \in DOMAIN tasks' /\ tasks'[q].held
                      \/ q \in cutOff \cup unwaited'
    BY DEF NoStrays
  <2>1. proc[q] = "runs" BY <1>2
  <2> QED BY <2>1 DEF NoStrays
<1>8. PlacesComeFree'
  <2> SUFFICES ASSUME NEW q \in Active', ~tasks'[q].held
               PROVE  proc'[q] = "signalled" \/ q \in unwaited'
    BY DEF PlacesComeFree
  <2>1. q \in Active /\ q \in DOMAIN tasks' /\ q \in Procs /\ ~tasks'[q].code BY <1>1, <1>5 DEF Active
  <2> QED BY <2>1, <1>2 DEF PlacesComeFree
<1> QED BY <1>3, <1>4, <1>6, <1>7, <1>8

LEMMA EndsKeeps == ASSUME ShellInv, NEW p \in Procs, Ends(p) PROVE ShellInv'
<1>1. proc[p] = "runs" /\ UNCHANGED <<tasks, shellCall, cutOff, unwaited>>
      /\ proc' \in [Procs -> ProcState] /\ (\A q \in Procs \ {p} : proc'[q] = proc[q]) /\ proc'[p] # "unborn"
  BY DEF Ends, ShellInv, ShellTypeOK, ProcState
<1>2. tasks' \in [DOMAIN tasks' -> Task] /\ unwaited \subseteq Procs BY <1>1, TableDef DEF ShellInv, ShellTypeOK
<1> QED BY <1>1, <1>2, TaskKeeps

LEMMA StatusKeeps == ASSUME ShellInv, NEW p \in Procs, Status(p) PROVE ShellInv'
<1> DEFINE r == [held |-> FALSE, code |-> proc[p] = "exited"]
<1>1. /\ p \in DOMAIN tasks /\ UNCHANGED <<proc, shellCall, cutOff, unwaited>>
      /\ tasks' = IF ~tasks[p].held \/ proc[p] = "runs" THEN tasks ELSE [tasks EXCEPT ![p] = r]
  BY DEF Status
<1>2. /\ tasks \in [DOMAIN tasks -> Task] /\ unwaited \subseteq Procs /\ proc \in [Procs -> ProcState]
      /\ proc[p] # "unborn" /\ (tasks[p].held => ~tasks[p].code)
  BY <1>1, TableDef DEF ShellInv, ShellTypeOK, HoldersSound
<1>3. r \in Task /\ ~r.held /\ (r.code <=> proc[p] = "exited") BY DEF Task
<1> HIDE DEF r
<1>4. CASE ~tasks[p].held \/ proc[p] = "runs"
  <2>1. tasks' = tasks BY <1>1, <1>4
  <2> QED BY <1>1, <1>2, <2>1, TaskKeeps
<1>5. CASE ~(~tasks[p].held \/ proc[p] = "runs")
  <2>1. /\ DOMAIN tasks' = DOMAIN tasks /\ tasks' \in [DOMAIN tasks -> Task] /\ tasks'[p] = r
        /\ \A q \in DOMAIN tasks \ {p} : tasks'[q] = tasks[q]
    BY <1>1, <1>2, <1>3, <1>5
  <2>2. proc[p] \in {"exited", "signalled"} BY <1>2, <1>5 DEF ProcState
  <2> QED BY <1>1, <1>2, <1>3, <1>5, <2>1, <2>2, TaskKeeps
<1> QED BY <1>4, <1>5

LEMMA StatusFailsKeeps == ASSUME ShellInv, NEW p \in Procs, StatusFails(p) PROVE ShellInv'
<1> DEFINE r == [tasks[p] EXCEPT !.held = FALSE]
<1>1. /\ p \in DOMAIN tasks /\ tasks[p].held /\ unwaited' = unwaited \cup {p}
      /\ tasks' = [tasks EXCEPT ![p].held = FALSE] /\ UNCHANGED <<proc, shellCall, cutOff>>
  BY DEF StatusFails
<1>2. tasks \in [DOMAIN tasks -> Task] /\ unwaited' \subseteq Procs /\ proc \in [Procs -> ProcState]
  BY <1>1, TableDef DEF ShellInv, ShellTypeOK
<1>3. tasks[p] \in Task BY <1>1, <1>2
<1>4. r \in Task /\ ~r.held /\ r.code = tasks[p].code BY <1>3 DEF Task
<1>5. tasks' = [tasks EXCEPT ![p] = r] BY <1>1
<1> HIDE DEF r
<1>6. /\ DOMAIN tasks' = DOMAIN tasks /\ tasks' \in [DOMAIN tasks -> Task] /\ tasks'[p] = r
      /\ \A q \in DOMAIN tasks \ {p} : tasks'[q] = tasks[q]
  BY <1>1, <1>2, <1>4, <1>5
<1> QED BY <1>1, <1>2, <1>4, <1>6, TaskKeeps

LEMMA TerminateKeeps == ASSUME ShellInv, NEW p \in Procs, Terminate(p) PROVE ShellInv'
<1>1. /\ p \in DOMAIN tasks /\ tasks' = [q \in DOMAIN tasks \ {p} |-> tasks[q]]
      /\ (IF tasks[p].held THEN Kill(p) ELSE proc' = proc)
      /\ UNCHANGED <<shellCall, cutOff, unwaited>>
  BY DEF Terminate, Without
<1>2. tasks \in [DOMAIN tasks -> Task] /\ unwaited \subseteq Procs /\ proc \in [Procs -> ProcState]
  BY TableDef DEF ShellInv, ShellTypeOK
<1>3. /\ tasks' \in [DOMAIN tasks' -> Task] /\ DOMAIN tasks' = DOMAIN tasks \ {p}
      /\ \A q \in DOMAIN tasks \ {p} : tasks'[q] = tasks[q]
  BY <1>1, <1>2
<1>4. /\ proc' \in [Procs -> ProcState] /\ \A q \in Procs \ {p} : proc'[q] = proc[q]
      /\ proc[p] # "runs" => proc'[p] = proc[p]
      /\ proc'[p] # "unborn" \/ proc'[p] = proc[p]
      /\ tasks[p].held => proc'[p] # "runs"
  <2>1. CASE tasks[p].held
    <3>1. Kill(p) BY <1>1, <2>1
    <3> QED BY <3>1, <1>2 DEF Kill, ProcState
  <2>2. CASE ~tasks[p].held BY <2>2, <1>1, <1>2
  <2> QED BY <2>1, <2>2
<1> QED BY <1>1, <1>2, <1>3, <1>4, TaskKeeps
-----------------------------------------------------------------------------
\* Background tasks (shell.rs): whatever call is dropped or killed, no more tasks count than
\* the limit and the calls beyond the first, a running process has somebody who can end it,
\* and a task that is over takes no place once it was asked for; with the exceptions that
\* the three properties name.
THEOREM ShellSafe == ShellSpec => []ShellKeeps
<1>1. ShellInit => ShellInv
  BY StartsSound
<1>2. ShellInv /\ [ShellNext]_shellVars => ShellInv'
  <2> SUFFICES ASSUME ShellInv, [ShellNext]_shellVars PROVE ShellInv'
    OBVIOUS
  <2>1. ASSUME NEW c \in Shells, Execute(c, TRUE) \/ Execute(c, FALSE) PROVE ShellInv' BY <2>1, ExecuteKeeps
  <2>2. ASSUME NEW c \in Shells, CountTasks(c) PROVE ShellInv' BY <2>2, CountKeeps
  <2>3. ASSUME NEW c \in Shells, InsertTask(c) PROVE ShellInv' BY <2>3, InsertKeeps
  <2>4. ASSUME NEW c \in Shells, Answer(c) PROVE ShellInv' BY <2>4, AnswerKeeps
  <2>5. ASSUME NEW c \in Shells, ForegroundTimeout(c) PROVE ShellInv' BY <2>5, ForegroundKeeps
  <2>6. ASSUME NEW c \in Shells, DispatchTimeout(c) PROVE ShellInv' BY <2>6, DispatchKeeps
  <2>7. ASSUME NEW p \in Procs, Ends(p) PROVE ShellInv' BY <2>7, EndsKeeps
  <2>8. ASSUME NEW p \in Procs, Status(p) PROVE ShellInv' BY <2>8, StatusKeeps
  <2>9. ASSUME NEW p \in Procs, StatusFails(p) PROVE ShellInv' BY <2>9, StatusFailsKeeps
  <2>10. ASSUME NEW p \in Procs, Terminate(p) PROVE ShellInv' BY <2>10, TerminateKeeps
  <2>11. CASE UNCHANGED shellVars
    BY <2>11 DEF shellVars, ShellInv, ShellTypeOK, HoldersSound, TasksBounded, NoStrays, PlacesComeFree, Active, Stands
  <2> QED BY <2>1, <2>2, <2>3, <2>4, <2>5, <2>6, <2>7, <2>8, <2>9, <2>10, <2>11 DEF ShellNext
<1>3. ShellInv => ShellKeeps
  BY DEF ShellInv, ShellKeeps
<1> QED BY <1>1, <1>2, <1>3, PTL DEF ShellSpec

-----------------------------------------------------------------------------
(* Tool sessions: a call reaches one process, and its group's.             *)

ToolCall == [pc: ToolPCs, g: Groups, saw: Numbers \cup {NoSession}, reg: SUBSET Groups]

\* A process belongs to the session of one group, and numbers are used once.
ProcessesApart ==
  /\ \A g \in Groups : session[g].pid # NoSession => session[g].pid \in 1..born /\ session[g].pid \notin unready
  /\ \A g, h \in Groups : session[g].pid = session[h].pid /\ session[g].pid # NoSession => g = h
  /\ unready \subseteq 1..born
\* The count of a session, there or not.
CountsKeepUp ==
  \A g \in Groups : /\ session[g].restarts = replaced[g] /\ replaced[g] <= born
                    /\ session[g].pid = NoSession => replaced[g] = 0
\* The process that a call saw dead stays dead.
SeenStaysDead == \A c \in ToolCalls : toolCall[c].saw # NoSession => toolCall[c].saw \in (1..born) \ upright
\* Where the requests of a call went: nowhere yet, to one process, or to two; the first of
\* them is or was the session of the call's group.
SentSound ==
  \A c \in ToolCalls :
    /\ sent[c] \subseteq 1..born
    /\ toolCall[c].pc = "attempt" => sent[c] = {}
    /\ toolCall[c].pc = "failed" =>
         \E p \in sent[c] : /\ sent[c] = {p} /\ p \notin unready
                            /\ \A h \in Groups : session[h].pid = p => h = toolCall[c].g
    /\ toolCall[c].pc = "retry" =>
         \E p \in sent[c] : sent[c] = {p} /\ (p \in upright => p \in overtaken)
    /\ sent[c] = {} \/ \E p, q \in sent[c] : sent[c] = {p, q}
    /\ \A p, q \in sent[c] : p < q /\ p \in upright => p \in overtaken
ToolInv ==
  ToolTypeOK /\ ProcessesApart /\ CountsKeepUp /\ SeenStaysDead /\ SentSound /\ SessionsOwnProcesses
-----------------------------------------------------------------------------
LEMMA AtEaseTyped == AtEase \in ToolCall /\ AtEase.pc = "idle" /\ AtEase.saw = NoSession
<1>1. (CHOOSE g \in Groups : TRUE) \in Groups BY ToolAssumption
<1> QED BY <1>1 DEF AtEase, ToolCall, ToolPCs

LEMMA ToolsStart == ToolInit => ToolInv
<1> SUFFICES ASSUME ToolInit PROVE ToolInv
  OBVIOUS
<1> USE DEF ToolInit
<1>1. \A c \in ToolCalls : toolCall[c] = AtEase
  OBVIOUS
<1>2. ToolTypeOK
  <2>1. toolCall \in [ToolCalls -> ToolCall] BY AtEaseTyped
  <2>2. session \in [Groups -> Session] BY ToolAssumption DEF NoEntry, Session
  <2>3. 0 \in 0..MaxSessions BY ToolAssumption
  <2> QED BY <2>1, <2>2, <2>3, <1>1, AtEaseTyped DEF ToolTypeOK, ToolCall
<1>3. ProcessesApart /\ CountsKeepUp
  BY DEF ProcessesApart, CountsKeepUp, NoEntry
<1>4. SeenStaysDead /\ SentSound
  BY <1>1, AtEaseTyped DEF SeenStaysDead, SentSound
<1> QED BY <1>2, <1>3, <1>4 DEF ToolInv, SessionsOwnProcesses
-----------------------------------------------------------------------------
\* What stays when no process is started, replaced or let go: only calls move on.
LEMMA OthersStand ==
  ASSUME ToolInv, NEW c \in ToolCalls, NEW r \in ToolCall,
         toolCall' = [toolCall EXCEPT ![c] = r]
  PROVE  /\ toolCall' \in [ToolCalls -> ToolCall] /\ toolCall'[c] = r
         /\ \A d \in ToolCalls \ {c} : toolCall'[d] = toolCall[d]
  BY DEF ToolInv, ToolTypeOK, ToolCall

LEMMA StageKeeps == ASSUME ToolInv, NEW c \in ToolCalls, StageGroup(c) PROVE ToolInv'
<1> USE DEF ToolInv
<1>1. PICK r \in ToolCall : /\ r.pc = "store" /\ r.saw = NoSession /\ toolCall' = [toolCall EXCEPT ![c] = r]
                            /\ UNCHANGED <<registry, processes>>
  BY DEF StageGroup, ToolCall, ToolPCs, ToolTypeOK
<1>2. /\ toolCall' \in [ToolCalls -> ToolCall] /\ toolCall'[c] = r
      /\ \A d \in ToolCalls \ {c} : toolCall'[d] = toolCall[d]
  BY <1>1, OthersStand
<1>3. ToolTypeOK' BY <1>1, <1>2 DEF ToolTypeOK, ToolCall, processes
<1>4. ProcessesApart' /\ CountsKeepUp' BY <1>1 DEF ProcessesApart, CountsKeepUp, processes
<1>5. SeenStaysDead' BY <1>1, <1>2 DEF SeenStaysDead, processes
<1>6. SentSound' BY <1>1, <1>2 DEF SentSound, processes
<1>7. SessionsOwnProcesses' BY <1>1 DEF SessionsOwnProcesses, processes
<1> QED BY <1>3, <1>4, <1>5, <1>6, <1>7

LEMMA StoreKeeps == ASSUME ToolInv, NEW c \in ToolCalls, StoreRegistry(c) PROVE ToolInv'
<1> USE DEF ToolInv
<1>1. toolCall' = [toolCall EXCEPT ![c] = AtEase] /\ registry' = toolCall[c].reg /\ UNCHANGED processes
  BY DEF StoreRegistry, Done
<1>2. /\ toolCall' \in [ToolCalls -> ToolCall] /\ toolCall'[c] = AtEase
      /\ \A d \in ToolCalls \ {c} : toolCall'[d] = toolCall[d]
  BY <1>1, OthersStand, AtEaseTyped
<1>3. ToolTypeOK' BY <1>1, <1>2, AtEaseTyped DEF ToolTypeOK, ToolCall, processes
<1>4. ProcessesApart' /\ CountsKeepUp' BY <1>1 DEF ProcessesApart, CountsKeepUp, processes
<1>5. SeenStaysDead' BY <1>1, <1>2, AtEaseTyped DEF SeenStaysDead, processes
<1>6. SentSound' BY <1>1, <1>2, AtEaseTyped DEF SentSound, processes
<1>7. SessionsOwnProcesses' BY <1>1 DEF SessionsOwnProcesses, processes
<1> QED BY <1>3, <1>4, <1>5, <1>6, <1>7

LEMMA InvokeKeeps == ASSUME ToolInv, NEW c \in ToolCalls, Invoke(c) PROVE ToolInv'
<1> USE DEF ToolInv
<1>1. PICK g \in Groups : /\ toolCall' = [toolCall EXCEPT ![c] = [AtEase EXCEPT !.pc = "attempt", !.g = g]]
                          /\ sent' = [sent EXCEPT ![c] = {}]
                          /\ UNCHANGED <<registry, session, upright, born, replaced, unready, overtaken>>
  BY DEF Invoke, ToolTypeOK
<1> DEFINE r == [AtEase EXCEPT !.pc = "attempt", !.g = g]
<1>2. r \in ToolCall /\ r.pc = "attempt" /\ r.saw = NoSession
  BY AtEaseTyped DEF ToolCall, ToolPCs
<1>3. toolCall' = [toolCall EXCEPT ![c] = r] BY <1>1
<1> HIDE DEF r
<1>4. /\ toolCall' \in [ToolCalls -> ToolCall] /\ toolCall'[c] = r
      /\ \A d \in ToolCalls \ {c} : toolCall'[d] = toolCall[d]
  BY <1>2, <1>3, OthersStand
<1>5. /\ sent' \in [ToolCalls -> SUBSET Numbers] /\ sent'[c] = {}
      /\ \A d \in ToolCalls \ {c} : sent'[d] = sent[d]
  BY <1>1 DEF ToolTypeOK
<1>6. ToolTypeOK' BY <1>1, <1>2, <1>4, <1>5 DEF ToolTypeOK, ToolCall
<1>7. ProcessesApart' /\ CountsKeepUp' BY <1>1 DEF ProcessesApart, CountsKeepUp
<1>8. SeenStaysDead' BY <1>1, <1>2, <1>4 DEF SeenStaysDead
<1>9. SentSound' BY <1>1, <1>2, <1>4, <1>5 DEF SentSound
<1>10. SessionsOwnProcesses' BY <1>1 DEF SessionsOwnProcesses
<1> QED BY <1>6, <1>7, <1>8, <1>9, <1>10

\* Only of a dead process is the call tried again, and then the process it went to is
\* dead, if it was the session's still, or nobody's.
LEMMA LookKeeps == ASSUME ToolInv, NEW c \in ToolCalls, Look(c) PROVE ToolInv'
<1> USE DEF ToolInv
<1> DEFINE again == [toolCall[c] EXCEPT !.pc = "retry", !.saw = session[Group(c)].pid]
           r == IF Died(Group(c)) THEN again ELSE AtEase
<1>1. toolCall[c] \in ToolCall /\ toolCall[c].pc = "failed" BY DEF Look, Holds, ToolTypeOK, ToolCall
<1>2. Group(c) = toolCall[c].g /\ Group(c) \in Groups BY <1>1 DEF Group, ToolCall
<1>3. session[Group(c)] \in Session BY <1>2 DEF ToolTypeOK
<1>4. again \in ToolCall /\ again.pc = "retry" /\ again.saw = session[Group(c)].pid
  BY <1>1, <1>3 DEF ToolCall, ToolPCs, Session
<1>5. r \in ToolCall BY <1>4, AtEaseTyped
<1>6. toolCall' = [toolCall EXCEPT ![c] = r] /\ UNCHANGED <<registry, processes>>
  <2>1. Goes2(c, "retry", session[Group(c)].pid) = [toolCall EXCEPT ![c] = again]
    BY <1>1 DEF Goes2, ToolTypeOK
  <2> QED BY <2>1 DEF Look, Done
<1> HIDE DEF r, again
<1>7. /\ toolCall' \in [ToolCalls -> ToolCall] /\ toolCall'[c] = r
      /\ \A d \in ToolCalls \ {c} : toolCall'[d] = toolCall[d]
  BY <1>5, <1>6, OthersStand
<1>8. r.pc \in {"retry", "idle"} /\ (r.pc = "retry" => Died(Group(c)) /\ r.saw = session[Group(c)].pid)
      /\ (r.pc = "idle" => r.saw = NoSession)
  BY <1>4, AtEaseTyped DEF r
<1>9. ToolTypeOK' BY <1>6, <1>7, <1>8 DEF ToolTypeOK, ToolCall, processes
<1>10. ProcessesApart' /\ CountsKeepUp' BY <1>6 DEF ProcessesApart, CountsKeepUp, processes
<1>11. SeenStaysDead'
  BY <1>2, <1>6, <1>7, <1>8 DEF SeenStaysDead, processes, Died, ProcessesApart
<1>12. SentSound'
  <2>1. PICK p \in sent[c] : /\ sent[c] = {p} /\ p \notin unready
                             /\ \A h \in Groups : session[h].pid = p => h = toolCall[c].g
    BY <1>1 DEF SentSound
  <2>2. r.pc = "retry" /\ p \in upright => p \in overtaken
    BY <2>1, <1>2, <1>8 DEF SessionsOwnProcesses, Died
  <2> QED BY <2>1, <2>2, <1>6, <1>7, <1>8 DEF SentSound, processes
<1>13. SessionsOwnProcesses' BY <1>6 DEF SessionsOwnProcesses, processes
<1> QED BY <1>9, <1>10, <1>11, <1>12, <1>13
-----------------------------------------------------------------------------
(* Requests                                                                *)

\* A call that has sent its request is over, or has seen it fail.
LEMMA DeliverTyped ==
  ASSUME ToolInv, NEW c \in ToolCalls, NEW p, NEW others,
         Deliver(c, p, others, Goes2(c, "failed", NoSession)), toolCall[c].pc = "attempt"
  PROVE  /\ sent' = [sent EXCEPT ![c] = @ \cup {p}]
         /\ upright' \in {others, others \cup {p}}
         /\ \E r \in ToolCall : /\ toolCall' = [toolCall EXCEPT ![c] = r]
                                /\ r.pc \in {"idle", "failed"} /\ r.saw = NoSession
                                /\ r.pc = "failed" => r.g = toolCall[c].g
<1> DEFINE f == [toolCall[c] EXCEPT !.pc = "failed", !.saw = NoSession]
<1>1. toolCall[c] \in ToolCall /\ toolCall \in [ToolCalls -> ToolCall] BY DEF ToolInv, ToolTypeOK, ToolCall
<1>2. Goes2(c, "failed", NoSession) = [toolCall EXCEPT ![c] = f] BY <1>1 DEF Goes2
<1>3. f \in ToolCall /\ f.pc = "failed" /\ f.saw = NoSession /\ f.g = toolCall[c].g
  BY <1>1 DEF ToolCall, ToolPCs
<1> HIDE DEF f
<1>4. toolCall' \in {[toolCall EXCEPT ![c] = f], [toolCall EXCEPT ![c] = AtEase]}
      /\ sent' = [sent EXCEPT ![c] = @ \cup {p}] /\ upright' \in {others, others \cup {p}}
  BY <1>2 DEF Deliver, Done
<1> QED BY <1>3, <1>4, AtEaseTyped

LEMMA AttemptAliveKeeps == ASSUME ToolInv, NEW c \in ToolCalls, AttemptAlive(c) PROVE ToolInv'
<1> USE DEF ToolInv
<1> DEFINE g == toolCall[c].g
           p == session[g].pid
<1>1. /\ toolCall[c].pc = "attempt" /\ p \in upright
      /\ Deliver(c, p, upright \ {p}, Goes2(c, "failed", NoSession))
      /\ UNCHANGED <<registry, session, born, replaced, unready, overtaken>>
  BY DEF AttemptAlive, Holds, Group
<1>2. PICK r \in ToolCall : /\ toolCall' = [toolCall EXCEPT ![c] = r]
                            /\ r.pc \in {"idle", "failed"} /\ r.saw = NoSession
                            /\ r.pc = "failed" => r.g = g
  BY <1>1, DeliverTyped
<1>3. sent' = [sent EXCEPT ![c] = @ \cup {p}] /\ upright' \subseteq upright
  BY <1>1, DeliverTyped
<1>4. /\ toolCall' \in [ToolCalls -> ToolCall] /\ toolCall'[c] = r
      /\ \A d \in ToolCalls \ {c} : toolCall'[d] = toolCall[d]
  BY <1>2, OthersStand
<1>5. g \in Groups /\ p # NoSession /\ p \in 1..born /\ p \in Numbers
  <2>1. g \in Groups /\ p \in 1..born /\ born \in 0..MaxSessions /\ MaxSessions \in Nat
    BY <1>1, ToolAssumption DEF ToolTypeOK
  <2>2. p \in Numbers
    <3> HIDE DEF p
    <3> QED BY <2>1 DEF Numbers
  <2> QED BY <2>1, <2>2, ToolAssumption DEF Numbers
<1>6. sent[c] = {} BY <1>1 DEF SentSound
<1>7. /\ sent' \in [ToolCalls -> SUBSET Numbers] /\ sent'[c] = {p}
      /\ \A d \in ToolCalls \ {c} : sent'[d] = sent[d]
  BY <1>3, <1>5, <1>6 DEF ToolTypeOK
<1>8. p \notin unready /\ \A h \in Groups : session[h].pid = p => h = g
  BY <1>5 DEF ProcessesApart
<1> HIDE DEF g, p
<1>9. ToolTypeOK' BY <1>1, <1>2, <1>3, <1>4, <1>7 DEF ToolTypeOK, ToolCall
<1>10. ProcessesApart' /\ CountsKeepUp' BY <1>1 DEF ProcessesApart, CountsKeepUp
<1>11. SeenStaysDead' BY <1>1, <1>2, <1>3, <1>4 DEF SeenStaysDead
<1>12. SentSound'
  <2> SUFFICES ASSUME NEW d \in ToolCalls
      PROVE  /\ sent'[d] \subseteq 1..born'
             /\ toolCall'[d].pc = "attempt" => sent'[d] = {}
             /\ toolCall'[d].pc = "failed" =>
                  \E q \in sent'[d] : /\ sent'[d] = {q} /\ q \notin unready'
                                      /\ \A h \in Groups : session'[h].pid = q => h = toolCall'[d].g
             /\ toolCall'[d].pc = "retry" =>
                  \E q \in sent'[d] : sent'[d] = {q} /\ (q \in upright' => q \in overtaken')
             /\ sent'[d] = {} \/ \E q, s \in sent'[d] : sent'[d] = {q, s}
             /\ \A q, s \in sent'[d] : q < s /\ q \in upright' => q \in overtaken'
    BY DEF SentSound
  <2>1. CASE d = c BY <2>1, <1>1, <1>2, <1>4, <1>5, <1>7, <1>8
  <2>2. CASE d # c
    <3>1. sent'[d] = sent[d] /\ toolCall'[d] = toolCall[d] BY <2>2, <1>4, <1>7
    <3> QED BY <3>1, <1>1, <1>3 DEF SentSound
  <2> QED BY <2>1, <2>2
<1>13. SessionsOwnProcesses' BY <1>1, <1>3 DEF SessionsOwnProcesses
<1> QED BY <1>9, <1>10, <1>11, <1>12, <1>13

\* A process that is started has a number that nothing names yet, and it takes the place
\* of none that runs, but of one that is said to be overtaken.
LEMMA StartKeeps ==
  ASSUME ToolInv, NEW c \in ToolCalls, NEW g \in Groups,
         born < MaxSessions, born' = born + 1,
         NEW n \in Nat, session' = [session EXCEPT ![g] = [pid |-> born', restarts |-> n]],
         n \in {replaced[g], replaced[g] + 1}, replaced' = [replaced EXCEPT ![g] = n],
         upright' \in {upright, upright \cup {born'}},
         overtaken \subseteq overtaken', overtaken' \subseteq overtaken \cup ({session[g].pid} \ {NoSession}),
         session[g].pid \in upright => session[g].pid \in overtaken',
         UNCHANGED <<registry, unready>>,
         NEW r \in ToolCall, toolCall' = [toolCall EXCEPT ![c] = r], r.saw = NoSession,
         sent' = [sent EXCEPT ![c] = @ \cup {born'}],
         \/ r.pc \in {"idle", "failed"} /\ (r.pc = "failed" => r.g = g) /\ toolCall[c].pc = "attempt"
         \/ r.pc = "idle" /\ toolCall[c].pc = "retry"
  PROVE  ToolInv'
<1> USE DEF ToolInv
<1>1. /\ toolCall' \in [ToolCalls -> ToolCall] /\ toolCall'[c] = r
      /\ \A d \in ToolCalls \ {c} : toolCall'[d] = toolCall[d]
  BY OthersStand
<1>2. born \in 0..MaxSessions /\ born' \in Numbers /\ born' \notin 1..born /\ 1..born' = 1..born \cup {born'}
  <2>1. born \in 0..MaxSessions /\ MaxSessions \in Nat BY ToolAssumption DEF ToolTypeOK
  <2> QED BY <2>1 DEF Numbers
<1>3. replaced[g] <= born /\ replaced \in [Groups -> 0..MaxSessions] /\ n <= born' /\ n \in 0..MaxSessions
  BY <1>2, ToolAssumption DEF CountsKeepUp, ToolTypeOK
<1>4. [pid |-> born', restarts |-> n] \in Session BY <1>2, <1>3 DEF Session
<1>5. /\ session' \in [Groups -> Session] /\ session'[g].pid = born' /\ session'[g].restarts = n
      /\ \A h \in Groups \ {g} : session'[h] = session[h]
  BY <1>4 DEF ToolTypeOK
<1>6. /\ replaced' \in [Groups -> 0..MaxSessions] /\ replaced'[g] = n
      /\ \A h \in Groups \ {g} : replaced'[h] = replaced[h]
  BY <1>3
<1>7. upright \subseteq 1..born /\ unready \subseteq 1..born /\ \A d \in ToolCalls : sent[d] \subseteq 1..born
  BY DEF ToolTypeOK, ProcessesApart, SentSound
<1>8. /\ sent' \in [ToolCalls -> SUBSET Numbers] /\ sent'[c] = sent[c] \cup {born'}
      /\ \A d \in ToolCalls \ {c} : sent'[d] = sent[d]
  BY <1>2 DEF ToolTypeOK
<1>9. upright \subseteq upright' /\ upright' \subseteq upright \cup {born'}
  OBVIOUS
<1>10. session[g].pid \in Numbers \cup {NoSession} BY DEF ToolTypeOK, Session
<1>11. NoSession \notin 1..born' BY <1>2, ToolAssumption
<1>12. overtaken' \subseteq Numbers
  BY <1>10 DEF ToolTypeOK
<1>13. ToolTypeOK'
  <2>1. upright' \subseteq 1..born' BY <1>2, <1>7, <1>9
  <2>2. \A d \in ToolCalls : toolCall'[d].pc # "retry" => toolCall'[d].saw = NoSession
    BY <1>1 DEF ToolTypeOK
  <2>3. born' \in 0..MaxSessions BY <1>2 DEF Numbers
  <2> QED BY <1>1, <1>5, <1>6, <1>8, <1>12, <2>1, <2>2, <2>3 DEF ToolTypeOK, ToolCall
<1>14. ProcessesApart'
  BY <1>2, <1>5, <1>7, <1>11 DEF ProcessesApart
<1>15. CountsKeepUp'
  <2> SUFFICES ASSUME NEW h \in Groups 
               PROVE  /\ session'[h].restarts = replaced'[h] /\ replaced'[h] <= born'
                      /\ session'[h].pid = NoSession => replaced'[h] = 0
    BY DEF CountsKeepUp
  <2>1. CASE h = g BY <2>1, <1>2, <1>3, <1>5, <1>6, <1>11
  <2>2. CASE h # g
    <3>1. /\ session[h].restarts = replaced[h] /\ replaced[h] <= born /\ replaced[h] \in Nat /\ born \in Nat
          /\ session[h].pid = NoSession => replaced[h] = 0
      BY <1>2, <1>3, ToolAssumption DEF CountsKeepUp
    <3> QED BY <2>2, <3>1, <1>5, <1>6
  <2> QED BY <2>1, <2>2
<1>16. SeenStaysDead'
  BY <1>1, <1>2, <1>9 DEF SeenStaysDead
<1>17. SessionsOwnProcesses'
  BY <1>5, <1>9 DEF SessionsOwnProcesses
<1>18. SentSound'
  <2> SUFFICES ASSUME NEW d \in ToolCalls
      PROVE  /\ sent'[d] \subseteq 1..born'
             /\ toolCall'[d].pc = "attempt" => sent'[d] = {}
             /\ toolCall'[d].pc = "failed" =>
                  \E q \in sent'[d] : /\ sent'[d] = {q} /\ q \notin unready'
                                      /\ \A h \in Groups : session'[h].pid = q => h = toolCall'[d].g
             /\ toolCall'[d].pc = "retry" =>
                  \E q \in sent'[d] : sent'[d] = {q} /\ (q \in upright' => q \in overtaken')
             /\ sent'[d] = {} \/ \E q, s \in sent'[d] : sent'[d] = {q, s}
             /\ \A q, s \in sent'[d] : q < s /\ q \in upright' => q \in overtaken'
    BY DEF SentSound
  <2>1. CASE d = c /\ toolCall[c].pc = "attempt"
    <3>1. sent'[c] = {born'} BY <2>1, <1>8 DEF SentSound
    <3>2. \A h \in Groups : session'[h].pid = born' => h = g
      BY <1>2, <1>5, <1>11 DEF ProcessesApart
    <3>3. born' \notin unready' /\ born' \in 1..born' BY <1>2, <1>7
    <3>4. r.pc \in {"idle", "failed"} /\ (r.pc = "failed" => r.g = g)
      BY <2>1
    <3> QED BY <2>1, <3>1, <3>2, <3>3, <3>4, <1>1, <1>2 DEF Numbers
  <2>2. CASE d = c /\ toolCall[c].pc = "retry"
    <3>1. PICK p \in sent[c] : sent[c] = {p} /\ (p \in upright => p \in overtaken)
      BY <2>2 DEF SentSound
    <3>2. sent'[c] = {p, born'} /\ p \in 1..born /\ r.pc = "idle" BY <2>2, <3>1, <1>7, <1>8
    <3>3. \A q, s \in sent'[c] : q < s => q = p
      BY <3>2, <1>2 DEF Numbers
    <3>4. p \in upright' => p \in overtaken' BY <3>1, <3>2, <1>2, <1>9
    <3> QED BY <2>2, <3>2, <3>3, <3>4, <1>1, <1>2
  <2>3. CASE d # c
    <3>1. sent'[d] = sent[d] /\ toolCall'[d] = toolCall[d] BY <2>3, <1>1, <1>8
    <3>2. \A q \in sent[d] : q \in 1..born /\ (q \in upright' => q \in upright) BY <1>2, <1>7, <1>9
    <3>3. toolCall[d].pc = "failed" =>
                  \E q \in sent[d] : /\ sent[d] = {q} /\ q \notin unready
                                     /\ \A h \in Groups : session'[h].pid = q => h = toolCall[d].g
      BY <1>2, <1>5, <1>7 DEF SentSound
    <3> QED BY <3>1, <3>2, <3>3, <1>2 DEF SentSound
  <2> QED BY <2>1, <2>2, <2>3
<1> QED BY <1>13, <1>14, <1>15, <1>16, <1>17, <1>18

LEMMA NobodyIsDown == ToolInv => NoSession \notin upright
<1> SUFFICES ASSUME ToolInv PROVE NoSession \notin upright
  OBVIOUS
<1>1. upright \subseteq 1..born /\ born \in 0..MaxSessions /\ MaxSessions \in Nat
  BY ToolAssumption DEF ToolInv, ToolTypeOK
<1>2. 1..born \subseteq 1..MaxSessions BY <1>1
<1>3. NoSession \notin 1..MaxSessions BY ToolAssumption
<1> QED BY <1>1, <1>2, <1>3

LEMMA AttemptFirstKeeps == ASSUME ToolInv, NEW c \in ToolCalls, AttemptFirst(c) PROVE ToolInv'
<1> USE DEF ToolInv
<1> DEFINE g == toolCall[c].g
<1>1. /\ toolCall[c].pc = "attempt" /\ session[g].pid = NoSession
      /\ born < MaxSessions /\ born' = born + 1
      /\ session' = [session EXCEPT ![g] = [pid |-> born', restarts |-> 0]]
      /\ Deliver(c, born', upright, Goes2(c, "failed", NoSession))
      /\ UNCHANGED <<registry, replaced, unready, overtaken>>
  BY DEF AttemptFirst, Holds, Group
<1>2. PICK r \in ToolCall : /\ toolCall' = [toolCall EXCEPT ![c] = r]
                            /\ r.pc \in {"idle", "failed"} /\ r.saw = NoSession
                            /\ r.pc = "failed" => r.g = g
  BY <1>1, DeliverTyped
<1>3. sent' = [sent EXCEPT ![c] = @ \cup {born'}] /\ upright' \in {upright, upright \cup {born'}}
  BY <1>1, DeliverTyped
<1>4. g \in Groups BY DEF ToolTypeOK
<1>5. session[g].pid \notin upright
  BY <1>1, NobodyIsDown
<1> DEFINE n == 0
<1>6. replaced[g] = n /\ replaced' = [replaced EXCEPT ![g] = n] /\ n \in Nat
      /\ session' = [session EXCEPT ![g] = [pid |-> born', restarts |-> n]]
  BY <1>1, <1>4 DEF CountsKeepUp, ToolTypeOK
<1> HIDE DEF n
<1> HIDE DEF g
<1> QED BY <1>1, <1>2, <1>3, <1>4, <1>5, <1>6, StartKeeps

LEMMA AttemptRestartKeeps == ASSUME ToolInv, NEW c \in ToolCalls, AttemptRestart(c) PROVE ToolInv'
<1> USE DEF ToolInv
<1> DEFINE g == toolCall[c].g
           n == replaced[g] + 1
<1>1. /\ toolCall[c].pc = "attempt" /\ session[g].pid \notin upright
      /\ born < MaxSessions /\ born' = born + 1
      /\ session' = [session EXCEPT ![g] = [pid |-> born', restarts |-> session[g].restarts + 1]]
      /\ replaced' = [replaced EXCEPT ![g] = replaced[g] + 1]
      /\ Deliver(c, born', upright, Goes2(c, "failed", NoSession))
      /\ UNCHANGED <<registry, unready, overtaken>>
  BY DEF AttemptRestart, Holds, Group, Died, ToolTypeOK
<1>2. PICK r \in ToolCall : /\ toolCall' = [toolCall EXCEPT ![c] = r]
                            /\ r.pc \in {"idle", "failed"} /\ r.saw = NoSession
                            /\ r.pc = "failed" => r.g = g
  BY <1>1, DeliverTyped
<1>3. sent' = [sent EXCEPT ![c] = @ \cup {born'}] /\ upright' \in {upright, upright \cup {born'}}
  BY <1>1, DeliverTyped
<1>4. g \in Groups BY DEF ToolTypeOK
<1>5. session[g].restarts + 1 = n /\ n \in Nat
  BY <1>4, ToolAssumption DEF CountsKeepUp, ToolTypeOK
<1> HIDE DEF g
<1> QED BY <1>1, <1>2, <1>3, <1>4, <1>5, StartKeeps

\* Whichever process is replaced, the one that was seen is dead and another is overtaken.
LEMMA CrossingMarks ==
  ASSUME ToolInv, NEW c \in ToolCalls, Crossing(c)
  PROVE  /\ overtaken \subseteq overtaken'
         /\ overtaken' \subseteq overtaken \cup ({session[toolCall[c].g].pid} \ {NoSession})
         /\ session[toolCall[c].g].pid \in upright => session[toolCall[c].g].pid \in overtaken'
<1>1. session[toolCall[c].g].pid \in {NoSession, toolCall[c].saw} => session[toolCall[c].g].pid \notin upright
  BY NobodyIsDown DEF ToolInv, SeenStaysDead
<1> QED BY <1>1 DEF Crossing, Group

LEMMA RetryKeeps == ASSUME ToolInv, NEW c \in ToolCalls, Retry(c) PROVE ToolInv'
<1> USE DEF ToolInv
<1> DEFINE g == toolCall[c].g
           n == replaced[g] + 1
<1>1. /\ toolCall[c].pc = "retry" /\ Crossing(c)
      /\ born < MaxSessions /\ born' = born + 1
      /\ session' = [session EXCEPT ![g] = [pid |-> born', restarts |-> session[g].restarts + 1]]
      /\ replaced' = [replaced EXCEPT ![g] = replaced[g] + 1]
      /\ Deliver(c, born', upright, Done(c))
      /\ UNCHANGED <<registry, unready>>
  BY DEF Retry, Holds, Group, ToolTypeOK
<1>2. /\ toolCall' = [toolCall EXCEPT ![c] = AtEase]
      /\ sent' = [sent EXCEPT ![c] = @ \cup {born'}] /\ upright' \in {upright, upright \cup {born'}}
  BY <1>1 DEF Deliver, Done
<1>3. g \in Groups BY DEF ToolTypeOK
<1>4. session[g].restarts + 1 = n /\ n \in Nat
  BY <1>3, ToolAssumption DEF CountsKeepUp, ToolTypeOK
<1> HIDE DEF g
<1>5. /\ overtaken \subseteq overtaken' /\ overtaken' \subseteq overtaken \cup ({session[g].pid} \ {NoSession})
      /\ session[g].pid \in upright => session[g].pid \in overtaken'
  BY <1>1, CrossingMarks DEF g
<1> QED BY <1>1, <1>2, <1>3, <1>4, <1>5, AtEaseTyped, StartKeeps

\* The same for one that is dropped before it answers, and whose session is gone.
LEMMA UnreadyKeeps ==
  ASSUME ToolInv, NEW c \in ToolCalls, NEW g \in Groups, Unready(c, g),
         overtaken \subseteq overtaken', overtaken' \subseteq overtaken \cup ({session[g].pid} \ {NoSession}),
         session[g].pid \in upright => session[g].pid \in overtaken'
  PROVE  ToolInv'
<1> USE DEF ToolInv
<1>1. /\ born < MaxSessions /\ born' = born + 1
      /\ upright' \in {upright, upright \cup {born'}} /\ unready' = unready \cup {born'}
      /\ session' = [session EXCEPT ![g] = NoEntry] /\ replaced' = [replaced EXCEPT ![g] = 0]
      /\ toolCall' = [toolCall EXCEPT ![c] = AtEase] /\ UNCHANGED <<registry, sent>>
  BY DEF Unready, Done
<1>2. /\ toolCall' \in [ToolCalls -> ToolCall] /\ toolCall'[c] = AtEase
      /\ \A d \in ToolCalls \ {c} : toolCall'[d] = toolCall[d]
  BY <1>1, AtEaseTyped, OthersStand
<1>3. born \in 0..MaxSessions /\ born' \in Numbers /\ born' \notin 1..born /\ 1..born' = 1..born \cup {born'}
  <2>1. born \in 0..MaxSessions /\ MaxSessions \in Nat BY ToolAssumption DEF ToolTypeOK
  <2> QED BY <2>1, <1>1 DEF Numbers
<1>4. /\ session' \in [Groups -> Session] /\ session'[g].pid = NoSession /\ session'[g].restarts = 0
      /\ \A h \in Groups \ {g} : session'[h] = session[h]
  <2>1. NoEntry \in Session /\ NoEntry.pid = NoSession /\ NoEntry.restarts = 0
    BY ToolAssumption DEF NoEntry, Session
  <2> QED BY <2>1, <1>1 DEF ToolTypeOK
<1>5. /\ replaced' \in [Groups -> 0..MaxSessions] /\ replaced'[g] = 0
      /\ \A h \in Groups \ {g} : replaced'[h] = replaced[h]
  BY <1>1, ToolAssumption DEF ToolTypeOK
<1>6. upright \subseteq 1..born /\ unready \subseteq 1..born /\ \A d \in ToolCalls : sent[d] \subseteq 1..born
  BY DEF ToolTypeOK, ProcessesApart, SentSound
<1>7. upright \subseteq upright' /\ upright' \subseteq upright \cup {born'}
  BY <1>1
<1>8. session[g].pid \in Numbers \cup {NoSession} /\ overtaken' \subseteq Numbers BY DEF ToolTypeOK, Session
<1>9. ToolTypeOK'
  <2>1. upright' \subseteq 1..born' /\ unready' \subseteq Numbers
    BY <1>1, <1>3, <1>6, <1>7 DEF ToolTypeOK
  <2>2. \A d \in ToolCalls : toolCall'[d].pc # "retry" => toolCall'[d].saw = NoSession
    BY <1>2, AtEaseTyped DEF ToolTypeOK
  <2>3. born' \in 0..MaxSessions BY <1>3 DEF Numbers
  <2>4. registry' \subseteq Groups /\ sent' \in [ToolCalls -> SUBSET Numbers] BY <1>1 DEF ToolTypeOK
  <2>5. toolCall' \in [ToolCalls -> [pc: ToolPCs, g: Groups, saw: Numbers \cup {NoSession}, reg: SUBSET Groups]]
    BY <1>2 DEF ToolCall
  <2> QED BY ONLY <1>4, <1>5, <1>8, <2>1, <2>2, <2>3, <2>4, <2>5 DEF ToolTypeOK
<1>10. ProcessesApart'
  <2>1. NoSession # born' BY <1>3, ToolAssumption DEF Numbers
  <2> QED BY <1>1, <1>3, <1>4, <1>6, <2>1 DEF ProcessesApart
<1>11. CountsKeepUp'
  <2> SUFFICES ASSUME NEW h \in Groups
               PROVE  /\ session'[h].restarts = replaced'[h] /\ replaced'[h] <= born'
                      /\ session'[h].pid = NoSession => replaced'[h] = 0
    BY DEF CountsKeepUp
  <2>1. born \in Nat /\ replaced[h] \in Nat BY <1>3, ToolAssumption DEF ToolTypeOK
  <2>2. /\ session[h].restarts = replaced[h] /\ replaced[h] <= born
        /\ session[h].pid = NoSession => replaced[h] = 0
    BY DEF CountsKeepUp
  <2> QED BY <2>1, <2>2, <1>1, <1>4, <1>5
<1>12. SeenStaysDead' BY <1>2, <1>3, <1>7, AtEaseTyped DEF SeenStaysDead
<1>13. SessionsOwnProcesses' BY <1>1, <1>4, <1>7 DEF SessionsOwnProcesses
<1>14. SentSound'
  <2> SUFFICES ASSUME NEW d \in ToolCalls
      PROVE  /\ sent[d] \subseteq 1..born'
             /\ toolCall'[d].pc = "attempt" => sent[d] = {}
             /\ toolCall'[d].pc = "failed" =>
                  \E q \in sent[d] : /\ sent[d] = {q} /\ q \notin unready'
                                     /\ \A h \in Groups : session'[h].pid = q => h = toolCall'[d].g
             /\ toolCall'[d].pc = "retry" =>
                  \E q \in sent[d] : sent[d] = {q} /\ (q \in upright' => q \in overtaken')
             /\ sent[d] = {} \/ \E q, s \in sent[d] : sent[d] = {q, s}
             /\ \A q, s \in sent[d] : q < s /\ q \in upright' => q \in overtaken'
    BY <1>1 DEF SentSound
  <2>1. \A q \in sent[d] : q \in 1..born /\ (q \in upright' => q \in upright) /\ (q \in unready' => q \in unready)
    BY <1>1, <1>3, <1>6, <1>7
  <2>2. \A q \in sent[d] : q # NoSession
    BY <2>1, <1>3, ToolAssumption
  <2>3. CASE d = c BY <2>1, <2>3, <1>2, <1>3, AtEaseTyped DEF SentSound
  <2>4. CASE d # c
    <3>1. toolCall'[d] = toolCall[d] BY <2>4, <1>2
    <3>2. toolCall[d].pc = "failed" =>
                  \E q \in sent[d] : /\ sent[d] = {q} /\ q \notin unready'
                                     /\ \A h \in Groups : session'[h].pid = q => h = toolCall[d].g
      BY <2>1, <2>2, <1>4 DEF SentSound
    <3> QED BY <3>1, <3>2, <2>1, <1>3 DEF SentSound
  <2> QED BY <2>3, <2>4
<1> QED BY <1>9, <1>10, <1>11, <1>12, <1>13, <1>14

LEMMA AttemptUnreadyKeeps == ASSUME ToolInv, NEW c \in ToolCalls, AttemptUnready(c) PROVE ToolInv'
<1> DEFINE g == toolCall[c].g
<1>1. Unready(c, g) /\ UNCHANGED overtaken
  BY DEF AttemptUnready, Group
<1>2. session[g].pid = NoSession \/ session[g].pid \notin upright
  BY DEF AttemptUnready, Group, Died
<1>3. g \in Groups /\ NoSession \notin upright BY NobodyIsDown DEF ToolInv, ToolTypeOK
<1> HIDE DEF g
<1> QED BY <1>1, <1>2, <1>3, UnreadyKeeps

LEMMA RetryUnreadyKeeps == ASSUME ToolInv, NEW c \in ToolCalls, RetryUnready(c) PROVE ToolInv'
<1> DEFINE g == toolCall[c].g
<1>1. Unready(c, g) /\ Crossing(c)
  BY DEF RetryUnready, Group
<1>2. g \in Groups BY DEF ToolInv, ToolTypeOK
<1> HIDE DEF g
<1>3. /\ overtaken \subseteq overtaken' /\ overtaken' \subseteq overtaken \cup ({session[g].pid} \ {NoSession})
      /\ session[g].pid \in upright => session[g].pid \in overtaken'
  BY <1>1, CrossingMarks DEF g
<1> QED BY <1>1, <1>2, <1>3, UnreadyKeeps
-----------------------------------------------------------------------------
(* Sessions that go, and processes that die                                *)

\* Sessions may go whose processes are dead, and calls may be over; nothing else changes.
LEMMA GoneKeeps ==
  ASSUME ToolInv, NEW G \in SUBSET Groups,
         session' = [g \in Groups |-> IF g \in G THEN NoEntry ELSE session[g]],
         replaced' = [g \in Groups |-> IF g \in G THEN 0 ELSE replaced[g]],
         upright' \subseteq upright, \A g \in G : session[g].pid \notin upright',
         UNCHANGED <<registry, born, sent, unready, overtaken>>,
         NEW C \in SUBSET ToolCalls, toolCall' = [c \in ToolCalls |-> IF c \in C THEN AtEase ELSE toolCall[c]]
  PROVE  ToolInv'
<1> USE DEF ToolInv
<1>1. NoEntry \in Session /\ NoEntry.pid = NoSession /\ NoEntry.restarts = 0
  BY ToolAssumption DEF NoEntry, Session
<1>2. session' \in [Groups -> Session] /\ replaced' \in [Groups -> 0..MaxSessions]
  BY <1>1, ToolAssumption DEF ToolTypeOK
<1>3. toolCall' \in [ToolCalls -> ToolCall] /\ \A c \in ToolCalls : toolCall'[c] \in {AtEase, toolCall[c]}
  BY AtEaseTyped DEF ToolTypeOK, ToolCall
<1>4. ToolTypeOK' BY <1>2, <1>3, AtEaseTyped DEF ToolTypeOK, ToolCall
<1>5. ProcessesApart' BY <1>1 DEF ProcessesApart
<1>6. CountsKeepUp'
  <2>1. born \in Nat BY ToolAssumption DEF ToolTypeOK
  <2> QED BY <1>1, <2>1 DEF CountsKeepUp
<1>7. SeenStaysDead' BY <1>3, AtEaseTyped DEF SeenStaysDead
<1>8. SessionsOwnProcesses' BY DEF SessionsOwnProcesses
<1>9. SentSound'
  <2> SUFFICES ASSUME NEW d \in ToolCalls
      PROVE  /\ sent[d] \subseteq 1..born
             /\ toolCall'[d].pc = "attempt" => sent[d] = {}
             /\ toolCall'[d].pc = "failed" =>
                  \E q \in sent[d] : /\ sent[d] = {q} /\ q \notin unready
                                     /\ \A h \in Groups : session'[h].pid = q => h = toolCall'[d].g
             /\ toolCall'[d].pc = "retry" =>
                  \E q \in sent[d] : sent[d] = {q} /\ (q \in upright' => q \in overtaken)
             /\ sent[d] = {} \/ \E q, s \in sent[d] : sent[d] = {q, s}
             /\ \A q, s \in sent[d] : q < s /\ q \in upright' => q \in overtaken
    BY DEF SentSound
  <2>1. \A q \in sent[d] : q # NoSession
    <3>1. born \in 0..MaxSessions /\ MaxSessions \in Nat /\ sent[d] \subseteq 1..born
      BY ToolAssumption DEF ToolTypeOK, SentSound
    <3> QED BY <3>1, ToolAssumption
  <2>2. toolCall[d].pc = "failed" =>
                  \E q \in sent[d] : /\ sent[d] = {q} /\ q \notin unready
                                     /\ \A h \in Groups : session'[h].pid = q => h = toolCall[d].g
    BY <2>1, <1>1 DEF SentSound
  <2> QED BY <2>2, <1>3, AtEaseTyped DEF SentSound
<1> QED BY <1>4, <1>5, <1>6, <1>7, <1>8, <1>9

LEMMA RefusedKeeps == ASSUME ToolInv, NEW c \in ToolCalls, AttemptRefused(c) PROVE ToolInv'
<1> DEFINE g == toolCall[c].g
<1>1. /\ session[g].pid \notin upright
      /\ session' = [session EXCEPT ![g] = NoEntry] /\ replaced' = [replaced EXCEPT ![g] = 0]
      /\ toolCall' = [toolCall EXCEPT ![c] = AtEase] /\ UNCHANGED <<registry, upright, born, sent, unready, overtaken>>
  BY DEF AttemptRefused, Group, Died, Done
<1>2. g \in Groups /\ session \in [Groups -> Session] /\ replaced \in [Groups -> 0..MaxSessions]
      /\ toolCall \in [ToolCalls -> ToolCall]
  BY DEF ToolInv, ToolTypeOK, ToolCall
<1> HIDE DEF g
<1>3. /\ session' = [h \in Groups |-> IF h \in {g} THEN NoEntry ELSE session[h]]
      /\ replaced' = [h \in Groups |-> IF h \in {g} THEN 0 ELSE replaced[h]]
      /\ toolCall' = [d \in ToolCalls |-> IF d \in {c} THEN AtEase ELSE toolCall[d]]
  BY <1>1, <1>2
<1>4. {g} \in SUBSET Groups /\ {c} \in SUBSET ToolCalls /\ \A h \in {g} : session[h].pid \notin upright'
  BY <1>1, <1>2
<1> QED BY <1>1, <1>3, <1>4, GoneKeeps

LEMMA ProcessDiesKeeps == ASSUME ToolInv, NEW p \in Numbers, ProcessDies(p) PROVE ToolInv'
<1>1. session \in [Groups -> Session] /\ replaced \in [Groups -> 0..MaxSessions] /\ toolCall \in [ToolCalls -> ToolCall]
  BY DEF ToolInv, ToolTypeOK, ToolCall
<1>2. /\ session' = [h \in Groups |-> IF h \in {} THEN NoEntry ELSE session[h]]
      /\ replaced' = [h \in Groups |-> IF h \in {} THEN 0 ELSE replaced[h]]
      /\ toolCall' = [d \in ToolCalls |-> IF d \in {} THEN AtEase ELSE toolCall[d]]
      /\ upright' \subseteq upright /\ UNCHANGED <<registry, born, sent, unready, overtaken>>
  BY <1>1 DEF ProcessDies
<1>3. {} \in SUBSET Groups /\ {} \in SUBSET ToolCalls /\ \A h \in {} : session[h].pid \notin upright'
  OBVIOUS
<1> QED BY <1>2, <1>3, GoneKeeps

LEMMA DropKeeps == ASSUME ToolInv, EngineDrops PROVE ToolInv'
<1>1. session \in [Groups -> Session] /\ replaced \in [Groups -> 0..MaxSessions] /\ toolCall \in [ToolCalls -> ToolCall]
  BY DEF ToolInv, ToolTypeOK, ToolCall
<1>2. /\ session' = [h \in Groups |-> IF h \in Groups THEN NoEntry ELSE session[h]]
      /\ replaced' = [h \in Groups |-> IF h \in Groups THEN 0 ELSE replaced[h]]
      /\ toolCall' = [d \in ToolCalls |-> IF d \in {} THEN AtEase ELSE toolCall[d]]
      /\ upright' \subseteq upright /\ \A h \in Groups : session[h].pid \notin upright'
      /\ UNCHANGED <<registry, born, sent, unready, overtaken>>
  BY <1>1 DEF EngineDrops
<1>3. Groups \in SUBSET Groups /\ {} \in SUBSET ToolCalls
  OBVIOUS
<1> QED BY <1>2, <1>3, GoneKeeps
-----------------------------------------------------------------------------
\* A request is sent to two processes at most.
LEMMA SentTwice == ASSUME ToolInv, NEW c \in ToolCalls PROVE Cardinality(sent[c]) <= 2
<1>1. CASE sent[c] = {} BY <1>1, FS_EmptySet
<1>2. CASE sent[c] # {}
  <2>1. PICK p, q \in sent[c] : sent[c] = {p, q} BY <1>2 DEF ToolInv, SentSound
  <2>2. {p, q} = {p} \cup {q} OBVIOUS
  <2>3. IsFiniteSet({p}) /\ Cardinality({p}) = 1 BY FS_Singleton
  <2> HIDE DEF ToolInv
  <2>4. Cardinality({p} \cup {q}) = IF q \in {p} THEN Cardinality({p}) ELSE Cardinality({p}) + 1
    BY <2>3, FS_AddElement
  <2> QED BY <2>1, <2>2, <2>3, <2>4
<1> QED BY <1>1, <1>2

\* External tool groups (tool_group.rs): however calls cross and processes die, no process
\* is left without an owner but those that were overtaken or never answered, the count of
\* restarts is true, and no request is repeated while the process it first went to runs,
\* unless another call has replaced that one.
THEOREM ToolsSafe == ToolSpec => []ToolsKeep
<1>1. ToolInit => ToolInv
  BY ToolsStart
<1>2. ToolInv /\ [ToolNext]_toolVars => ToolInv'
  <2> SUFFICES ASSUME ToolInv, [ToolNext]_toolVars PROVE ToolInv'
    OBVIOUS
  <2>1. ASSUME NEW c \in ToolCalls, StageGroup(c) PROVE ToolInv' BY <2>1, StageKeeps
  <2>2. ASSUME NEW c \in ToolCalls, StoreRegistry(c) PROVE ToolInv' BY <2>2, StoreKeeps
  <2>3. ASSUME NEW c \in ToolCalls, Invoke(c) PROVE ToolInv' BY <2>3, InvokeKeeps
  <2>4. ASSUME NEW c \in ToolCalls, AttemptAlive(c) PROVE ToolInv' BY <2>4, AttemptAliveKeeps
  <2>5. ASSUME NEW c \in ToolCalls, AttemptFirst(c) PROVE ToolInv' BY <2>5, AttemptFirstKeeps
  <2>6. ASSUME NEW c \in ToolCalls, AttemptRestart(c) PROVE ToolInv' BY <2>6, AttemptRestartKeeps
  <2>7. ASSUME NEW c \in ToolCalls, AttemptUnready(c) PROVE ToolInv' BY <2>7, AttemptUnreadyKeeps
  <2>8. ASSUME NEW c \in ToolCalls, AttemptRefused(c) PROVE ToolInv' BY <2>8, RefusedKeeps
  <2>9. ASSUME NEW c \in ToolCalls, Look(c) PROVE ToolInv' BY <2>9, LookKeeps
  <2>10. ASSUME NEW c \in ToolCalls, Retry(c) PROVE ToolInv' BY <2>10, RetryKeeps
  <2>11. ASSUME NEW c \in ToolCalls, RetryUnready(c) PROVE ToolInv' BY <2>11, RetryUnreadyKeeps
  <2>12. ASSUME NEW p \in Numbers, ProcessDies(p) PROVE ToolInv' BY <2>12, ProcessDiesKeeps
  <2>13. CASE EngineDrops BY <2>13, DropKeeps
  <2>14. CASE UNCHANGED toolVars
    BY <2>14 DEF toolVars, ToolInv, ToolTypeOK, ProcessesApart, CountsKeepUp, SeenStaysDead, SentSound, SessionsOwnProcesses
  <2> QED BY <2>1, <2>2, <2>3, <2>4, <2>5, <2>6, <2>7, <2>8, <2>9, <2>10, <2>11, <2>12, <2>13, <2>14 DEF ToolNext
<1>3. ToolInv => ToolsKeep
  <2> SUFFICES ASSUME ToolInv PROVE ToolsKeep
    OBVIOUS
  <2>1. RestartsCounted BY DEF ToolInv, CountsKeepUp, RestartsCounted
  <2>2. RepeatedOnlyAfterDeath BY SentTwice DEF ToolInv, SentSound, RepeatedOnlyAfterDeath
  <2> QED BY <2>1, <2>2 DEF ToolInv, ToolsKeep
<1> QED BY <1>1, <1>2, <1>3, PTL DEF ToolSpec

-----------------------------------------------------------------------------
(* Editing: a hash that passes is of the symbols that the file has.        *)

\* A caller's call, and what those that change text have read.
Cutting == {"upsert", "delete", "top", "mutate"}
EditorCall == [at: EditSteps, kind: Kinds \cup {"upsert"}, label: Labels, line: 0..1, root: Roots,
               src: Maybe, view: Maybe]
EditorSound(r) ==
  /\ r \in EditorCall
  /\ r.at = "read" => r.kind \in Cutting
  /\ r.at = "parse" => r.kind \in Cutting /\ r.src \in Sources
  /\ r.at = "write" /\ r.kind \in Cutting => r.src \in Sources /\ r.view \in Sources
EditingTyped ==
  /\ file_at \in [Roots -> Maybe] /\ open \in BOOLEAN
  /\ indexed \subseteq Symbol /\ row \in Maybe \cup {NoneHeld} /\ reading \in Maybe \cup {NoneHeld}
  /\ DOMAIN editor = Editors /\ \A e \in Editors : EditorSound(editor[e])
  /\ held \in [Editors -> (SUBSET Symbol) \cup {NoneHeld}] /\ saw \in [Editors -> Maybe]
\* The index has what its row was parsed to, and the row is the file's as it is, or
\* nobody's hash counts.
IndexSound ==
  /\ indexed # {} => row # NoneHeld
  /\ row # NoneHeld => SymbolsOf(row) \subseteq indexed
  /\ stale => Editors \subseteq excused
  /\ row \notin {NoneHeld, file_at["real"]} /\ ~Underway => Editors \subseteq excused
\* A hash that counts is of the symbols of the workspace when it was taken.
HashesTrue ==
  \A e \in Editors : held[e] # NoneHeld /\ e \notin excused => held[e] = SymbolsOf(saw[e])
EditingInv == EditingTyped /\ IndexSound /\ HashesTrue /\ IndexFollows /\ BaseHashGuards
-----------------------------------------------------------------------------
LEMMA SourceDef == \A c : c \in Sources <=> c \in Seq(Block) /\ Len(c) <= MaxBlocks
<1>1. MaxBlocks \in Nat
  BY EditingAssumption
<1>2. ASSUME NEW c, c \in Sources PROVE c \in Seq(Block) /\ Len(c) <= MaxBlocks
  <2>1. PICK k \in 0..MaxBlocks : c \in [1..k -> Block]
    BY <1>2 DEF Sources
  <2>2. k \in Nat /\ k <= MaxBlocks
    BY <2>1, <1>1
  <2>3. c \in Seq(Block)
    BY <2>1, <2>2
  <2>4. Len(c) = k
    BY <2>1, <2>2, <2>3, LenProperties
  <2> QED BY <2>2, <2>3, <2>4
<1>3. ASSUME NEW c, c \in Seq(Block), Len(c) <= MaxBlocks PROVE c \in Sources
  <2>1. Len(c) \in 0..MaxBlocks /\ c \in [1..Len(c) -> Block]
    BY <1>1, <1>3, LenProperties
  <2> QED BY <2>1 DEF Sources
<1> QED BY <1>2, <1>3

LEMMA OneBlock == ASSUME NEW b \in Block PROVE <<b>> \in Sources /\ <<>> \in Sources
<1>1. <<b>> \in [1..1 -> Block] /\ 1 \in 0..MaxBlocks
  BY EditingAssumption
<1>2. <<>> \in Seq(Block) /\ Len(<<>>) <= MaxBlocks
  BY EmptySeq, EditingAssumption
<1>3. <<b>> \in Sources
  BY <1>1 DEF Sources
<1> QED BY <1>2, <1>3, SourceDef

\* The symbols of a content are symbols.
LEMMA SymbolsTyped == ASSUME NEW c \in Maybe PROVE SymbolsOf(c) \subseteq Symbol
<1>1. OtherSymbols \in Symbol
  <2>1. (CHOOSE l \in Labels : TRUE) \in Labels /\ 0 \in 0..MaxBlocks
    BY EditingAssumption
  <2> QED BY <2>1 DEF OtherSymbols, Symbol
<1>2. ASSUME c # NoFileYet, NEW i \in DOMAIN c
      PROVE  [label |-> c[i].label, body |-> c[i].body,
              nth |-> Cardinality({j \in 1..i : c[j].label = c[i].label})] \in Symbol
  <2>1. c \in Seq(Block) /\ Len(c) <= MaxBlocks
    BY <1>2, SourceDef DEF Maybe
  <2>2. i \in 1..Len(c) /\ Len(c) \in Nat /\ c[i] \in Block
    BY <2>1, <1>2, LenProperties, ElementOfSeq
  <2> DEFINE A == {j \in 1..i : c[j].label = c[i].label}
  <2>3. IsFiniteSet(1..i) /\ Cardinality(1..i) = i
    BY <2>2, FS_Interval
  <2>4. A \in SUBSET (1..i)
    OBVIOUS
  <2>5. Cardinality(A) \in Nat /\ Cardinality(A) <= i
    BY <2>3, <2>4, FS_Subset, FS_CardinalityType
  <2>6. Cardinality(A) \in 0..MaxBlocks
    BY <2>1, <2>2, <2>5, EditingAssumption
  <2> QED BY <2>2, <2>6 DEF Symbol, Block
<1> QED BY <1>1, <1>2 DEF SymbolsOf

LEMMA NothingIsEverywhere == \A c : SymbolsOf(NoFileYet) \subseteq SymbolsOf(c)
  BY DEF SymbolsOf

LEMMA QuietTyped == EditorSound(Quiet0) /\ Quiet0.at = "idle"
<1>1. (CHOOSE l \in Labels : TRUE) \in Labels
  BY EditingAssumption
<1> QED BY <1>1 DEF EditorSound, EditorCall, Quiet0, EditSteps, Roots, Maybe

\* The least of a set of numbers.
LEMMA LeastOf == ASSUME NEW S \in SUBSET Nat, S # {} PROVE \E i \in S : \A j \in S : i <= j
<1>1. PICK i \in S : \A j \in S : ~(<<j, i>> \in OpToRel(<, Nat))
  BY NatLessThanWellFounded, WFMin
<1>2. \A j \in S : ~(j < i)
  BY <1>1 DEF OpToRel
<1> QED BY <1>2

LEMMA TargetTyped ==
  ASSUME NEW e, editor[e].view \in Sources PROVE Target(e) = 0 \/ Target(e) \in Nat \ {0}
<1>1. Named(e) \in SUBSET (Nat \ {0})
  BY SourceDef, LenProperties DEF Named
<1>2. Named(e) # {} => (CHOOSE i \in Named(e) : \A j \in Named(e) : i <= j) \in Named(e)
  BY <1>1, LeastOf
<1> QED BY <1>1, <1>2 DEF Target

LEMMA RewrittenTyped ==
  ASSUME NEW e, NEW b \in Bodies, EditorSound(editor[e]), editor[e].at = "write", editor[e].kind \in Cutting,
         ~Refuses(e), Len(Rewritten(e, b)) <= MaxBlocks
  PROVE  Rewritten(e, b) \in Sources
<1> DEFINE s == editor[e].src
           i == Target(e)
<1>1. s \in Seq(Block) /\ Len(s) \in Nat /\ DOMAIN s = 1..Len(s) /\ s \in Sources /\ editor[e].view \in Sources
  BY SourceDef, LenProperties DEF EditorSound
<1>2. i = 0 \/ i \in Nat \ {0}
  BY <1>1, TargetTyped
<1>3. Text(e, b) \in Block
  BY DEF Text, Block, EditorSound, EditorCall
<1>4. editor[e].kind = "delete" => i # 0
  BY DEF Refuses
<1>5. Append(s, Text(e, b)) \in Seq(Block)
  BY <1>1, <1>3, AppendProperties
<1>6. [s EXCEPT ![i] = Text(e, b)] \in Sources
  <2>1. PICK k \in 0..MaxBlocks : s \in [1..k -> Block]
    BY <1>1 DEF Sources
  <2> HIDE DEF s, i
  <2>2. [s EXCEPT ![i] = Text(e, b)] \in [1..k -> Block]
    BY <1>3, <2>1
  <2> QED BY <2>2 DEF Sources
<1>7. editor[e].kind = "delete" /\ i <= Len(s) => RemoveAt(s, i) \in Seq(Block)
  <2> SUFFICES ASSUME i \in 1..Len(s) PROVE RemoveAt(s, i) \in Seq(Block)
    BY <1>1, <1>2, <1>4
  <2> HIDE DEF s, i
  <2>1. SubSeq(s, 1, i - 1) \in Seq(Block)
    BY <1>1, SubSeqProperties
  <2>2. SubSeq(s, i + 1, Len(s)) \in Seq(Block)
    BY <1>1, SubSeqProperties
  <2> QED BY <2>1, <2>2, ConcatProperties DEF RemoveAt
<1>8. Rewritten(e, b) \in Seq(Block)
  BY <1>1, <1>2, <1>4, <1>5, <1>6, <1>7, SourceDef DEF Rewritten
<1> QED BY <1>8, SourceDef
-----------------------------------------------------------------------------
LEMMA EditingStarts == EditInit => EditingInv
<1> SUFFICES ASSUME EditInit PROVE EditingInv OBVIOUS
<1> USE DEF EditInit
<1>1. PICK c \in FirstFiles : file_at = [real |-> c, shadow |-> NoFileYet]
  OBVIOUS
<1>2. file_at \in [Roots -> Maybe]
  BY <1>1, EditingAssumption DEF Roots, Maybe
<1>3. held \in [Editors -> (SUBSET Symbol) \cup {NoneHeld}] /\ saw \in [Editors -> Maybe]
  BY DEF Maybe
<1>4. DOMAIN editor = Editors /\ \A e \in Editors : EditorSound(editor[e])
  BY QuietTyped
<1>5. EditingTyped
  BY <1>2, <1>3, <1>4 DEF EditingTyped
<1> QED BY <1>5 DEF EditingInv, IndexSound, HashesTrue, IndexFollows, BaseHashGuards

\* A caller's step from or to its drop of the index, or neither.
LEMMA StepIs ==
  ASSUME EditingTyped, NEW e \in Editors, NEW r, EditorSound(r), editor' = [editor EXCEPT ![e] = r]
  PROVE  /\ DOMAIN editor' = Editors /\ \A d \in Editors : EditorSound(editor'[d])
         /\ editor'[e] = r /\ \A d \in Editors \ {e} : editor'[d] = editor[d]
         /\ editor[e].at # "wipe" /\ r.at # "wipe" => (Underway' <=> Underway)
         /\ r.at = "wipe" => Underway'
<1>1. /\ DOMAIN editor' = Editors /\ editor'[e] = r
      /\ \A d \in Editors \ {e} : editor'[d] = editor[d]
  BY DEF EditingTyped
<1> QED BY ONLY <1>1, EditingTyped, e \in Editors, EditorSound(r) DEF EditingTyped, Underway

\* A step of a caller that leaves files and index alone.
LEMMA EditorMoves ==
  ASSUME EditingInv, NEW e \in Editors, NEW r, EditorSound(r), editor' = [editor EXCEPT ![e] = r],
         editor[e].at # "wipe", r.at # "wipe", UNCHANGED <<files, held, saw, excused, misled, stale>>
  PROVE  EditingInv'
<1>1. /\ DOMAIN editor' = Editors /\ \A d \in Editors : EditorSound(editor'[d])
      /\ Underway' <=> Underway
  BY StepIs DEF EditingInv
<1>2. UNCHANGED <<file_at, open, indexed, row, reading, held, saw, excused, misled, stale>>
  BY DEF files
<1> QED BY ONLY <1>1, <1>2, EditingInv DEF EditingInv, EditingTyped, IndexSound, HashesTrue, IndexFollows, BaseHashGuards

LEMMA TakeBaseKeeps == ASSUME EditingInv, NEW e \in Editors, TakeBase(e) PROVE EditingInv'
<1>1. /\ held' = [held EXCEPT ![e] = indexed] /\ saw' = [saw EXCEPT ![e] = file_at["real"]]
      /\ excused' = IF indexed = {} \/ Underway \/ stale \/ row # file_at["real"] THEN excused \cup {e} ELSE excused \ {e}
      /\ UNCHANGED <<file_at, open, indexed, row, reading, editor, misled, stale>>
  BY DEF TakeBase, files
<1>2. EditingTyped /\ IndexSound /\ HashesTrue /\ IndexFollows /\ BaseHashGuards
  BY DEF EditingInv
<1>3. /\ held' \in [Editors -> (SUBSET Symbol) \cup {NoneHeld}] /\ saw' \in [Editors -> Maybe]
      /\ held'[e] = indexed /\ saw'[e] = file_at["real"]
      /\ \A d \in Editors \ {e} : held'[d] = held[d] /\ saw'[d] = saw[d]
  BY <1>1, <1>2 DEF EditingTyped, Roots
<1>4. Underway' <=> Underway
  BY <1>1 DEF Underway
<1>5. e \notin excused' => indexed = SymbolsOf(file_at["real"])
  BY <1>1, <1>2 DEF IndexSound, IndexFollows
<1>6. HashesTrue'
  BY <1>1, <1>2, <1>3, <1>5 DEF HashesTrue
<1>7. IndexSound'
  BY <1>1, <1>2, <1>4 DEF IndexSound
<1> QED BY <1>1, <1>2, <1>3, <1>4, <1>6, <1>7 DEF EditingInv, EditingTyped, IndexFollows, BaseHashGuards

LEMMA IndexReadsKeeps == ASSUME EditingInv, IndexReads PROVE EditingInv'
<1>1. reading' = file_at["real"] /\ UNCHANGED <<file_at, open, indexed, row, editor, held, saw, excused, misled, stale>>
  BY DEF IndexReads
<1>2. reading' \in Maybe
  BY <1>1 DEF EditingInv, EditingTyped, Roots
<1> QED BY ONLY <1>1, <1>2, EditingInv
        DEF EditingInv, EditingTyped, IndexSound, HashesTrue, IndexFollows, BaseHashGuards, Underway

LEMMA IndexCommitsKeeps == ASSUME EditingInv, IndexCommits PROVE EditingInv'
<1> DEFINE new == SymbolsOf(reading)
<1>1. /\ reading # NoneHeld /\ reading' = NoneHeld /\ row' = reading
      /\ excused' = IF reading = file_at["real"] THEN excused ELSE Editors
      /\ stale' = (stale \/ reading # file_at["real"])
      /\ UNCHANGED <<file_at, open, editor, held, saw, misled>>
  BY DEF IndexCommits
<1>2. indexed' = new \cup {s \in indexed : ~\E t \in new : t.label = s.label /\ t.nth = s.nth}
  BY DEF IndexCommits
<1>3. EditingTyped /\ IndexSound /\ HashesTrue /\ IndexFollows /\ BaseHashGuards
  BY DEF EditingInv
<1>4. reading \in Maybe /\ new \subseteq Symbol
  BY <1>1, <1>3, SymbolsTyped DEF EditingTyped
<1>5. new \subseteq indexed' /\ indexed' \subseteq new \cup indexed
  BY <1>2
<1> HIDE DEF new
<1>6. EditingTyped'
  BY <1>1, <1>3, <1>4, <1>5 DEF EditingTyped
<1>7. IndexSound'
  BY <1>1, <1>3, <1>5 DEF IndexSound, Underway, new
<1>8. IndexFollows'
  BY <1>1, <1>3, <1>5 DEF IndexFollows, Underway, new
<1>9. HashesTrue'
  BY <1>1, <1>3 DEF HashesTrue
<1> QED BY <1>1, <1>3, <1>6, <1>7, <1>8, <1>9 DEF EditingInv, BaseHashGuards

LEMMA BeginEditKeeps ==
  ASSUME EditingInv, NEW e \in Editors, NEW k \in Kinds, NEW l \in Labels, NEW n \in 0..1, BeginEdit(e, k, l, n)
  PROVE  EditingInv'
<1> DEFINE r == [Quiet0 EXCEPT !.at = "read", !.kind = k, !.label = l, !.line = n,
                               !.root = IF open THEN "shadow" ELSE "real"]
<1>1. /\ editor[e].at = "idle" /\ k \in Cutting /\ BasePasses(e)
      /\ held' = [held EXCEPT ![e] = NoneHeld] /\ saw' = [saw EXCEPT ![e] = NoFileYet]
      /\ editor' = [editor EXCEPT ![e] = r]
      /\ UNCHANGED <<file_at, open, indexed, row, reading, excused, stale>>
  BY DEF BeginEdit, Does, Step, Cutting, files
<1>2. EditingTyped /\ IndexSound /\ HashesTrue /\ IndexFollows /\ BaseHashGuards
  BY DEF EditingInv
<1>3. EditorSound(r) /\ r.at = "read"
  BY <1>1, QuietTyped DEF EditorSound, EditorCall, EditSteps, Roots
<1> HIDE DEF r
<1>4. /\ DOMAIN editor' = Editors /\ \A d \in Editors : EditorSound(editor'[d])
      /\ Underway' <=> Underway
  BY <1>1, <1>2, <1>3, StepIs
<1>5. /\ held' \in [Editors -> (SUBSET Symbol) \cup {NoneHeld}] /\ saw' \in [Editors -> Maybe]
      /\ held'[e] = NoneHeld /\ \A d \in Editors \ {e} : held'[d] = held[d] /\ saw'[d] = saw[d]
  <2>1. held \in [Editors -> (SUBSET Symbol) \cup {NoneHeld}] /\ saw \in [Editors -> Maybe] /\ NoFileYet \in Maybe
    BY <1>2 DEF EditingTyped, Maybe
  <2>2. held' = [held EXCEPT ![e] = NoneHeld] /\ saw' = [saw EXCEPT ![e] = NoFileYet]
    BY <1>1
  <2> QED BY ONLY <2>1, <2>2, e \in Editors
<1>6. misled' = {}
  <2> SUFFICES ASSUME held[e] # NoneHeld, ~Underway, e \notin excused
               PROVE  SymbolsOf(saw[e]) = SymbolsOf(file_at["real"])
    BY <1>2 DEF BeginEdit, BaseHashGuards
  <2>1. indexed = SymbolsOf(saw[e])
    BY <1>1, <1>2 DEF BasePasses, HashesTrue
  <2>2. indexed # {}
    BY <2>1 DEF SymbolsOf
  <2>3. row = file_at["real"] /\ ~stale
    BY <1>2, <2>2 DEF IndexSound
  <2> QED BY <1>2, <2>1, <2>2, <2>3 DEF IndexSound, IndexFollows
<1>7. HashesTrue'
  BY <1>1, <1>2, <1>5 DEF HashesTrue
<1>8. IndexSound' /\ IndexFollows'
  BY <1>1, <1>2, <1>4 DEF IndexSound, IndexFollows
<1>9. EditingTyped'
  BY <1>1, <1>2, <1>4, <1>5 DEF EditingTyped
<1> QED BY <1>6, <1>7, <1>8, <1>9 DEF EditingInv, BaseHashGuards

LEMMA BeginOtherKeeps ==
  ASSUME EditingInv, NEW e \in Editors, NEW k \in Kinds, NEW l \in Labels, BeginOther(e, k, l)
  PROVE  EditingInv'
<1> DEFINE r == [Quiet0 EXCEPT !.at = IF k = "mutate" THEN "read" ELSE "write", !.kind = k, !.label = l,
                               !.root = IF open THEN "shadow" ELSE "real"]
<1>1. /\ editor[e].at = "idle" /\ k \in {"mutate", "write", "create", "remove"}
      /\ editor' = [editor EXCEPT ![e] = r] /\ UNCHANGED <<files, held, saw, excused, misled, stale>>
  BY DEF BeginOther, Does, Step
<1>2. r \in EditorCall /\ r.kind = k /\ r.at = IF k = "mutate" THEN "read" ELSE "write"
  BY QuietTyped DEF EditorSound, EditorCall, EditSteps, Roots
<1> HIDE DEF r
<1>3. EditorSound(r)
  BY <1>1, <1>2 DEF EditorSound, Cutting
<1> QED BY <1>1, <1>2, <1>3, EditorMoves

LEMMA AnswersKeep ==
  ASSUME EditingInv, NEW e \in Editors, Answers(e), editor[e].at # "wipe", UNCHANGED <<files, notes>>
  PROVE  EditingInv'
  BY QuietTyped, EditorMoves DEF Answers, Step, notes

\* Where a call reads.
LEMMA HereTyped == ASSUME EditingTyped, NEW e \in Editors PROVE Here(e) \in Maybe
<1>1. editor[e].root \in Roots /\ "real" \in Roots
  BY DEF EditingTyped, EditorSound, EditorCall, Roots
<1> QED BY <1>1 DEF EditingTyped, Here

LEMMA ReadSourceKeeps == ASSUME EditingInv, NEW e \in Editors, ReadSource(e) PROVE EditingInv'
<1> DEFINE old == editor[e]
           r == [old EXCEPT !.at = "parse", !.src = Here(e)]
<1>1. /\ EditingTyped /\ EditorSound(old) /\ old \in EditorCall /\ old.at = "read" /\ old.kind \in Cutting
      /\ Here(e) \in Sources
  BY HereTyped DEF EditingInv, EditingTyped, EditorSound, ReadSource, Does, Gone, Maybe
<1>2. editor' = [editor EXCEPT ![e].at = "parse", ![e].src = Here(e)] /\ UNCHANGED <<files, notes>>
  BY DEF ReadSource
<1>3. editor' = [editor EXCEPT ![e] = r]
  BY <1>1, <1>2 DEF EditingTyped, EditorCall
<1>4. r \in EditorCall /\ r.at = "parse" /\ r.kind = old.kind /\ r.src = Here(e)
  BY <1>1 DEF EditorCall, EditSteps, Maybe
<1> HIDE DEF r
<1>5. EditorSound(r)
  BY <1>1, <1>4 DEF EditorSound
<1> QED BY <1>1, <1>2, <1>3, <1>4, <1>5, EditorMoves DEF notes

LEMMA ParseSourceKeeps == ASSUME EditingInv, NEW e \in Editors, ParseSource(e) PROVE EditingInv'
<1> DEFINE old == editor[e]
           r == [old EXCEPT !.at = "write", !.view = Here(e)]
<1>1. /\ EditingTyped /\ EditorSound(old) /\ old \in EditorCall /\ old.at = "parse" /\ old.src \in Sources
      /\ Here(e) \in Maybe
  BY HereTyped DEF EditingInv, EditingTyped, EditorSound, ParseSource, Does
<1>2. UNCHANGED <<files, notes>>
  BY DEF ParseSource
<1>3. CASE Here(e) = NoFileYet
  BY <1>1, <1>2, <1>3, AnswersKeep DEF ParseSource
<1>4. CASE Here(e) # NoFileYet
  <2>1. editor' = [editor EXCEPT ![e].at = "write", ![e].view = Here(e)]
    BY <1>4 DEF ParseSource
  <2>2. editor' = [editor EXCEPT ![e] = r]
    BY <1>1, <2>1 DEF EditingTyped, EditorCall
  <2>3. r \in EditorCall /\ r.at = "write" /\ r.kind = old.kind /\ r.src = old.src /\ r.view = Here(e)
    BY <1>1 DEF EditorCall, EditSteps
  <2> HIDE DEF r
  <2>4. EditorSound(r)
    BY <1>1, <1>4, <2>3 DEF EditorSound, Maybe
  <2> QED BY <1>1, <1>2, <2>2, <2>3, <2>4, EditorMoves DEF notes
<1> QED BY <1>3, <1>4

LEMMA CreateFileKeeps ==
  ASSUME EditingInv, NEW e \in Editors, NEW b \in Bodies, CreateFile(e, b) PROVE EditingInv'
<1> DEFINE old == editor[e]
<1>1. /\ EditingTyped /\ IndexSound /\ IndexFollows /\ BaseHashGuards
      /\ EditorSound(old) /\ old.at = "read" /\ old.root \in Roots /\ old.label \in Labels
  BY DEF EditingInv, EditingTyped, EditorSound, EditorCall, CreateFile, Does
<1>2. /\ Gone(e) /\ ~Mutates(e) /\ excused' = Editors /\ editor' = [editor EXCEPT ![e] = Quiet0]
      /\ file_at' = [file_at EXCEPT ![old.root] = <<Text(e, b)>>]
      /\ UNCHANGED <<open, indexed, row, reading, held, saw, misled, stale>>
  BY DEF CreateFile, Answers, Step, Mutates
<1>3. file_at[old.root] = NoFileYet
  BY <1>2 DEF Gone, Here
<1>4. <<Text(e, b)>> \in Maybe
  BY <1>1, OneBlock DEF Text, Block, Maybe
<1>5. file_at' \in [Roots -> Maybe] /\ (old.root # "real" => file_at'["real"] = file_at["real"])
  BY <1>1, <1>2, <1>4 DEF EditingTyped, Roots
<1>6. /\ DOMAIN editor' = Editors /\ \A d \in Editors : EditorSound(editor'[d])
      /\ Underway' <=> Underway
  BY <1>1, <1>2, QuietTyped, StepIs
<1>7. SymbolsOf(file_at["real"]) \subseteq SymbolsOf(file_at'["real"])
  BY <1>3, <1>5, NothingIsEverywhere
<1>8. EditingTyped'
  BY <1>1, <1>2, <1>5, <1>6 DEF EditingTyped
<1>9. IndexFollows'
  BY <1>1, <1>2, <1>6, <1>7 DEF IndexFollows
<1> QED BY <1>1, <1>2, <1>8, <1>9 DEF EditingInv, IndexSound, HashesTrue, BaseHashGuards

LEMMA PutsKeeps ==
  ASSUME EditingInv, NEW e \in Editors, NEW c \in Maybe, editor[e].at = "write", Puts(e, c)
  PROVE  EditingInv'
<1> DEFINE old == editor[e]
           r == [old EXCEPT !.at = "wipe"]
<1>1. EditingTyped /\ EditorSound(old) /\ old \in EditorCall /\ old.root \in Roots
  BY DEF EditingInv, EditingTyped, EditorSound, EditorCall
<1>2. UNCHANGED <<open, indexed, row, reading, held, saw, excused, misled, stale>>
  BY DEF Puts, notes
<1>3. CASE old.root = "shadow" /\ ~open
  <2>1. Answers(e) /\ UNCHANGED <<files, notes>>
    BY <1>3 DEF Puts, files
  <2> QED BY <2>1, AnswersKeep
<1>4. CASE ~(old.root = "shadow" /\ ~open)
  <2>1. file_at' = [file_at EXCEPT ![old.root] = c] /\ editor' = [editor EXCEPT ![e].at = "wipe"]
    BY <1>4 DEF Puts
  <2>2. editor' = [editor EXCEPT ![e] = r]
    BY <1>1, <2>1 DEF EditingTyped, EditorCall
  <2>3. r \in EditorCall /\ r.at = "wipe"
    BY <1>1 DEF EditorCall, EditSteps
  <2> HIDE DEF r
  <2>4. EditorSound(r)
    BY <2>3 DEF EditorSound
  <2>5. DOMAIN editor' = Editors /\ (\A d \in Editors : EditorSound(editor'[d])) /\ Underway'
    BY <1>1, <2>2, <2>3, <2>4, StepIs
  <2>6. file_at' \in [Roots -> Maybe]
    BY <1>1, <2>1 DEF EditingTyped
  <2> QED BY ONLY <1>2, <2>5, <2>6, EditingInv
          DEF EditingInv, EditingTyped, IndexSound, HashesTrue, IndexFollows, BaseHashGuards
<1> QED BY <1>3, <1>4

LEMMA WriteBackKeeps ==
  ASSUME EditingInv, NEW e \in Editors, NEW b \in Bodies, WriteBack(e, b) PROVE EditingInv'
<1>1. /\ EditorSound(editor[e]) /\ editor[e].at = "write" /\ editor[e].kind \in Cutting /\ ~Refuses(e)
      /\ Len(Rewritten(e, b)) <= MaxBlocks /\ Puts(e, Rewritten(e, b))
  BY DEF EditingInv, EditingTyped, WriteBack, Does, Cutting
<1>2. Rewritten(e, b) \in Maybe
  BY <1>1, RewrittenTyped DEF Maybe
<1> QED BY <1>1, <1>2, PutsKeeps

LEMMA ManageFileKeeps ==
  ASSUME EditingInv, NEW e \in Editors, NEW b \in Bodies, ManageFile(e, b) PROVE EditingInv'
<1>1. editor[e].at = "write" /\ editor[e].label \in Labels
  BY DEF EditingInv, EditingTyped, EditorSound, EditorCall, ManageFile, Does
<1>2. <<Text(e, b)>> \in Maybe /\ <<>> \in Maybe /\ NoFileYet \in Maybe
  BY <1>1, OneBlock DEF Text, Block, Maybe
<1>3. \/ Puts(e, <<Text(e, b)>>) \/ Puts(e, <<>>) \/ Puts(e, NoFileYet)
      \/ Answers(e) /\ UNCHANGED <<files, notes>>
  BY DEF ManageFile
<1> QED BY <1>1, <1>2, <1>3, PutsKeeps, AnswersKeep

LEMMA InvalidateIndexKeeps == ASSUME EditingInv, NEW e \in Editors, InvalidateIndex(e) PROVE EditingInv'
<1>1. /\ editor' = [editor EXCEPT ![e] = Quiet0] /\ indexed' = {} /\ row' = NoneHeld /\ stale' = FALSE
      /\ UNCHANGED <<file_at, open, reading, held, saw, excused, misled>>
  BY DEF InvalidateIndex, Wiped, Answers, Step
<1>2. DOMAIN editor' = Editors /\ (\A d \in Editors : EditorSound(editor'[d]))
  BY <1>1, QuietTyped, StepIs DEF EditingInv
<1> QED BY ONLY <1>1, <1>2, EditingInv
        DEF EditingInv, EditingTyped, IndexSound, HashesTrue, IndexFollows, BaseHashGuards

\* A write outside the tools is of a file that the index has, and then no hash counts
\* up to the next drop, or of one that it has not.
LEMMA WriteOutsideKeeps ==
  ASSUME EditingInv, NEW l \in Labels, NEW b \in Bodies, NEW c \in {NoFileYet, <<[label |-> l, body |-> b]>>},
         WriteOutside(c)
  PROVE  EditingInv'
<1>1. c \in Maybe
  BY OneBlock DEF Block, Maybe
<1>2. /\ file_at' = [file_at EXCEPT !["real"] = c]
      /\ IF row = NoneHeld THEN UNCHANGED <<excused, stale>> ELSE excused' = Editors /\ stale' = TRUE
      /\ UNCHANGED <<open, indexed, row, reading, editor, held, saw, misled>>
  BY DEF WriteOutside
<1>3. EditingTyped /\ IndexSound /\ HashesTrue /\ IndexFollows /\ BaseHashGuards
  BY DEF EditingInv
<1>4. file_at' \in [Roots -> Maybe]
  BY <1>1, <1>2, <1>3 DEF EditingTyped
<1>5. EditingTyped'
  BY <1>2, <1>3, <1>4 DEF EditingTyped
<1>6. IndexSound' /\ IndexFollows'
  BY <1>2, <1>3 DEF IndexSound, IndexFollows, Underway
<1>7. HashesTrue'
  BY <1>2, <1>3 DEF HashesTrue
<1> QED BY <1>2, <1>3, <1>5, <1>6, <1>7 DEF EditingInv, BaseHashGuards

\* The transaction leaves the workspace's file as it is, or drops the index.
LEMMA TransactionKeeps == ASSUME EditingInv, BeginTx \/ CommitTx \/ RollbackTx PROVE EditingInv'
<1>1. UNCHANGED <<reading, editor, held, saw, excused, misled>>
  BY DEF BeginTx, CommitTx, RollbackTx, notes
<1>2. file_at \in [Roots -> Maybe] /\ "real" \in Roots /\ "shadow" \in Roots /\ NoFileYet \in Maybe
  BY DEF EditingInv, EditingTyped, Roots, Maybe
<1>3. file_at' \in [Roots -> Maybe] /\ open' \in BOOLEAN
  <2>1. CASE CommitTx
    <3>1. file_at' = [real |-> file_at["shadow"], shadow |-> NoFileYet] /\ open' = FALSE
      BY <2>1 DEF CommitTx
    <3>2. file_at["shadow"] \in Maybe /\ NoFileYet \in Maybe
      BY <1>2
    <3>3. file_at' \in [Roots -> Maybe]
      BY ONLY <3>1, <3>2 DEF Roots
    <3> QED BY <1>2, <3>1, <3>3
  <2>2. CASE BeginTx
    BY <1>2, <2>2 DEF BeginTx
  <2>3. CASE RollbackTx
    BY <1>2, <2>3 DEF RollbackTx
  <2> QED BY <2>1, <2>2, <2>3
<1>4. \/ file_at'["real"] = file_at["real"] /\ UNCHANGED <<indexed, row, stale>>
      \/ indexed' = {} /\ row' = NoneHeld /\ stale' = FALSE
  BY <1>2 DEF BeginTx, CommitTx, RollbackTx, Wiped, notes
<1>5. Underway' <=> Underway
  BY <1>1 DEF Underway
<1> QED BY ONLY <1>1, <1>3, <1>4, <1>5, EditingInv
        DEF EditingInv, EditingTyped, IndexSound, HashesTrue, IndexFollows, BaseHashGuards

LEMMA EditingSteps == ASSUME EditingInv, [EditNext]_editVars PROVE EditingInv'
<1>1. CASE UNCHANGED editVars
  BY <1>1 DEF editVars, EditingInv, EditingTyped, IndexSound, HashesTrue, IndexFollows, BaseHashGuards, Underway
<1>2. ASSUME NEW e \in Editors, NoSuchFile(e) \/ EditRefusal(e) PROVE EditingInv'
  BY <1>2, AnswersKeep DEF NoSuchFile, EditRefusal, Does
<1> QED BY <1>1, <1>2, TakeBaseKeeps, ReadSourceKeeps, ParseSourceKeeps, InvalidateIndexKeeps, BeginOtherKeeps,
         BeginEditKeeps, CreateFileKeeps, WriteBackKeeps, ManageFileKeeps, IndexReadsKeeps, IndexCommitsKeeps,
         TransactionKeeps, WriteOutsideKeeps DEF EditNext

\* Edits by symbol (edit.rs, file.rs, mutation.rs): however callers, transactions and index
\* runs cross, a base hash that passes tells the symbols as they are, and the index holds no
\* symbol of before a change of the tools; a write outside them to a file that the index has
\* is not noticed, and up to the next drop neither is promised, nor are they in the other
\* cases that the two properties name.
THEOREM EditsSafe == EditSpec => []EditsKeep
<1>1. EditingInv => EditsKeep
  BY DEF EditingInv, EditingTyped, EditorSound, EditorCall, EditsKeep, EditTypeOK
<1> QED BY <1>1, EditingStarts, EditingSteps, PTL DEF EditSpec
=============================================================================
