-------------------------- MODULE Workspace_proofs ---------------------------
(***************************************************************************)
(* Proofs about what the processes of a workspace share, for any number of *)
(* them.  Index: whatever searches, writes and drops of the index cross, a *)
(* row vouches only for symbols that are there, and searches and calls are *)
(* complete.  Refactoring: a rename that nobody crosses is whole, a move   *)
(* loses no symbol, whatever the others do.  Sessions: when calls do not   *)
(* overlap, one process writes at a time and HEAD loses no acknowledged    *)
(* work, whoever dies when.                                                *)
(***************************************************************************)
EXTENDS Sessions, Index, Refactoring, FiniteSetTheorems, SequenceTheorems, WellFoundedInduction, TLAPS

-----------------------------------------------------------------------------
(* The index                                                               *)

\* Of a file: its time, and what it held since.
TreeSound ==
  \A f \in Paths : /\ tree[f].sec \in 1..second /\ tree[f].text \in tree[f].past
\* A time and a content that were read in this order are of the file as it is, or of before
\* its last second.
ReadSound(f, m, t) == m.sec <= tree[f].sec /\ (m.sec = tree[f].sec => t \in tree[f].past)
\* What each search has read, and where the files that it may still answer for are: to be
\* read, being read, parsed, or on record.
JobSound(j) ==
  /\ \A f \in Paths : j.open[f] # NoPath => j.open[f].sec <= tree[f].sec
  /\ \A f \in Paths : /\ j.got[f].meta.sec <= tree[f].sec
                      /\ j.got[f].whole => ReadSound(f, j.got[f].meta, j.got[f].src)
  /\ \A f, g \in Paths : j.open[f] # NoPath /\ j.open[g] # NoPath => f = g
  /\ \A f \in Paths : /\ f \in j.left => j.open[f] = NoPath /\ j.got[f] = NoPath
                      /\ j.open[f] # NoPath => j.got[f] = NoPath
  /\ j.at # "parse" => j.left = {} /\ j.open = Empties /\ j.got = Empties
  /\ \A f \in j.still : /\ tree[f].text # NoText
                        /\ \/ f \in j.left
                           \/ j.open[f] # NoPath /\ j.open[f] = Meta(f)
                           \/ j.got[f] # NoPath /\ j.got[f].meta = Meta(f)
                           \/ Hit(f)
\* A whole row is of a content that its symbols have, and vouches for no more than the
\* file held; while the index is dropped there is none.
RowSound ==
  \A f \in Paths :
    /\ rows[f].meta.sec <= tree[f].sec
    /\ rows[f].whole => /\ dropping = 0 /\ ReadSound(f, rows[f].meta, rows[f].src)
                        /\ \A n \in Defs(rows[f].src) : symbols[<<f, n>>] = rows[f].src
    /\ rows[f].meta.sec = tree[f].sec => \A e \in calledges :
         e[1][1] = f => \E t \in tree[f].past : e[2][2] \in CallsIn(t)
CallsThere ==
  \A g \in Paths : Current(g) => \A n \in tree[g].text.defs, m \in tree[g].text.calls :
    (\A k \in Paths : symbols[<<k, m>>] # NoText => <<k, g>> \notin later)
      => \A id \in Targets(symbols, g, m) \ {<<g, n>>} : <<<<g, n>>, id>> \in calledges
IndexInv ==
  /\ IndexTypeOK /\ TreeSound /\ RowSound /\ EdgesJoinSymbols /\ CallsThere
  /\ \A s \in Searchers : JobSound(search[s])
-----------------------------------------------------------------------------
\* What the types say of a file, a row and a job.
LEMMA IndexTyped ==
  ASSUME IndexTypeOK
  PROVE  /\ second \in Nat /\ second \in 1..MaxSecond /\ MaxSecond \in Nat
         /\ \A f \in Paths : /\ tree[f] \in [text: Texts \cup {NoText}, sec: 1..MaxSecond,
                                             past: SUBSET (Texts \cup {NoText})]
                             /\ tree[f].text \in Texts \cup {NoText} /\ tree[f].sec \in 1..MaxSecond
                             /\ tree[f].sec \in Nat /\ tree[f].past \in SUBSET (Texts \cup {NoText})
                             /\ Meta(f) \in FileMetas
                             /\ tree[f].text # NoText => Meta(f).sec = tree[f].sec
                             /\ tree[f].text = NoText => Meta(f).sec = 0
<1>1. MaxSecond \in Nat
  BY IndexAssumption
<1>2. second \in 1..MaxSecond
  BY DEF IndexTypeOK
<1>3. ASSUME NEW f \in Paths
      PROVE  /\ tree[f] \in [text: Texts \cup {NoText}, sec: 1..MaxSecond, past: SUBSET (Texts \cup {NoText})]
             /\ tree[f].text \in Texts \cup {NoText} /\ tree[f].sec \in 1..MaxSecond
             /\ tree[f].past \in SUBSET (Texts \cup {NoText})
  BY DEF IndexTypeOK
<1>4. ASSUME NEW f \in Paths
      PROVE  /\ Meta(f) \in FileMetas
             /\ tree[f].text # NoText => Meta(f).sec = tree[f].sec
             /\ tree[f].text = NoText => Meta(f).sec = 0
  <2>1. CASE tree[f].text = NoText
    BY <2>1 DEF Meta, FileMetas
  <2>2. CASE tree[f].text # NoText
    BY <1>1, <1>3, <2>2 DEF Meta, FileMetas
  <2> QED BY <2>1, <2>2
<1> QED BY <1>1, <1>2, <1>3, <1>4

LEMMA EmptyRows ==
  /\ Empties \in [Paths -> Entry \cup {NoPath}] /\ Empties \in [Paths -> FileMetas \cup {NoPath}]
  /\ \A f \in Paths : Empties[f] = NoPath
  /\ ~NoPath.whole /\ NoPath.meta.sec = 0 /\ NoPath.src = NoText
  BY DEF Empties, NoPath

LEMMA AtRestTyped == AtRest \in Job
  BY EmptyRows DEF AtRest, Job, Steps

LEMMA AtRestSound ==
  ASSUME \A f \in Paths : tree[f].sec \in Nat, NEW a \in Steps, NEW q
  PROVE  JobSound([AtRest EXCEPT !.at = a, !.query = q]) /\ JobSound(AtRest)
<1>1. ASSUME NEW j, j.left = {}, j.open = Empties, j.got = Empties, j.still = {} PROVE JobSound(j)
  BY <1>1, EmptyRows DEF JobSound
<1> QED BY <1>1 DEF AtRest

\* A row is an entry or none.
LEMMA MetaIsSome == \A m \in FileMetas : m # NoPath /\ m.sec \in Nat
<1> SUFFICES ASSUME NEW m \in FileMetas PROVE m # NoPath /\ m.sec \in Nat
  OBVIOUS
<1>1. MaxSecond \in Nat
  BY IndexAssumption
<1>2. DOMAIN m = {"sec", "size"} /\ m.sec \in Nat
  BY <1>1 DEF FileMetas
<1>3. "whole" \in DOMAIN NoPath
  BY DEF NoPath
<1> QED BY <1>2, <1>3

\* No entry is none: its time and size are of a file, or zeros.
LEMMA EntryIsSome == \A r \in Entry : r # NoPath /\ r.meta \in FileMetas
<1> SUFFICES ASSUME NEW r \in Entry PROVE r # NoPath /\ r.meta \in FileMetas
  OBVIOUS
<1>1. r.meta \in FileMetas
  BY DEF Entry
<1>2. NoPath.meta = [sec |-> 0, size |-> 1]
  BY DEF NoPath
<1>3. [sec |-> 0, size |-> 1] \notin FileMetas
  <2>1. ASSUME NEW m \in [sec: 1..MaxSecond, size: {t.size : t \in Texts}] PROVE m.sec # 0
    BY IndexAssumption
  <2> QED BY <2>1 DEF FileMetas
<1> QED BY <1>1, <1>2, <1>3

LEMMA EntryFields ==
  ASSUME NEW r \in Entry \cup {NoPath}
  PROVE  /\ r.whole \in BOOLEAN /\ r.src \in Texts \cup {NoText} /\ r.meta.sec \in Nat
         /\ r # NoPath => r \in Entry /\ r.meta \in FileMetas
         /\ r.whole => r \in Entry
<1>1. MaxSecond \in Nat
  BY IndexAssumption
<1>2. CASE r = NoPath
  BY <1>2 DEF NoPath
<1>3. CASE r \in Entry
  <2>1. r.meta \in FileMetas /\ r.whole \in BOOLEAN /\ r.src \in Texts \cup {NoText}
    BY <1>3 DEF Entry
  <2>2. r.meta.sec \in Nat
    BY <1>1, <2>1 DEF FileMetas
  <2> QED BY <1>3, <2>1, <2>2
<1> QED BY <1>2, <1>3

LEMMA IndexStarts == IndexInit => IndexInv
<1> SUFFICES ASSUME IndexInit PROVE IndexInv OBVIOUS
<1> USE DEF IndexInit
<1>1. \A f \in Paths : \E t \in Texts : tree[f] = [text |-> t, sec |-> 1, past |-> {t}]
  OBVIOUS
<1>2. 1 \in 1..MaxSecond /\ MaxSecond \in Nat
  BY IndexAssumption
<1>3. tree \in [Paths -> [text: Texts \cup {NoText}, sec: 1..MaxSecond, past: SUBSET (Texts \cup {NoText})]]
  BY <1>1, <1>2
<1>4. search \in [Searchers -> Job] /\ \A s \in Searchers : search[s] = AtRest
  BY AtRestTyped
<1>5. symbols \in [SymbolIds -> Texts \cup {NoText}] /\ rows = Empties /\ calledges = {}
  OBVIOUS
<1>6. IndexTypeOK
  BY <1>2, <1>3, <1>4, <1>5, EmptyRows DEF IndexTypeOK
<1>7. TreeSound
  BY <1>1 DEF TreeSound
<1>10. \A f \in Paths : tree[f].sec \in Nat
  BY <1>1
<1>8. RowSound
  BY <1>5, EmptyRows DEF RowSound
<1>9. \A f \in Paths : ~Current(f)
  BY <1>5, EmptyRows DEF Current, Hit
<1>11. JobSound(AtRest)
  BY <1>10, AtRestSound DEF Steps
<1>12. \A s \in Searchers : JobSound(search[s])
  BY <1>4, <1>11
<1> QED BY <1>5, <1>6, <1>7, <1>8, <1>9, <1>12 DEF IndexInv, EdgesJoinSymbols, CallsThere
-----------------------------------------------------------------------------
\* A row that matches a file which has settled is of its content.
LEMMA CurrentIsTrue ==
  ASSUME IndexInv, NEW f \in Paths, Current(f)
  PROVE  rows[f].src = tree[f].text /\ \A n \in tree[f].text.defs : symbols[<<f, n>>] = tree[f].text
<1>1. rows[f].whole /\ rows[f].meta = Meta(f) /\ tree[f].text # NoText /\ tree[f].past = {tree[f].text}
  BY DEF Current, Hit, SettledFile
<1>2. rows[f].meta.sec = tree[f].sec
  BY <1>1, IndexTyped DEF IndexInv
<1>3. rows[f].src = tree[f].text
  BY <1>1, <1>2 DEF IndexInv, RowSound, ReadSound
<1> QED BY <1>1, <1>3 DEF IndexInv, RowSound, Defs

LEMMA IndexHolds == IndexInv => IndexKeeps
<1> SUFFICES ASSUME IndexInv PROVE IndexKeeps OBVIOUS
<1>1. RowsTrue
  BY CurrentIsTrue DEF RowsTrue
<1>2. AnswersFull
  <2> SUFFICES ASSUME NEW s \in Searchers, search[s].at = "answer", NEW f \in search[s].still, SettledFile(f),
                      search[s].query \in tree[f].text.defs, rows[f].whole
               PROVE  symbols[<<f, search[s].query>>] = tree[f].text
    BY DEF AnswersFull
  <2>1. f \in Paths /\ JobSound(search[s])
    BY DEF IndexInv, IndexTypeOK, Job
  <2>2. Hit(f)
    BY <2>1, EmptyRows DEF JobSound
  <2> QED BY <2>1, <2>2, CurrentIsTrue DEF Current
<1>3. CallsRecorded
  <2> SUFFICES ASSUME NEW g \in Paths, Current(g), NEW n \in tree[g].text.defs
               PROVE  \A e \in calledges : e[1] = <<g, n>> => e[2][2] \in tree[g].text.calls
    BY DEF CallsRecorded, IndexInv, CallsThere
  <2> SUFFICES ASSUME NEW e \in calledges, e[1] = <<g, n>> PROVE e[2][2] \in tree[g].text.calls
    OBVIOUS
  <2>1. rows[g].meta.sec = tree[g].sec /\ tree[g].past = {tree[g].text} /\ tree[g].text # NoText
    BY IndexTyped DEF IndexInv, Current, Hit, SettledFile
  <2>2. e[1][1] = g
    OBVIOUS
  <2>3. e[2][2] \in CallsIn(tree[g].text)
    BY <2>1, <2>2 DEF IndexInv, RowSound
  <2> QED BY <2>1, <2>3 DEF CallsIn
<1> QED BY <1>1, <1>2, <1>3 DEF IndexInv, IndexKeeps
-----------------------------------------------------------------------------
\* A step of a search that changes that search only.
Stays == UNCHANGED <<mode, tree, rows, symbols, calledges, dropping, second, later>>
LEMMA OnlySearch ==
  ASSUME IndexInv, NEW s \in Searchers, NEW j \in Job, JobSound(j), search' = [search EXCEPT ![s] = j], Stays
  PROVE  IndexInv'
<1>1. search' \in [Searchers -> Job] /\ \A r \in Searchers : search'[r] = IF r = s THEN j ELSE search[r]
  BY DEF IndexInv, IndexTypeOK
<1>2. UNCHANGED <<mode, tree, rows, symbols, calledges, dropping, second, later>>
  BY DEF Stays
<1>3. IndexTypeOK'
  BY <1>1, <1>2 DEF IndexInv, IndexTypeOK
<1>4. TreeSound' /\ EdgesJoinSymbols'
  BY <1>2 DEF IndexInv, TreeSound, EdgesJoinSymbols
<1>5. RowSound'
  BY <1>2 DEF IndexInv, RowSound, ReadSound
<1>6. CallsThere'
  BY <1>2 DEF IndexInv, CallsThere, Current, SettledFile, Hit, Meta, Targets
<1>7. \A r \in Searchers : JobSound(search'[r])
  BY <1>1 DEF IndexInv
<1>8. ASSUME NEW r \in Searchers PROVE JobSound(search[r])'
  BY <1>2, <1>7 DEF JobSound, ReadSound, Hit, Meta
<1> QED BY <1>3, <1>4, <1>5, <1>6, <1>8 DEF IndexInv

\* What is known of a search.
LEMMA JobFacts ==
  ASSUME IndexInv, NEW s \in Searchers
  PROVE  /\ search[s] \in Job /\ JobSound(search[s])
         /\ search[s].at \in Steps /\ search[s].query \in Names \cup {NoName} /\ search[s].left \in SUBSET Paths
         /\ search[s].open \in [Paths -> FileMetas \cup {NoPath}]
         /\ search[s].got \in [Paths -> Entry \cup {NoPath}] /\ search[s].still \in SUBSET Paths
<1>1. search[s] \in Job /\ JobSound(search[s])
  BY DEF IndexInv, IndexTypeOK
<1> QED BY <1>1 DEF Job

LEMMA BeginIndexSafe ==
  ASSUME IndexInv, NEW s \in Searchers, NEW q \in Names \cup {NoName}, BeginIndex(s, q)
  PROVE  IndexInv'
<1>1. Job0(q) \in Job
  BY EmptyRows DEF Job0, Job, Steps, ToParse
<1>2. JobSound(Job0(q))
  <2>1. ASSUME NEW f \in Job0(q).still
        PROVE  tree[f].text # NoText /\ (f \in Job0(q).left \/ Hit(f))
    BY DEF Job0, ToParse
  <2>2. Job0(q).at = "parse" /\ Job0(q).open = Empties /\ Job0(q).got = Empties
    BY DEF Job0
  <2>3. \A f \in Paths : tree[f].sec \in Nat
    BY IndexTyped DEF IndexInv
  <2> QED BY <2>1, <2>2, <2>3, EmptyRows DEF JobSound
<1>3. search' = [search EXCEPT ![s] = Job0(q)] /\ Stays
  BY DEF BeginIndex, Stays
<1> QED BY <1>1, <1>2, <1>3, OnlySearch

LEMMA ReadMetaSafe ==
  ASSUME IndexInv, NEW s \in Searchers, NEW f \in Paths, ReadMeta(s, f)
  PROVE  IndexInv'
<1> DEFINE j == search[s]
           k == [j EXCEPT !.open = [j.open EXCEPT ![f] = Meta(f)], !.left = @ \ {f}]
<1>1. search' = [search EXCEPT ![s] = k] /\ Stays
  BY JobFacts DEF ReadMeta, Stays, IndexInv, IndexTypeOK
<1>2. f \in j.left /\ j.open = Empties
  BY DEF ReadMeta
<1>3. Meta(f) \in FileMetas /\ Meta(f) # NoPath /\ Meta(f).sec <= tree[f].sec
  BY IndexTyped, MetaIsSome DEF IndexInv
<1>4. /\ k.at = j.at /\ k.query = j.query /\ k.got = j.got /\ k.still = j.still /\ k.left = j.left \ {f}
      /\ k.open \in [Paths -> FileMetas \cup {NoPath}] /\ k.open[f] = Meta(f)
      /\ \A g \in Paths : g # f => k.open[g] = NoPath
  BY <1>2, <1>3, JobFacts, EmptyRows DEF Job
<1>5. k \in Job
  BY <1>3, JobFacts DEF Job
<1>6. JobSound(j) /\ j.left \in SUBSET Paths /\ j.still \in SUBSET Paths
  BY JobFacts
<1> HIDE DEF k, j
<1>7. JobSound(k)
  <2>1. /\ \A g \in Paths : k.open[g] # NoPath => g = f /\ k.open[g].sec <= tree[g].sec
        /\ \A g \in Paths : /\ k.got[g].meta.sec <= tree[g].sec
                            /\ k.got[g].whole => ReadSound(g, k.got[g].meta, k.got[g].src)
    BY <1>3, <1>4, <1>6 DEF JobSound
  <2>2. k.at = "parse"
    BY <1>2, <1>4, <1>6 DEF JobSound
  <2>3. \A g \in Paths : (g \in k.left => k.open[g] = NoPath /\ k.got[g] = NoPath)
                         /\ (k.open[g] # NoPath => k.got[g] = NoPath)
    BY <1>2, <1>4, <1>6 DEF JobSound
  <2>4. ASSUME NEW g \in k.still
        PROVE  /\ tree[g].text # NoText
               /\ \/ g \in k.left
                  \/ k.open[g] # NoPath /\ k.open[g] = Meta(g)
                  \/ k.got[g] # NoPath /\ k.got[g].meta = Meta(g)
                  \/ Hit(g)
    <3>1. g \in Paths /\ g \in j.still
      BY <1>4, <1>6
    <3>2. j.open[g] = NoPath
      BY <1>2, <3>1, EmptyRows
    <3> QED BY <1>3, <1>4, <1>6, <3>1, <3>2 DEF JobSound
  <2> QED BY <2>1, <2>2, <2>3, <2>4 DEF JobSound
<1> QED BY <1>1, <1>5, <1>7, OnlySearch

LEMMA ParseFileSafe ==
  ASSUME IndexInv, NEW s \in Searchers, NEW f \in Paths, ParseFile(s, f)
  PROVE  IndexInv'
<1> DEFINE j == search[s]
           n == EntryOf(s, f)
           k == [j EXCEPT !.open = Empties, !.got = [j.got EXCEPT ![f] = n]]
<1>1. search' = [search EXCEPT ![s] = k] /\ Stays
  BY JobFacts DEF ParseFile, Stays, IndexInv, IndexTypeOK
<1>2. j.open[f] # NoPath /\ j.open[f] \in FileMetas
  BY JobFacts DEF ParseFile
<1>3. /\ n \in Entry /\ n.meta = j.open[f] /\ n # NoPath /\ (n.whole => n.src = tree[f].text)
  <2>1. n.meta = j.open[f] /\ n \in Entry /\ (n.whole => n.src = tree[f].text)
    BY <1>2, IndexTyped DEF EntryOf, Entry, IndexInv
  <2> QED BY <2>1, EntryIsSome
<1>4. /\ k.at = j.at /\ k.query = j.query /\ k.left = j.left /\ k.still = j.still /\ k.open = Empties
      /\ k.got \in [Paths -> Entry \cup {NoPath}] /\ k.got[f] = n
      /\ \A g \in Paths : g # f => k.got[g] = j.got[g]
  BY <1>3, JobFacts DEF Job
<1>5. k \in Job
  BY <1>3, JobFacts, EmptyRows DEF Job
<1>6. JobSound(j) /\ j.left \in SUBSET Paths /\ j.still \in SUBSET Paths
  BY JobFacts
<1>7. tree[f].text \in tree[f].past
  BY DEF IndexInv, TreeSound
<1> HIDE DEF k, j, n
<1>8. JobSound(k)
  <2>1. j.open[f].sec <= tree[f].sec /\ f \notin j.left /\ j.at = "parse"
    <3>1. j.open[f].sec <= tree[f].sec /\ f \notin j.left
      BY <1>2, <1>6 DEF JobSound
    <3>2. j.at = "parse"
      BY <1>2, <1>6, EmptyRows DEF JobSound
    <3> QED BY <3>1, <3>2
  <2>2. \A g \in Paths : /\ k.got[g].meta.sec <= tree[g].sec
                         /\ k.got[g].whole => ReadSound(g, k.got[g].meta, k.got[g].src)
    BY <1>3, <1>4, <1>6, <1>7, <2>1 DEF JobSound, ReadSound
  <2>3. \A g \in Paths : k.open[g] = NoPath
    BY <1>4, EmptyRows
  <2>4. \A g \in Paths : g \in k.left => k.got[g] = NoPath
    BY <1>4, <1>6, <2>1 DEF JobSound
  <2>5. ASSUME NEW g \in k.still
        PROVE  /\ tree[g].text # NoText
               /\ \/ g \in k.left
                  \/ k.got[g] # NoPath /\ k.got[g].meta = Meta(g)
                  \/ Hit(g)
    <3>1. g \in Paths /\ g \in j.still
      BY <1>4, <1>6
    <3>2. j.open[g] # NoPath => g = f
      BY <1>2, <1>6, <3>1 DEF JobSound
    <3>3. CASE g = f
      BY <1>2, <1>3, <1>4, <1>6, <2>1, <3>1, <3>3 DEF JobSound
    <3>4. CASE g # f
      BY <1>4, <1>6, <3>1, <3>2, <3>4 DEF JobSound
    <3> QED BY <3>3, <3>4
  <2> QED BY <1>4, <2>1, <2>2, <2>3, <2>4, <2>5 DEF JobSound
<1> QED BY <1>1, <1>5, <1>8, OnlySearch

\* The steps that leave the searcher with nothing, or with what is on record.
LEMMA EndingsSafe ==
  ASSUME IndexInv, NEW s \in Searchers, WorkerFails(s) \/ CommitNothing(s) \/ AnswerSearch(s)
  PROVE  IndexInv'
<1>1. \A f \in Paths : tree[f].sec \in Nat
  BY IndexTyped DEF IndexInv
<1>2. CASE AnswerSearch(s)
  <2>1. search' = [search EXCEPT ![s] = AtRest] /\ Stays
    BY <1>2 DEF AnswerSearch, Stays
  <2>2. JobSound(AtRest)
    BY <1>1, AtRestSound DEF Steps
  <2> QED BY <2>1, <2>2, AtRestTyped, OnlySearch
<1>3. CASE WorkerFails(s)
  <2> DEFINE k == [AtRest EXCEPT !.at = "answer", !.query = search[s].query]
  <2>1. search' = [search EXCEPT ![s] = k] /\ Stays
    BY <1>3 DEF WorkerFails, Stays
  <2>2. JobSound(k)
    BY <1>1, AtRestSound DEF Steps
  <2>3. k \in Job
    BY JobFacts, AtRestTyped, EmptyRows DEF AtRest, Job, Steps
  <2> QED BY <2>1, <2>2, <2>3, OnlySearch
<1>4. CASE CommitNothing(s)
  <2> DEFINE j == search[s]
             k == [j EXCEPT !.at = "answer", !.got = Empties, !.still = IF Got(s) = {} THEN @ ELSE {}]
  <2>1. search' = [search EXCEPT ![s] = k] /\ Stays
    BY <1>4, JobFacts DEF CommitNothing, Stays, IndexInv, IndexTypeOK
  <2>2. j.left = {} /\ j.open = Empties
    BY <1>4 DEF CommitNothing, Parsed
  <2>3. k \in Job
    BY JobFacts, EmptyRows DEF Job, Steps
  <2>4. /\ k.at = "answer" /\ k.left = {} /\ k.open = Empties /\ k.got = Empties
        /\ k.still = IF Got(s) = {} THEN j.still ELSE {}
    BY <2>2, JobFacts DEF Job
  <2>5. JobSound(j) /\ j.still \in SUBSET Paths
    BY JobFacts
  <2>6. Got(s) = {f \in Paths : j.got[f] # NoPath}
    BY DEF Got
  <2> HIDE DEF k, j
  <2>7. ASSUME NEW f \in k.still PROVE tree[f].text # NoText /\ Hit(f)
    <3>1. f \in j.still /\ f \in Paths /\ j.got[f] = NoPath
      BY <2>4, <2>5, <2>6
    <3> QED BY <2>2, <2>5, <3>1, EmptyRows DEF JobSound
  <2>8. JobSound(k)
    BY <1>1, <2>4, <2>7, EmptyRows DEF JobSound
  <2> QED BY <2>1, <2>3, <2>8, OnlySearch
<1> QED BY <1>2, <1>3, <1>4
-----------------------------------------------------------------------------
\* Whatever changes under the searches leaves what they hold.
LEMMA Untouched ==
  ASSUME IndexTypeOK, NEW F \in SUBSET Paths, Untouch(F)
  PROVE  /\ search' \in [Searchers -> Job]
         /\ \A s \in Searchers :
              /\ search'[s].at = search[s].at /\ search'[s].query = search[s].query
              /\ search'[s].left = search[s].left /\ search'[s].open = search[s].open
              /\ search'[s].got = search[s].got /\ search'[s].still = search[s].still \ F
<1>1. search' = [s \in Searchers |-> [search[s] EXCEPT !.still = @ \ F]]
  BY DEF Untouch
<1>2. ASSUME NEW s \in Searchers
      PROVE  /\ search'[s] \in Job
             /\ search'[s].at = search[s].at /\ search'[s].query = search[s].query
             /\ search'[s].left = search[s].left /\ search'[s].open = search[s].open
             /\ search'[s].got = search[s].got /\ search'[s].still = search[s].still \ F
  <2>1. search[s] \in Job /\ search'[s] = [search[s] EXCEPT !.still = @ \ F]
    BY <1>1 DEF IndexTypeOK
  <2> QED BY <2>1 DEF Job
<1> QED BY <1>1, <1>2

\* A write in the second of the file's time adds to what it held in that second; a later
\* write gives it a time that nothing on record has. Either way no row comes to match a
\* file that has settled.
LEMMA WriteFileSafe ==
  ASSUME IndexInv, NEW f \in Paths, NEW t \in Texts \cup {NoText}, WriteFile(f, t)
  PROVE  IndexInv'
<1> DEFINE new == [text |-> t, sec |-> second,
                   past |-> IF tree[f].sec = second THEN tree[f].past \cup {t} ELSE {t}]
<1>1. /\ t # tree[f].text /\ tree' = [tree EXCEPT ![f] = new] /\ Untouch({f})
      /\ UNCHANGED <<mode, rows, symbols, calledges, dropping, second, later>>
  BY DEF WriteFile
<1>2. /\ new \in [text: Texts \cup {NoText}, sec: 1..MaxSecond, past: SUBSET (Texts \cup {NoText})]
      /\ new.text = t /\ new.sec = second /\ t \in new.past
      /\ tree[f].sec = second => tree[f].past \subseteq new.past
  BY IndexTyped DEF IndexInv
<1> HIDE DEF new
<1>3. /\ tree' \in [Paths -> [text: Texts \cup {NoText}, sec: 1..MaxSecond, past: SUBSET (Texts \cup {NoText})]]
      /\ tree'[f] = new /\ \A g \in Paths : g # f => tree'[g] = tree[g]
  BY <1>1, <1>2 DEF IndexInv, IndexTypeOK
<1>4. /\ search' \in [Searchers -> Job]
      /\ \A s \in Searchers :
           /\ search'[s].at = search[s].at
           /\ search'[s].left = search[s].left /\ search'[s].open = search[s].open
           /\ search'[s].got = search[s].got /\ search'[s].still = search[s].still \ {f}
  BY <1>1, Untouched DEF IndexInv
<1>5. second \in Nat /\ \A g \in Paths : tree[g].sec \in Nat /\ tree[g].sec <= second
  BY IndexTyped DEF IndexInv, TreeSound
<1>6. IndexTypeOK'
  BY <1>1, <1>3, <1>4 DEF IndexInv, IndexTypeOK
<1>7. TreeSound'
  BY <1>1, <1>2, <1>3, IndexTyped DEF IndexInv, TreeSound
<1>8. \A g \in Paths : /\ tree[g].sec <= tree'[g].sec
                       /\ tree'[g].sec = tree[g].sec => tree[g].past \subseteq tree'[g].past
  BY <1>2, <1>3, <1>5
\* What was read of the file before it was written is still of its past.
<1>9. ASSUME NEW g \in Paths, NEW m, m.sec \in Nat, NEW u, ReadSound(g, m, u)
      PROVE  m.sec <= tree'[g].sec /\ (m.sec = tree'[g].sec => u \in tree'[g].past)
  <2>1. tree'[g].sec \in Nat
    BY <1>2, <1>3, <1>5
  <2> QED BY <1>5, <1>8, <1>9, <2>1 DEF ReadSound
<1>10. \A g \in Paths : rows[g].meta.sec \in Nat
  BY EntryFields DEF IndexInv, IndexTypeOK
<1>11. \A g \in Paths : tree'[g].sec \in Nat
  BY <1>2, <1>3, <1>5
<1>12. RowSound'
  <2> SUFFICES ASSUME NEW g \in Paths
               PROVE  /\ rows[g].meta.sec <= tree'[g].sec
                      /\ rows[g].whole => /\ dropping = 0
                                          /\ rows[g].meta.sec <= tree'[g].sec
                                          /\ rows[g].meta.sec = tree'[g].sec => rows[g].src \in tree'[g].past
                                          /\ \A n \in Defs(rows[g].src) : symbols[<<g, n>>] = rows[g].src
                      /\ rows[g].meta.sec = tree'[g].sec => \A e \in calledges :
                           e[1][1] = g => \E u \in tree'[g].past : e[2][2] \in CallsIn(u)
    BY <1>1 DEF RowSound, ReadSound
  <2>1. rows[g].meta.sec <= tree[g].sec
    BY DEF IndexInv, RowSound
  <2>2. rows[g].whole => /\ dropping = 0 /\ ReadSound(g, rows[g].meta, rows[g].src)
                         /\ \A n \in Defs(rows[g].src) : symbols[<<g, n>>] = rows[g].src
    BY DEF IndexInv, RowSound
  <2>3. rows[g].meta.sec <= tree'[g].sec
    BY <1>5, <1>8, <1>10, <1>11, <2>1
  <2>4. rows[g].meta.sec = tree'[g].sec => tree'[g].sec = tree[g].sec
    BY <1>5, <1>8, <1>10, <1>11, <2>1
  <2>5. rows[g].meta.sec = tree'[g].sec => \A e \in calledges :
          e[1][1] = g => \E u \in tree'[g].past : e[2][2] \in CallsIn(u)
    BY <1>8, <2>4 DEF IndexInv, RowSound
  <2> QED BY <1>9, <1>10, <2>2, <2>3, <2>5
<1>13. CallsThere'
  <2> SUFFICES ASSUME NEW g \in Paths, Current(g)'
               PROVE  (\A n \in tree[g].text.defs, m \in tree[g].text.calls :
                        (\A k \in Paths : symbols[<<k, m>>] # NoText => <<k, g>> \notin later)
                          => \A id \in Targets(symbols, g, m) \ {<<g, n>>} : <<<<g, n>>, id>> \in calledges)'
    BY DEF CallsThere
  <2>1. g # f
    <3> SUFFICES ASSUME g = f PROVE FALSE
      OBVIOUS
    <3>1. tree'[f].text = t /\ tree'[f].past = {t} /\ t # NoText /\ rows[f].meta = Meta(f)'
      BY <1>1, <1>2, <1>3 DEF Current, SettledFile, Hit
    <3>2. rows[f].meta.sec = second
      BY <1>2, <1>3, <3>1 DEF Meta
    <3>3. tree[f].sec = second
      BY <1>5, <1>10, <3>2 DEF IndexInv, RowSound
    <3>4. tree[f].text \in tree'[f].past
      BY <1>2, <1>3, <3>3 DEF IndexInv, TreeSound
    <3> QED BY <1>1, <3>1, <3>4
  <2>2. tree'[g] = tree[g]
    BY <1>3, <2>1
  <2>3. Current(g)
    BY <1>1, <2>2 DEF Current, SettledFile, Hit, Meta
  <2> QED BY <1>1, <2>2, <2>3 DEF IndexInv, CallsThere, Targets
<1>14. EdgesJoinSymbols'
  BY <1>1 DEF IndexInv, EdgesJoinSymbols
<1>15. ASSUME NEW s \in Searchers PROVE JobSound(search[s])'
  <2>1. /\ JobSound(search[s]) /\ search[s].open \in [Paths -> FileMetas \cup {NoPath}]
        /\ search[s].got \in [Paths -> Entry \cup {NoPath}] /\ search[s].still \in SUBSET Paths
    BY JobFacts
  <2>2. ASSUME NEW g \in Paths, search[s].open[g] # NoPath PROVE search[s].open[g].sec <= tree'[g].sec
    <3>1. search[s].open[g].sec \in Nat /\ search[s].open[g].sec <= tree[g].sec
      BY <2>1, <2>2, MetaIsSome DEF JobSound
    <3> QED BY <1>5, <1>8, <1>11, <3>1
  <2>3. ASSUME NEW g \in Paths
        PROVE  /\ search[s].got[g].meta.sec <= tree'[g].sec
               /\ search[s].got[g].whole => /\ search[s].got[g].meta.sec <= tree'[g].sec
                                            /\ search[s].got[g].meta.sec = tree'[g].sec => search[s].got[g].src \in tree'[g].past
    <3>1. search[s].got[g].meta.sec \in Nat /\ search[s].got[g].meta.sec <= tree[g].sec
      BY <2>1, EntryFields DEF JobSound
    <3>2. search[s].got[g].meta.sec <= tree'[g].sec
      BY <1>5, <1>8, <1>11, <3>1
    <3>3. search[s].got[g].whole => ReadSound(g, search[s].got[g].meta, search[s].got[g].src)
      BY <2>1 DEF JobSound
    <3> QED BY <1>9, <3>1, <3>2, <3>3
  <2>4. ASSUME NEW g \in search[s].still \ {f}
        PROVE  /\ tree'[g].text # NoText
               /\ \/ g \in search[s].left
                  \/ search[s].open[g] # NoPath /\ search[s].open[g] = Meta(g)'
                  \/ search[s].got[g] # NoPath /\ search[s].got[g].meta = Meta(g)'
                  \/ Hit(g)'
    <3>1. tree'[g] = tree[g]
      BY <1>3, <2>1
    <3>2. Meta(g)' = Meta(g) /\ Hit(g)' = Hit(g)
      BY <1>1, <3>1 DEF Meta, Hit
    <3> QED BY <2>1, <3>1, <3>2 DEF JobSound
  <2> QED BY <1>4, <2>1, <2>2, <2>3, <2>4 DEF JobSound, ReadSound
<1> QED BY <1>6, <1>7, <1>12, <1>13, <1>14, <1>15 DEF IndexInv

LEMMA PassesSafe == IndexInv /\ Passes => IndexInv'
<1> SUFFICES ASSUME IndexInv, Passes PROVE IndexInv'
  OBVIOUS
<1>1. /\ second' = second + 1 /\ second < MaxSecond
      /\ UNCHANGED <<mode, tree, rows, symbols, calledges, search, dropping, later>>
  BY DEF Passes
<1>2. IndexTypeOK'
  BY <1>1, IndexTyped DEF IndexInv, IndexTypeOK
<1>3. TreeSound'
  BY <1>1, IndexTyped DEF IndexInv, TreeSound
<1>4. RowSound' /\ EdgesJoinSymbols'
  BY <1>1 DEF IndexInv, RowSound, ReadSound, EdgesJoinSymbols
<1>5. CallsThere'
  BY <1>1 DEF IndexInv, CallsThere, Current, SettledFile, Hit, Meta, Targets
<1>6. \A s \in Searchers : JobSound(search[s])'
  BY <1>1 DEF IndexInv, JobSound, ReadSound, Hit, Meta
<1> QED BY <1>2, <1>3, <1>4, <1>5, <1>6 DEF IndexInv

\* While the index is dropped no row vouches for anything, and no search answers for a file.
LEMMA DropsSafe == IndexInv /\ (DropFiles \/ DropSymbols \/ DropEdges) => IndexInv'
<1> SUFFICES ASSUME IndexInv, DropFiles \/ DropSymbols \/ DropEdges PROVE IndexInv'
  OBVIOUS
<1>1. /\ Untouch(Paths) /\ calledges' = {} /\ dropping' \in 0..2
      /\ symbols' \in [SymbolIds -> Texts \cup {NoText}]
      /\ UNCHANGED <<mode, tree, second, later>>
  BY DEF DropFiles, DropSymbols, DropEdges, IndexInv, IndexTypeOK
<1>2. rows' = Empties \/ (rows' = rows /\ dropping # 0)
  BY DEF DropFiles, DropSymbols, DropEdges
<1>3. \A f \in Paths : ~rows'[f].whole /\ rows'[f].meta.sec <= tree[f].sec
  BY <1>2, EmptyRows, IndexTyped DEF IndexInv, RowSound
<1>4. rows' \in [Paths -> Entry \cup {NoPath}]
  BY <1>2, EmptyRows DEF IndexInv, IndexTypeOK
<1>5. /\ search' \in [Searchers -> Job]
      /\ \A s \in Searchers :
           /\ search'[s].at = search[s].at
           /\ search'[s].left = search[s].left /\ search'[s].open = search[s].open
           /\ search'[s].got = search[s].got /\ search'[s].still = search[s].still \ Paths
  BY <1>1, Untouched DEF IndexInv
<1>6. IndexTypeOK'
  BY <1>1, <1>4, <1>5 DEF IndexInv, IndexTypeOK
<1>7. TreeSound' /\ EdgesJoinSymbols'
  BY <1>1 DEF IndexInv, TreeSound, EdgesJoinSymbols
<1>8. RowSound'
  BY <1>1, <1>3 DEF RowSound
<1>9. CallsThere'
  BY <1>3 DEF CallsThere, Current
<1>10. ASSUME NEW s \in Searchers PROVE JobSound(search[s])'
  <2>1. JobSound(search[s]) /\ search'[s].still = {}
    BY <1>5, JobFacts
  <2> QED BY <1>1, <1>5, <2>1 DEF JobSound, ReadSound
<1> QED BY <1>6, <1>7, <1>8, <1>9, <1>10 DEF IndexInv
-----------------------------------------------------------------------------
\* What a content defines and calls are names.
LEMMA NamesOf == \A t \in Texts \cup {NoText} : Defs(t) \subseteq Names /\ CallsIn(t) \subseteq Names
  BY IndexAssumption DEF Defs, CallsIn

\* Where a call leads: to symbols of the called name.
LEMMA TargetsAreSymbols ==
  ASSUME NEW sym, NEW g \in Paths, NEW m \in Names, NEW id \in Targets(sym, g, m)
  PROVE  id \in SymbolIds /\ id[2] = m /\ id = <<id[1], m>> /\ id[1] \in Paths /\ sym[id] # NoText
<1>1. CASE sym[<<g, m>>] # NoText
  BY <1>1 DEF Targets, SymbolIds
<1>2. CASE sym[<<g, m>>] = NoText
  BY <1>2 DEF Targets, SymbolIds
<1> QED BY <1>1, <1>2

\* What a commit leaves on record: the rows of the files it parsed, their symbols beside
\* those that were there, and the calls of every symbol that either can have changed.
LEMMA CommitFacts ==
  ASSUME IndexInv, NEW s \in Searchers, CommitIndex(s)
  PROVE  \E cut, hit :
           /\ hit = Impacted(s, symbols') /\ cut \subseteq {id \in hit : symbols'[id] # tree[id[1]].text}
           /\ calledges' = {e \in calledges : e[1] \notin hit /\ e[2] \notin hit} \cup
                {e \in (hit \ cut) \X SymbolIds : /\ e[1] # e[2]
                   /\ \E m \in CallsIn(tree[e[1][1]].text) : e[2] \in Targets(symbols', e[1][1], m)}
           /\ hit \subseteq SymbolIds
           /\ \A id \in hit : symbols'[id] # NoText
           /\ \A id \in SymbolIds : symbols'[id] # NoText /\ id[1] \in Got(s) => id \in hit
           /\ \A id \in hit : id[1] \in Got(s) \/ \E f \in Got(s) : id[2] \in Defs(search[s].got[f].src)
<1>1. PICK cut \in SUBSET {id \in Impacted(s, symbols') : symbols'[id] # tree[id[1]].text} :
        calledges' = Refreshed(s, symbols', cut)
  BY DEF CommitIndex
<1> DEFINE hit == Impacted(s, symbols')
<1>2. calledges' = {e \in calledges : e[1] \notin hit /\ e[2] \notin hit} \cup
                {e \in (hit \ cut) \X SymbolIds : /\ e[1] # e[2]
                   /\ \E m \in CallsIn(tree[e[1][1]].text) : e[2] \in Targets(symbols', e[1][1], m)}
  BY <1>1 DEF Refreshed
<1>3. /\ hit \subseteq SymbolIds
      /\ \A id \in hit : symbols'[id] # NoText
      /\ \A id \in SymbolIds : symbols'[id] # NoText /\ id[1] \in Got(s) => id \in hit
      /\ \A id \in hit : id[1] \in Got(s) \/ \E f \in Got(s) : id[2] \in Defs(search[s].got[f].src)
  BY DEF Impacted
<1> QED BY <1>1, <1>2, <1>3

LEMMA CommitRows ==
  ASSUME IndexInv, NEW s \in Searchers, CommitIndex(s)
  PROVE  /\ Got(s) \subseteq Paths /\ rows' \in [Paths -> Entry \cup {NoPath}]
         /\ \A f \in Got(s) :
              /\ search[s].got[f] \in Entry /\ rows'[f] # NoPath /\ rows'[f].meta = search[s].got[f].meta
              /\ rows'[f].src = search[s].got[f].src /\ rows'[f].whole = (search[s].got[f].whole /\ dropping = 0)
         /\ \A f \in Paths \ Got(s) : rows'[f] = rows[f] /\ search[s].got[f] = NoPath
         /\ symbols' \in [SymbolIds -> Texts \cup {NoText}]
         /\ \A f \in Paths, n \in Names :
              /\ symbols'[<<f, n>>] = IF f \in Got(s) /\ n \in Defs(search[s].got[f].src)
                                      THEN search[s].got[f].src ELSE symbols[<<f, n>>]
              /\ symbols[<<f, n>>] # NoText => symbols'[<<f, n>>] # NoText
<1> DEFINE sg == search[s].got
<1>1. sg \in [Paths -> Entry \cup {NoPath}] /\ rows \in [Paths -> Entry \cup {NoPath}]
      /\ symbols \in [SymbolIds -> Texts \cup {NoText}]
  BY JobFacts DEF IndexInv, IndexTypeOK
<1>2. Got(s) \subseteq Paths /\ \A f \in Paths : IF f \in Got(s) THEN sg[f] \in Entry ELSE sg[f] = NoPath
  BY <1>1 DEF Got
<1>3. rows' = [f \in Paths |-> IF f \in Got(s) THEN [sg[f] EXCEPT !.whole = @ /\ dropping = 0] ELSE rows[f]]
  BY DEF CommitIndex
<1>4. \A id \in SymbolIds : symbols'[id] = IF id[1] \in Got(s) /\ id[2] \in Defs(sg[id[1]].src)
                                           THEN sg[id[1]].src ELSE symbols[id]
  BY DEF CommitIndex, Merged
<1>5. symbols' = [id \in SymbolIds |-> symbols'[id]]
  BY DEF CommitIndex, Merged
<1> HIDE DEF sg
<1>6. ASSUME NEW f \in Got(s)
      PROVE  /\ rows'[f] \in Entry /\ rows'[f] # NoPath /\ rows'[f].meta = sg[f].meta
             /\ rows'[f].src = sg[f].src /\ rows'[f].whole = (sg[f].whole /\ dropping = 0)
  <2>1. sg[f] \in Entry /\ rows'[f] = [sg[f] EXCEPT !.whole = @ /\ dropping = 0]
    BY <1>2, <1>3
  <2>2. /\ rows'[f] \in Entry /\ rows'[f].meta = sg[f].meta /\ rows'[f].src = sg[f].src
        /\ rows'[f].whole = (sg[f].whole /\ dropping = 0)
    BY <2>1 DEF Entry
  <2> QED BY <2>2, EntryIsSome
<1>7. rows' \in [Paths -> Entry \cup {NoPath}] /\ \A f \in Paths \ Got(s) : rows'[f] = rows[f]
  BY <1>1, <1>2, <1>3, <1>6
<1>8. \A f \in Got(s) : sg[f].src \in Texts \cup {NoText}
  BY <1>2 DEF Entry
<1>9. symbols' \in [SymbolIds -> Texts \cup {NoText}]
  <2>1. \A id \in SymbolIds : symbols'[id] \in Texts \cup {NoText}
    BY <1>1, <1>4, <1>8
  <2> QED BY <1>5, <2>1
<1>10. ASSUME NEW f \in Paths, NEW n \in Names
       PROVE  /\ symbols'[<<f, n>>] = IF f \in Got(s) /\ n \in Defs(sg[f].src) THEN sg[f].src ELSE symbols[<<f, n>>]
              /\ symbols[<<f, n>>] # NoText => symbols'[<<f, n>>] # NoText
  <2>1. <<f, n>> \in SymbolIds
    BY DEF SymbolIds
  <2>2. symbols'[<<f, n>>] = IF f \in Got(s) /\ n \in Defs(sg[f].src) THEN sg[f].src ELSE symbols[<<f, n>>]
    BY <1>4, <2>1
  <2>3. n \in Defs(sg[f].src) => sg[f].src # NoText
    BY DEF Defs
  <2> QED BY <2>2, <2>3
<1> QED BY <1>2, <1>6, <1>7, <1>9, <1>10 DEF sg

\* The edges and the rows after a commit.
LEMMA CommitEdgesSafe ==
  ASSUME IndexInv, NEW s \in Searchers, CommitIndex(s)
  PROVE  EdgesJoinSymbols' /\ RowSound' /\ calledges' \subseteq SymbolIds \X SymbolIds
<1> DEFINE G == Got(s)
           sg == search[s].got
<1>1. PICK cut, hit :
        /\ calledges' = {e \in calledges : e[1] \notin hit /\ e[2] \notin hit} \cup
             {e \in (hit \ cut) \X SymbolIds : /\ e[1] # e[2]
                /\ \E m \in CallsIn(tree[e[1][1]].text) : e[2] \in Targets(symbols', e[1][1], m)}
        /\ hit \subseteq SymbolIds
        /\ \A id \in hit : symbols'[id] # NoText
        /\ \A id \in SymbolIds : symbols'[id] # NoText /\ id[1] \in G => id \in hit
  BY CommitFacts
<1>2. UNCHANGED <<tree, dropping>>
  BY DEF CommitIndex
<1>3. /\ calledges \subseteq SymbolIds \X SymbolIds
      /\ \A id \in SymbolIds : id[1] \in Paths /\ id[2] \in Names /\ id = <<id[1], id[2]>>
  BY DEF IndexInv, IndexTypeOK, SymbolIds
<1>4. \A id \in SymbolIds : symbols[id] # NoText => symbols'[id] # NoText
  BY <1>3, CommitRows
<1>5. ASSUME NEW e \in calledges', e \notin calledges
      PROVE  /\ e \in SymbolIds \X SymbolIds /\ symbols'[e[1]] # NoText /\ symbols'[e[2]] # NoText
             /\ e[2][2] \in CallsIn(tree[e[1][1]].text)
  <2>1. /\ e \in (hit \ cut) \X SymbolIds
        /\ \E m \in CallsIn(tree[e[1][1]].text) : e[2] \in Targets(symbols', e[1][1], m)
    BY <1>1, <1>5
  <2>2. e[1] \in hit /\ e[1] \in SymbolIds /\ e[2] \in SymbolIds /\ e[1][1] \in Paths
    BY <1>1, <1>3, <2>1
  <2>3. PICK m \in CallsIn(tree[e[1][1]].text) : e[2] \in Targets(symbols', e[1][1], m)
    BY <2>1
  <2>4. m \in Names
    BY <2>2, <2>3, NamesOf, IndexTyped DEF IndexInv
  <2>5. e[2][2] = m /\ symbols'[e[2]] # NoText
    BY <2>2, <2>3, <2>4, TargetsAreSymbols
  <2> QED BY <1>1, <2>1, <2>2, <2>3, <2>5
\* An edge that stays as it was is not of a file that was parsed, or was recorded anew.
<1>6. ASSUME NEW e \in calledges', e[1][1] \in G
      PROVE  e \in SymbolIds \X SymbolIds /\ e[2][2] \in CallsIn(tree[e[1][1]].text)
  <2>1. CASE e \notin calledges
    BY <1>5, <2>1
  <2>2. CASE e \in calledges
    <3>1. e[1] \in SymbolIds /\ e[2] \in SymbolIds /\ symbols[e[1]] # NoText
      BY <1>3, <2>2 DEF IndexInv, EdgesJoinSymbols
    <3>2. e[1] \in hit
      BY <1>1, <1>4, <1>6, <3>1
    <3>3. /\ e \in (hit \ cut) \X SymbolIds
          /\ \E m \in CallsIn(tree[e[1][1]].text) : e[2] \in Targets(symbols', e[1][1], m)
      BY <1>1, <3>2
    <3>4. PICK m \in CallsIn(tree[e[1][1]].text) : e[2] \in Targets(symbols', e[1][1], m)
      BY <3>3
    <3>5. m \in Names /\ e[1][1] \in Paths
      BY <1>3, <3>1, <3>4, NamesOf, IndexTyped DEF IndexInv
    <3>6. e[2][2] = m /\ symbols'[e[2]] # NoText
      BY <3>1, <3>4, <3>5, TargetsAreSymbols
    <3> QED BY <1>3, <2>2, <3>4, <3>6
  <2> QED BY <2>1, <2>2
<1>7. EdgesJoinSymbols'
  <2> SUFFICES ASSUME NEW e \in calledges' PROVE symbols'[e[1]] # NoText /\ symbols'[e[2]] # NoText
    BY DEF EdgesJoinSymbols
  <2>1. CASE e \in calledges
    BY <1>3, <1>4, <2>1 DEF IndexInv, EdgesJoinSymbols
  <2> QED BY <1>5, <2>1
<1>8. calledges' \subseteq SymbolIds \X SymbolIds
  BY <1>3, <1>5
<1>9. RowSound'
  <2> SUFFICES ASSUME NEW f \in Paths
               PROVE  /\ rows'[f].meta.sec <= tree[f].sec
                      /\ rows'[f].whole => /\ dropping = 0 /\ ReadSound(f, rows'[f].meta, rows'[f].src)
                                           /\ \A n \in Defs(rows'[f].src) : symbols'[<<f, n>>] = rows'[f].src
                      /\ rows'[f].meta.sec = tree[f].sec => \A e \in calledges' :
                           e[1][1] = f => \E t \in tree[f].past : e[2][2] \in CallsIn(t)
    BY <1>2 DEF RowSound, ReadSound
  <2>1. tree[f].text \in tree[f].past /\ tree[f].text \in Texts \cup {NoText}
    BY IndexTyped DEF IndexInv, TreeSound
  <2>2. CASE f \in G
    <3>1. /\ sg[f].meta.sec <= tree[f].sec
          /\ sg[f].whole => ReadSound(f, sg[f].meta, sg[f].src)
      BY JobFacts DEF JobSound
    <3>2. /\ rows'[f].meta = sg[f].meta /\ rows'[f].src = sg[f].src
          /\ rows'[f].whole = (sg[f].whole /\ dropping = 0) /\ sg[f] \in Entry
      BY <2>2, CommitRows
    <3>3. \A n \in Defs(sg[f].src) : n \in Names
      BY <3>2, NamesOf DEF Entry
    <3>4. \A n \in Defs(sg[f].src) : symbols'[<<f, n>>] = sg[f].src
      BY <2>2, <3>3, CommitRows
    <3>5. \A e \in calledges' : e[1][1] = f => e[2][2] \in CallsIn(tree[f].text)
      BY <1>6, <2>2
    <3> QED BY <2>1, <3>1, <3>2, <3>4, <3>5
  <2>3. CASE f \notin G
    <3>1. rows'[f] = rows[f] /\ rows[f] \in Entry \cup {NoPath}
      BY <2>3, CommitRows DEF IndexInv, IndexTypeOK
    <3>2. rows[f].src \in Texts \cup {NoText}
      BY <3>1, EntryFields
    <3>3. \A n \in Defs(rows[f].src) : n \in Names /\ symbols'[<<f, n>>] = symbols[<<f, n>>]
      BY <2>3, <3>2, NamesOf, CommitRows
    <3>4. /\ rows[f].meta.sec <= tree[f].sec
          /\ rows[f].whole => /\ dropping = 0 /\ ReadSound(f, rows[f].meta, rows[f].src)
                              /\ \A n \in Defs(rows[f].src) : symbols[<<f, n>>] = rows[f].src
          /\ rows[f].meta.sec = tree[f].sec => \A e \in calledges :
               e[1][1] = f => \E t \in tree[f].past : e[2][2] \in CallsIn(t)
      BY DEF IndexInv, RowSound
    <3>5. ASSUME rows[f].meta.sec = tree[f].sec, NEW e \in calledges', e[1][1] = f
          PROVE  \E t \in tree[f].past : e[2][2] \in CallsIn(t)
      <4>1. CASE e \in calledges
        BY <3>4, <3>5, <4>1
      <4>2. CASE e \notin calledges
        BY <1>5, <2>1, <3>5, <4>2
      <4> QED BY <4>1, <4>2
    <3> QED BY <3>1, <3>3, <3>4, <3>5
  <2> QED BY <2>2, <2>3
<1> QED BY <1>7, <1>8, <1>9

\* Of a file that its row matches, the calls are there: a commit that parsed it, or a file
\* with one of its calls' names, records them from the file as it is; and a commit that
\* has nothing of that kind leaves them alone.
LEMMA CommitCallsSafe ==
  ASSUME IndexInv, NEW s \in Searchers, CommitIndex(s)
  PROVE  CallsThere'
<1> DEFINE G == Got(s)
           sg == search[s].got
<1>1. PICK cut, hit :
        /\ cut \subseteq {id \in hit : symbols'[id] # tree[id[1]].text}
        /\ calledges' = {e \in calledges : e[1] \notin hit /\ e[2] \notin hit} \cup
             {e \in (hit \ cut) \X SymbolIds : /\ e[1] # e[2]
                /\ \E m \in CallsIn(tree[e[1][1]].text) : e[2] \in Targets(symbols', e[1][1], m)}
        /\ \A id \in SymbolIds : symbols'[id] # NoText /\ id[1] \in G => id \in hit
        /\ \A id \in hit : id[1] \in G \/ \E f \in G : id[2] \in Defs(sg[f].src)
  BY CommitFacts
<1>2. UNCHANGED <<tree, dropping>> /\ later' = {p \in later : p[2] \notin G} \cup G \X (Paths \ G)
  BY DEF CommitIndex
<1> SUFFICES ASSUME NEW g \in Paths, Current(g)', NEW n \in tree[g].text.defs, NEW m \in tree[g].text.calls,
                    \A k \in Paths : symbols'[<<k, m>>] # NoText => <<k, g>> \notin later',
                    NEW id \in Targets(symbols', g, m), id # <<g, n>>
             PROVE  <<<<g, n>>, id>> \in calledges'
  BY <1>2 DEF CallsThere, Targets
<1>3. /\ tree[g].text \in Texts /\ n \in Names /\ m \in Names /\ <<g, n>> \in SymbolIds
      /\ m \in CallsIn(tree[g].text) /\ n \in Defs(tree[g].text)
  <2>1. tree[g].text # NoText /\ tree[g].text \in Texts
    BY <1>2, IndexTyped DEF IndexInv, Current, SettledFile
  <2>2. n \in Names /\ m \in Names
    BY <2>1, IndexAssumption
  <2> QED BY <2>1, <2>2 DEF SymbolIds, CallsIn, Defs
<1>4. id \in SymbolIds /\ id = <<id[1], m>> /\ id[1] \in Paths /\ symbols'[id] # NoText
  BY <1>3, TargetsAreSymbols
<1>5. symbols'[<<g, n>>] = tree[g].text
  <2>1. rows'[g].whole /\ rows'[g].meta.sec = tree[g].sec /\ tree[g].past = {tree[g].text}
    BY <1>2, <1>3, IndexTyped DEF IndexInv, Current, SettledFile, Hit, Meta
  <2>2. /\ rows'[g].whole => /\ rows'[g].meta.sec = tree[g].sec => rows'[g].src \in tree[g].past
                             /\ \A u \in Defs(rows'[g].src) : symbols'[<<g, u>>] = rows'[g].src
    BY <1>2, CommitEdgesSafe DEF RowSound, ReadSound
  <2> QED BY <1>3, <2>1, <2>2
<1>6. <<g, n>> \notin cut /\ symbols'[<<g, n>>] # NoText
  <2>1. symbols'[<<g, n>>] # NoText
    BY <1>3, <1>5 DEF Defs
  <2> QED BY <1>1, <1>5, <2>1
<1>7. CASE <<g, n>> \in hit
  <2>1. <<<<g, n>>, id>> \in (hit \ cut) \X SymbolIds
    BY <1>4, <1>6, <1>7
  <2> DEFINE e == <<<<g, n>>, id>>
  <2>2. e[1] = <<g, n>> /\ e[2] = id /\ e[1][1] = g
    OBVIOUS
  <2>3. e[1] # e[2] /\ \E u \in CallsIn(tree[e[1][1]].text) : e[2] \in Targets(symbols', e[1][1], u)
    BY <1>3, <2>2
  <2> HIDE DEF e
  <2>4. e \in (hit \ cut) \X SymbolIds
    BY <2>1 DEF e
  <2>5. e \in calledges'
    BY <1>1, <2>3, <2>4
  <2> QED BY <2>5 DEF e
<1>8. CASE <<g, n>> \notin hit
  <2>1. g \notin G
    BY <1>1, <1>3, <1>6, <1>8
  <2>2. \A k \in G : symbols'[<<k, m>>] = NoText
    <3>1. \A k \in G : <<k, g>> \in later' /\ k \in Paths
      BY <1>2, <2>1, CommitRows
    <3> QED BY <3>1
  <2>3. \A k \in Paths : symbols'[<<k, m>>] = symbols[<<k, m>>]
    BY <1>3, <2>2, CommitRows
  <2>4. Targets(symbols', g, m) = Targets(symbols, g, m)
    <3>1. \A i \in SymbolIds : i[2] = m => symbols'[i] = symbols[i]
      BY <2>3 DEF SymbolIds
    <3>2. {i \in SymbolIds : i[2] = m /\ symbols'[i] # NoText} = {i \in SymbolIds : i[2] = m /\ symbols[i] # NoText}
      BY <3>1
    <3> QED BY <2>3, <3>2 DEF Targets
  <2>5. \A k \in Paths : symbols[<<k, m>>] # NoText => <<k, g>> \notin later
    <3> SUFFICES ASSUME NEW k \in Paths, symbols[<<k, m>>] # NoText, <<k, g>> \in later PROVE FALSE
      OBVIOUS
    <3>1. <<k, g>> \notin later'
      BY <2>3
    <3> QED BY <1>2, <2>1, <3>1
  <2>6. Current(g)
    <3>1. rows'[g] = rows[g]
      BY <2>1, CommitRows
    <3> QED BY <1>2, <3>1 DEF Current, SettledFile, Hit, Meta
  <2>7. <<<<g, n>>, id>> \in calledges
    BY <2>4, <2>5, <2>6 DEF IndexInv, CallsThere
  <2>8. id \notin hit
    <3> SUFFICES ASSUME id \in hit PROVE FALSE
      OBVIOUS
    <3>1. id[1] \notin G
      BY <1>4, <2>2
    <3>2. PICK f \in G : m \in Defs(sg[f].src)
      BY <1>1, <1>4, <3>1
    <3>3. f \in Paths /\ symbols'[<<f, m>>] = sg[f].src
      BY <1>3, <3>2, CommitRows
    <3> QED BY <2>2, <3>2, <3>3 DEF Defs
  <2> DEFINE e == <<<<g, n>>, id>>
  <2>9. e[1] \notin hit /\ e[2] \notin hit /\ e \in calledges
    BY <1>8, <2>7, <2>8
  <2> HIDE DEF e
  <2>10. e \in calledges'
    BY <1>1, <2>9
  <2> QED BY <2>10 DEF e
<1> QED BY <1>7, <1>8

LEMMA CommitIndexSafe ==
  ASSUME IndexInv, NEW s \in Searchers, CommitIndex(s)
  PROVE  IndexInv'
<1> DEFINE G == Got(s)
           sg == search[s].got
<1>1. /\ UNCHANGED <<mode, tree, dropping, second>> /\ Parsed(s)
      /\ later' = {p \in later : p[2] \notin G} \cup G \X (Paths \ G)
      /\ search' = [r \in Searchers |->
            [search[r] EXCEPT !.at = IF r = s THEN "answer" ELSE @, !.got = IF r = s THEN Empties ELSE @,
                              !.still = @ \ {f \in G : sg[f].meta # Meta(f)}]]
  BY DEF CommitIndex
<1>2. ASSUME NEW r \in Searchers
      PROVE  /\ search'[r] \in Job
             /\ search'[r].at = (IF r = s THEN "answer" ELSE search[r].at)
             /\ search'[r].got = (IF r = s THEN Empties ELSE search[r].got)
             /\ search'[r].still = search[r].still \ {f \in G : sg[f].meta # Meta(f)}
             /\ search'[r].left = search[r].left /\ search'[r].open = search[r].open
  <2> DEFINE S == {f \in G : sg[f].meta # Meta(f)}
             a == IF r = s THEN "answer" ELSE search[r].at
             b == IF r = s THEN Empties ELSE search[r].got
  <2>1. search'[r] = [search[r] EXCEPT !.at = a, !.got = b, !.still = @ \ S]
    BY <1>1
  <2>2. a \in Steps /\ b \in [Paths -> Entry \cup {NoPath}] /\ search[r] \in Job
    BY JobFacts, EmptyRows DEF Steps
  <2> HIDE DEF a, b, S
  <2>3. /\ search'[r] \in Job /\ search'[r].at = a /\ search'[r].got = b
        /\ search'[r].still = search[r].still \ S
        /\ search'[r].left = search[r].left /\ search'[r].open = search[r].open
    BY <2>1, <2>2 DEF Job
  <2> QED BY <2>3 DEF a, b, S
<1>3. search' \in [Searchers -> Job]
  <2>1. \A r \in Searchers : search'[r] \in Job
    BY <1>2
  <2> QED BY <1>1, <2>1
<1>4. later' \subseteq Paths \X Paths
  BY <1>1, CommitRows DEF IndexInv, IndexTypeOK
<1>5. IndexTypeOK'
  BY <1>1, <1>3, <1>4, CommitRows, CommitEdgesSafe DEF IndexInv, IndexTypeOK
<1>6. TreeSound'
  BY <1>1 DEF IndexInv, TreeSound
<1>7. ASSUME NEW r \in Searchers PROVE JobSound(search[r])'
  <2>1. /\ JobSound(search[r]) /\ JobSound(search[s]) /\ search[r].still \in SUBSET Paths
        /\ search[s].left = {} /\ search[s].open = Empties /\ Got(s) = {f \in Paths : sg[f] # NoPath}
    BY <1>1, JobFacts DEF Parsed, Got
  <2>2. ASSUME NEW f \in search'[r].still
        PROVE  /\ f \in Paths /\ tree[f].text # NoText
               /\ \/ f \in search'[r].left
                  \/ search'[r].open[f] # NoPath /\ search'[r].open[f] = Meta(f)
                  \/ search'[r].got[f] # NoPath /\ search'[r].got[f].meta = Meta(f)
                  \/ Hit(f)'
    <3>1. f \in search[r].still /\ f \in Paths /\ (f \in G => sg[f].meta = Meta(f))
      BY <1>2, <2>1
    <3>2. Meta(f)' = Meta(f)
      BY <1>1 DEF Meta
    <3>3. CASE f \in G
      <4>1. rows'[f] # NoPath /\ rows'[f].meta = Meta(f)
        BY <3>1, <3>3, CommitRows
      <4> QED BY <2>1, <3>1, <3>2, <4>1 DEF JobSound, Hit
    <3>4. CASE f \notin G
      <4>1. rows'[f] = rows[f] /\ sg[f] = NoPath
        BY <3>1, <3>4, CommitRows
      <4>2. Hit(f)' = Hit(f)
        BY <3>2, <4>1 DEF Hit
      <4>3. CASE r = s
        <5>1. Hit(f) /\ tree[f].text # NoText
          BY <2>1, <3>1, <4>1, <4>3, EmptyRows DEF JobSound
        <5> QED BY <3>1, <4>2, <5>1
      <4>4. CASE r # s
        BY <1>2, <2>1, <3>1, <4>2, <4>4 DEF JobSound
      <4> QED BY <4>3, <4>4
    <3> QED BY <3>3, <3>4
  <2>3. \A f \in Paths : Meta(f)' = Meta(f)
    BY <1>1 DEF Meta
  <2>6. tree' = tree
    BY <1>1
  <2>4. CASE r = s
    <3>1. \A f \in Paths : tree[f].sec \in Nat
      BY IndexTyped DEF IndexInv
    <3>2. search'[r].at = "answer" /\ search'[r].left = {} /\ search'[r].open = Empties /\ search'[r].got = Empties
      BY <1>2, <2>1, <2>4
    <3> QED BY <2>2, <2>3, <2>6, <3>1, <3>2, EmptyRows DEF JobSound, ReadSound
  <2>5. CASE r # s
    <3>1. /\ search'[r].at = search[r].at /\ search'[r].left = search[r].left
          /\ search'[r].open = search[r].open /\ search'[r].got = search[r].got
      BY <1>2, <2>5
    <3>2. /\ \A f \in Paths : search[r].open[f] # NoPath => search[r].open[f].sec <= tree[f].sec
          /\ \A f \in Paths : /\ search[r].got[f].meta.sec <= tree[f].sec
                              /\ search[r].got[f].whole => ReadSound(f, search[r].got[f].meta, search[r].got[f].src)
          /\ \A f, g \in Paths : search[r].open[f] # NoPath /\ search[r].open[g] # NoPath => f = g
          /\ \A f \in Paths : /\ f \in search[r].left => search[r].open[f] = NoPath /\ search[r].got[f] = NoPath
                              /\ search[r].open[f] # NoPath => search[r].got[f] = NoPath
          /\ search[r].at # "parse" => search[r].left = {} /\ search[r].open = Empties /\ search[r].got = Empties
      BY <2>1 DEF JobSound
    <3> QED BY <2>2, <2>3, <2>6, <3>1, <3>2 DEF JobSound, ReadSound
  <2> QED BY <2>4, <2>5
<1> QED BY <1>5, <1>6, <1>7, CommitEdgesSafe, CommitCallsSafe DEF IndexInv
-----------------------------------------------------------------------------
LEMMA IndexStays ==
  ASSUME IndexInv, UNCHANGED <<mode, tree, rows, symbols, calledges, search, dropping, second, later>>
  PROVE  IndexInv'
<1>1. IndexTypeOK' /\ TreeSound' /\ EdgesJoinSymbols'
  BY DEF IndexInv, IndexTypeOK, TreeSound, EdgesJoinSymbols
<1>2. RowSound'
  BY DEF IndexInv, RowSound, ReadSound
<1>3. CallsThere'
  BY DEF IndexInv, CallsThere, Current, SettledFile, Hit, Meta, Targets
<1>4. \A s \in Searchers : JobSound(search[s])'
  BY DEF IndexInv, JobSound, ReadSound, Hit, Meta
<1> QED BY <1>1, <1>2, <1>3, <1>4 DEF IndexInv

LEMMA IndexInvariant == IndexInv /\ [IndexNext]_indexVars => IndexInv'
<1> SUFFICES ASSUME IndexInv, [IndexNext]_indexVars PROVE IndexInv'
  OBVIOUS
<1>1. ASSUME UNCHANGED indexVars PROVE IndexInv'
  BY <1>1, IndexStays DEF indexVars
<1>2. ASSUME NEW s \in Searchers, NEW q \in Names, SearchLazily(s, q) PROVE IndexInv'
  BY <1>2, IndexStays DEF SearchLazily
<1>3. ASSUME IndexNext PROVE IndexInv'
  BY <1>2, <1>3, WriteFileSafe, PassesSafe, DropsSafe, BeginIndexSafe, ReadMetaSafe, ParseFileSafe, EndingsSafe,
     CommitIndexSafe DEF IndexNext
<1> QED BY <1>1, <1>3

\* What the index keeps, however searches of several processes, writes of the files they
\* read and drops interleave: a row that matches its file vouches for its symbols, a search
\* finds its name in every file that nobody touched since it began, no call outlives its
\* symbols, and the calls of a file are those of its content.
THEOREM IndexSafe == IndexSpec => []IndexKeeps
<1>1. IndexSpec => []IndexInv
  BY IndexStarts, IndexInvariant, PTL DEF IndexSpec
<1> QED BY <1>1, IndexHolds, PTL

-----------------------------------------------------------------------------
(* Refactoring: pieces of a text put together                              *)

\* A set of numbers has a least: how what is computed step by step is proved without induction.
LEMMA LeastNumber == ASSUME NEW S \in SUBSET Nat, S # {} PROVE \E i \in S : \A j \in S : i <= j
<1>1. PICK i \in S : \A j \in S : ~(<<j, i>> \in OpToRel(<, Nat))
  BY NatLessThanWellFounded, WFMin
<1>2. \A j \in S : ~(j < i)
  BY <1>1 DEF OpToRel
<1> QED BY <1>2

Text == Seq(Tokens)
Row(s, f, i) == IF i = 1 THEN s[i] ELSE f[i - 1] \o s[i]
IsRun(s, n, f) == f = [i \in 1..n |-> Row(s, f, i)]

LEMMA RunsExist == ASSUME NEW s, NEW n \in Nat PROVE \E f : IsRun(s, n, f)
<1> DEFINE Bad == {m \in Nat : ~\E f : IsRun(s, m, f)}
<1> SUFFICES ASSUME Bad # {} PROVE FALSE
  OBVIOUS
<1>1. PICK m \in Bad : \A j \in Bad : m <= j
  <2>1. Bad \in SUBSET Nat
    OBVIOUS
  <2> HIDE DEF Bad
  <2> QED BY <2>1, LeastNumber
<1>2. m \in Nat /\ ~\E f : IsRun(s, m, f)
  OBVIOUS
<1>3. CASE m = 0
  <2> DEFINE f == [k \in 1..0 |-> <<>>]
  <2>1. f = [k \in 1..0 |-> Row(s, f, k)]
    OBVIOUS
  <2> QED BY <1>2, <1>3, <2>1 DEF IsRun
<1>4. CASE m # 0
  <2>1. m - 1 \in Nat /\ ~(m <= m - 1)
    BY <1>2, <1>4
  <2>2. PICK f : IsRun(s, m - 1, f)
    BY <1>1, <2>1
  <2> DEFINE g == [k \in 1..m |-> Row(s, f, k)]
  <2>3. \A k \in 1..m - 1 : f[k] = g[k]
    <3>1. \A k \in 1..m - 1 : f[k] = Row(s, f, k) /\ k \in 1..m
      BY <1>2, <2>1, <2>2 DEF IsRun
    <3> QED BY <3>1
  <2>4. ASSUME NEW k \in 1..m PROVE Row(s, f, k) = Row(s, g, k)
    <3> HIDE DEF g
    <3>1. k # 1 => k - 1 \in 1..m - 1
      BY <1>2
    <3> QED BY <2>3, <3>1 DEF Row
  <2>5. g = [k \in 1..m |-> Row(s, g, k)]
    BY <2>4
  <2> QED BY <1>2, <2>5 DEF IsRun
<1> QED BY <1>3, <1>4

\* Two runs over what begins alike agree as far as it does.
LEMMA RunsAgree ==
  ASSUME NEW s, NEW u, NEW n \in Nat, NEW m \in Nat, n <= m, NEW f, NEW g, IsRun(s, n, f), IsRun(u, m, g),
         \A i \in 1..n : s[i] = u[i]
  PROVE  \A i \in 1..n : f[i] = g[i]
<1> DEFINE Bad == {i \in 1..n : f[i] # g[i]}
<1> SUFFICES ASSUME Bad # {} PROVE FALSE
  OBVIOUS
<1>1. PICK i \in Bad : \A j \in Bad : i <= j
  <2>1. Bad \in SUBSET Nat
    OBVIOUS
  <2> HIDE DEF Bad
  <2> QED BY <2>1, LeastNumber
<1>2. i \in 1..n /\ i \in 1..m /\ f[i] # g[i] /\ (i # 1 => i - 1 \in 1..n /\ ~(i <= i - 1))
  OBVIOUS
<1>3. f[i] = Row(s, f, i) /\ g[i] = Row(u, g, i)
  BY <1>2 DEF IsRun
<1>4. i # 1 => f[i - 1] = g[i - 1]
  BY <1>1, <1>2
<1> QED BY <1>2, <1>3, <1>4 DEF Row

LEMMA FlattenIs ==
  ASSUME NEW s, NEW n \in Nat \ {0}, Len(s) = n
  PROVE  \E f : IsRun(s, n, f) /\ FlattenSeq(s) = f[n]
<1> DEFINE run == CHOOSE f : f = [i \in 1..Len(s) |-> IF i = 1 THEN s[i] ELSE f[i - 1] \o s[i]]
<1>1. IsRun(s, n, run)
  BY RunsExist DEF IsRun, Row
<1>2. FlattenSeq(s) = run[n]
  BY DEF FlattenSeq
<1> HIDE DEF run
<1> QED BY <1>1, <1>2

LEMMA FlattenNone == ASSUME NEW S, NEW s \in Seq(S), Len(s) = 0 PROVE FlattenSeq(s) = <<>>
<1>1. s = <<>>
  BY EmptySeq
<1>2. FlattenSeq(s) = s
  BY DEF FlattenSeq
<1> QED BY <1>1, <1>2

LEMMA FlattenMore ==
  ASSUME NEW s \in Seq(Text), NEW e \in Text
  PROVE  FlattenSeq(Append(s, e)) = FlattenSeq(s) \o e
<1> DEFINE u == Append(s, e)
           n == Len(s) + 1
<1>1. /\ u \in Seq(Text) /\ Len(u) = n /\ Len(s) \in Nat /\ n \in Nat \ {0} /\ Len(s) <= n /\ n \in 1..n
      /\ u[n] = e /\ \A i \in 1..Len(s) : s[i] = u[i]
  BY AppendProperties, LenProperties
<1> HIDE DEF u, n
<1>2. PICK f : IsRun(u, n, f) /\ FlattenSeq(u) = f[n]
  BY <1>1, FlattenIs
<1>3. f[n] = Row(u, f, n)
  BY <1>1, <1>2 DEF IsRun
<1>4. CASE Len(s) = 0
  <2>1. FlattenSeq(s) = <<>> /\ <<>> \o e = e
    BY <1>4, FlattenNone, ConcatEmptySeq DEF Text
  <2> QED BY <1>1, <1>2, <1>3, <1>4, <2>1 DEF Row, u, n
<1>5. CASE Len(s) # 0
  <2> DEFINE m == Len(s)
  <2>1. m \in Nat \ {0} /\ m \in Nat /\ m <= n /\ m \in 1..m /\ Len(s) = m
    BY <1>1, <1>5
  <2> HIDE DEF m
  <2>2. PICK g : IsRun(s, m, g) /\ FlattenSeq(s) = g[m]
    BY <2>1, FlattenIs
  <2>3. \A i \in 1..m : g[i] = f[i]
    BY <1>1, <1>2, <2>1, <2>2, RunsAgree
  <2>4. n # 1 /\ n - 1 = m
    BY <1>1, <1>5 DEF n, m
  <2> QED BY <1>1, <1>2, <1>3, <2>1, <2>2, <2>3, <2>4 DEF Row, u
<1> QED BY <1>4, <1>5

\* Every property of the pieces that is kept when one is added holds of all: the least
\* number of pieces at which it fails would not be the least.
LEMMA FlattenTyped == ASSUME NEW s \in Seq(Text) PROVE FlattenSeq(s) \in Text
<1> DEFINE Bad == {n \in Nat : \E u \in Seq(Text) : Len(u) = n /\ FlattenSeq(u) \notin Text}
<1> SUFFICES ASSUME Bad # {} PROVE FALSE
  BY LenProperties
<1>1. PICK n \in Bad : \A j \in Bad : n <= j
  <2>1. Bad \in SUBSET Nat
    OBVIOUS
  <2> HIDE DEF Bad
  <2> QED BY <2>1, LeastNumber
<1>2. PICK u \in Seq(Text) : Len(u) = n /\ FlattenSeq(u) \notin Text
  OBVIOUS
<1>3. CASE n = 0
  BY <1>2, <1>3, FlattenNone, EmptySeq DEF Text
<1>4. CASE n # 0
  <2> DEFINE v == SubSeq(u, 1, n - 1)
  <2>1. n \in Nat /\ n >= 1 /\ n \in 1..Len(u)
    BY <1>2, <1>4, LenProperties
  <2>2. v \in Seq(Text) /\ Len(v) = n - 1 /\ u[n] \in Text /\ u = Append(v, u[n])
    <3>1. \A i \in 1..n : u[i] \in Text
      BY <1>2, <2>1, ElementOfSeq
    <3>2. \A i \in 1..n - 1 : u[i] \in Text
      BY <2>1, <3>1
    <3>3. v \in Seq(Text) /\ Len(v) = n - 1
      BY <2>1, <3>2, SubSeqProperties
    <3>4. u[n] \in Text /\ SubSeq(u, 1, n) = u /\ SubSeq(u, 1, n) = v \o <<u[n]>>
      BY <1>2, <2>1, <3>1, SubSeqFull, SubSeqRecursiveSecond
    <3> HIDE DEF v
    <3>5. Append(v, u[n]) = v \o <<u[n]>>
      BY <3>3, <3>4, AppendIsConcat
    <3> QED BY <3>3, <3>4, <3>5
  <2> HIDE DEF v
  <2>3. n - 1 \in Nat /\ ~(n <= n - 1) /\ n - 1 \notin Bad
    BY <1>1, <2>1
  <2>4. FlattenSeq(v) \in Text
    BY <2>2, <2>3
  <2>5. FlattenSeq(u) = FlattenSeq(v) \o u[n]
    BY <2>2, FlattenMore
  <2> QED BY <1>2, <2>2, <2>4, <2>5, ConcatProperties DEF Text
<1> QED BY <1>3, <1>4

LEMMA Single == ASSUME NEW S, NEW e \in S PROVE <<e>> \in Seq(S) /\ Len(<<e>>) = 1 /\ <<e>>[1] = e
OBVIOUS

LEMMA Regrouped ==
  ASSUME NEW S, NEW a \in Seq(S), NEW b \in Seq(S), NEW c \in Seq(S)
  PROVE  (a \o b) \o c = a \o (b \o c)
BY ConcatAssociative

LEMMA AppendLater ==
  ASSUME NEW S, NEW a \in Seq(S), NEW b \in Seq(S), NEW e \in S
  PROVE  a \o Append(b, e) = Append(a \o b, e)
OBVIOUS

LEMMA Joined2 == ASSUME NEW S, NEW s \in Seq(S), NEW u \in Seq(S) PROVE s \o u \in Seq(S) /\ Len(s \o u) = Len(s) + Len(u)
BY ConcatProperties

LEMMA FlattenJoin ==
  ASSUME NEW s \in Seq(Text), NEW u \in Seq(Text)
  PROVE  FlattenSeq(s \o u) = FlattenSeq(s) \o FlattenSeq(u)
<1> DEFINE Bad == {n \in Nat : \E w \in Seq(Text) : Len(w) = n /\ FlattenSeq(s \o w) # FlattenSeq(s) \o FlattenSeq(w)}
<1> SUFFICES ASSUME Bad # {} PROVE FALSE
  BY LenProperties
<1>1. PICK n \in Bad : \A j \in Bad : n <= j
  <2>1. Bad \in SUBSET Nat
    OBVIOUS
  <2> HIDE DEF Bad
  <2> QED BY <2>1, LeastNumber
<1>2. PICK w \in Seq(Text) : Len(w) = n /\ FlattenSeq(s \o w) # FlattenSeq(s) \o FlattenSeq(w)
  OBVIOUS
<1>3. CASE n = 0
  <2>1. w = <<>> /\ FlattenSeq(w) = <<>> /\ s \o w = s
    BY <1>2, <1>3, FlattenNone, EmptySeq, ConcatEmptySeq
  <2>2. FlattenSeq(s) \o <<>> = FlattenSeq(s)
    BY FlattenTyped, ConcatEmptySeq DEF Text
  <2> QED BY <1>2, <2>1, <2>2
<1>4. CASE n # 0
  <2> DEFINE v == SubSeq(w, 1, n - 1)
  <2>1. n \in Nat /\ n >= 1 /\ n \in 1..Len(w)
    BY <1>2, <1>4, LenProperties
  <2>2. v \in Seq(Text) /\ Len(v) = n - 1 /\ w[n] \in Text /\ w = Append(v, w[n]) /\ w = v \o <<w[n]>>
    <3>1. \A i \in 1..n : w[i] \in Text
      BY <1>2, <2>1, ElementOfSeq
    <3>2. \A i \in 1..n - 1 : w[i] \in Text
      BY <2>1, <3>1
    <3>3. v \in Seq(Text) /\ Len(v) = n - 1
      BY <2>1, <3>2, SubSeqProperties
    <3>4. w[n] \in Text /\ SubSeq(w, 1, n) = w /\ SubSeq(w, 1, n) = v \o <<w[n]>>
      BY <1>2, <2>1, <3>1, SubSeqFull, SubSeqRecursiveSecond
    <3> HIDE DEF v
    <3>5. Append(v, w[n]) = v \o <<w[n]>>
      BY <3>3, <3>4, AppendIsConcat
    <3> QED BY <3>3, <3>4, <3>5
  <2> HIDE DEF v
  <2>3. n - 1 \in Nat /\ ~(n <= n - 1) /\ n - 1 \notin Bad
    BY <1>1, <2>1
  <2>4. FlattenSeq(s \o v) = FlattenSeq(s) \o FlattenSeq(v)
    BY <2>2, <2>3
  <2> HIDE DEF Bad
  <2> DEFINE e == w[n]
  <2>5. e \in Text /\ w = v \o <<e>> /\ w = Append(v, e)
    BY <2>2
  <2> HIDE DEF e
  <2>6. FlattenSeq(w) = FlattenSeq(v) \o e
    BY <2>2, <2>5, FlattenMore
  <2>7. s \o v \in Seq(Text) /\ s \o w = Append(s \o v, e)
    <3>1. v \in Seq(Text)
      BY <2>2
    <3> QED BY <2>5, <3>1, Joined2, AppendLater
  <2>8. FlattenSeq(s \o w) = FlattenSeq(s \o v) \o e
    BY <2>5, <2>7, FlattenMore
  <2>9. (FlattenSeq(s) \o FlattenSeq(v)) \o e = FlattenSeq(s) \o (FlattenSeq(v) \o e)
    <3>1. FlattenSeq(s) \in Text /\ FlattenSeq(v) \in Text
      <4>1. v \in Seq(Text)
        BY <2>2
      <4> QED BY <4>1, FlattenTyped
    <3>2. FlattenSeq(s) \in Seq(Tokens) /\ FlattenSeq(v) \in Seq(Tokens) /\ e \in Seq(Tokens)
      BY <2>5, <3>1 DEF Text
    <3> QED BY <3>2, Regrouped
  <2> QED BY <1>2, <2>4, <2>6, <2>8, <2>9
<1> QED BY <1>3, <1>4

\* The prover compares what the built-in operators return point by point; and the
\* length zero as the empty sequence; these operators it leaves alone.
Cut(t, a, b) == SubSeq(t, a, b)
Glue(u, v) == u \o v
Size(t) == Len(t)

\* The text of t from a to b with the letter replaced at the places S.
Pieces(t, S, n, a, b) == [i \in 1..b - a + 1 |-> IF a + i - 1 \in S /\ t[a + i - 1] = OldLetter THEN n ELSE <<t[a + i - 1]>>]
Part(t, S, n, a, b) == FlattenSeq(Pieces(t, S, n, a, b))

LEMMA RowIsSeq == ASSUME NEW S, NEW m \in Nat, NEW f \in [1..m -> S] PROVE f \in Seq(S) /\ Len(f) = m
OBVIOUS

LEMMA PiecesTyped ==
  ASSUME NEW t \in Text, NEW n \in Text, NEW S, NEW a \in Nat, a >= 1, NEW b \in Nat, b <= Len(t), a <= b + 1
  PROVE  /\ Pieces(t, S, n, a, b) \in Seq(Text) /\ Len(Pieces(t, S, n, a, b)) = b - a + 1
         /\ b - a + 1 \in Nat /\ Part(t, S, n, a, b) \in Text
<1> DEFINE p == Pieces(t, S, n, a, b)
<1>1. b - a + 1 \in Nat
  OBVIOUS
<1>2. ASSUME NEW i \in 1..b - a + 1 PROVE p[i] \in Text
  <2>1. a + i - 1 \in 1..Len(t)
    BY <1>1
  <2>2. t[a + i - 1] \in Tokens
    BY <2>1, ElementOfSeq DEF Text
  <2>3. <<t[a + i - 1]>> \in Text
    BY <2>2, Single DEF Text
  <2> QED BY <2>3 DEF Pieces
<1>3. p \in Seq(Text) /\ Len(p) = b - a + 1
  <2>1. DOMAIN p = 1..b - a + 1 /\ p = [i \in 1..b - a + 1 |-> p[i]]
    BY DEF Pieces
  <2> HIDE DEF p
  <2>2. p \in [1..b - a + 1 -> Text]
    BY <1>2, <2>1
  <2> QED BY <1>1, <2>2, RowIsSeq
<1> QED BY <1>1, <1>3, FlattenTyped DEF Part

LEMMA PartSplit ==
  ASSUME NEW t \in Text, NEW n \in Text, NEW S, NEW a \in Nat, a >= 1, NEW b \in Nat, b <= Len(t),
         NEW c \in Nat, a <= c + 1, c <= b
  PROVE  Part(t, S, n, a, b) = Glue(Part(t, S, n, a, c), Part(t, S, n, c + 1, b))
<1> DEFINE p == Pieces(t, S, n, a, b)
           q == Pieces(t, S, n, a, c)
           r == Pieces(t, S, n, c + 1, b)
<1>0. Len(t) \in Nat
  BY LenProperties DEF Text
<1>1. p \in Seq(Text) /\ Len(p) = b - a + 1
  BY <1>0, PiecesTyped
<1>2. q \in Seq(Text) /\ Len(q) = c - a + 1
  BY <1>0, PiecesTyped
<1>3. r \in Seq(Text) /\ Len(r) = b - (c + 1) + 1
  <2>1. c + 1 \in Nat /\ c + 1 >= 1 /\ c + 1 <= b + 1
    OBVIOUS
  <2> QED BY <1>0, <2>1, PiecesTyped
<1>4. ASSUME NEW i \in 1..Len(p) PROVE p[i] = IF i <= Len(q) THEN q[i] ELSE r[i - Len(q)]
  <2>1. i \in 1..b - a + 1 /\ p[i] = IF a + i - 1 \in S /\ t[a + i - 1] = OldLetter THEN n ELSE <<t[a + i - 1]>>
    BY <1>1 DEF Pieces
  <2>2. CASE i <= Len(q)
    <3>1. i \in 1..c - a + 1
      BY <1>2, <2>1, <2>2
    <3> QED BY <2>1, <2>2, <3>1 DEF Pieces
  <2>3. CASE ~(i <= Len(q))
    <3> DEFINE k == i - Len(q)
    <3>1. k \in 1..b - (c + 1) + 1 /\ c + 1 + k - 1 = a + i - 1
      <4>1. Len(q) = c - a + 1 /\ i \in Nat /\ i <= b - a + 1 /\ ~(i <= c - a + 1)
        BY <1>2, <2>1, <2>3
      <4> HIDE DEF q
      <4> QED BY <4>1
    <3>2. r[k] = IF c + 1 + k - 1 \in S /\ t[c + 1 + k - 1] = OldLetter THEN n ELSE <<t[c + 1 + k - 1]>>
      BY <3>1 DEF Pieces
    <3> QED BY <2>1, <2>3, <3>1, <3>2
  <2> QED BY <2>2, <2>3
<1> HIDE DEF p, q, r
<1>5. p = q \o r
  <2>1. q \o r \in Seq(Text) /\ Len(q \o r) = Len(p)
    BY <1>1, <1>2, <1>3, Joined2
  <2>2. \A i \in 1..Len(p) : (q \o r)[i] = IF i <= Len(q) THEN q[i] ELSE r[i - Len(q)]
    BY <1>1, <1>2, <1>3
  <2> QED BY <1>1, <1>4, <2>1, <2>2, SeqEqual
<1> QED BY <1>2, <1>3, <1>5, FlattenJoin DEF Part, Glue, p, q, r

LEMMA PartSame ==
  ASSUME NEW t, NEW n, NEW S, NEW U, NEW a \in Nat, NEW b \in Nat, \A i \in a..b : i \in S <=> i \in U
  PROVE  Part(t, S, n, a, b) = Part(t, U, n, a, b)
<1>1. \A i \in 1..b - a + 1 : a + i - 1 \in a..b
  OBVIOUS
<1>2. \A i \in 1..b - a + 1 : a + i - 1 \in S <=> a + i - 1 \in U
  BY <1>1
<1>3. Pieces(t, S, n, a, b) = Pieces(t, U, n, a, b)
  BY <1>2 DEF Pieces
<1> QED BY <1>3 DEF Part

LEMMA FlattenSingles ==
  ASSUME NEW t \in Text
  PROVE  FlattenSeq([i \in 1..Len(t) |-> <<t[i]>>]) = t
<1> DEFINE Bad == {n \in Nat : \E u \in Text : Len(u) = n /\ FlattenSeq([i \in 1..Len(u) |-> <<u[i]>>]) # u}
<1> SUFFICES ASSUME Bad # {} PROVE FALSE
  BY LenProperties DEF Text
<1>1. PICK n \in Bad : \A j \in Bad : n <= j
  <2>1. Bad \in SUBSET Nat
    OBVIOUS
  <2> HIDE DEF Bad
  <2> QED BY <2>1, LeastNumber
<1>2. PICK u \in Text : Len(u) = n /\ FlattenSeq([i \in 1..Len(u) |-> <<u[i]>>]) # u
  OBVIOUS
<1>3. CASE n = 0
  <2>1. u = <<>>
    BY <1>2, <1>3, EmptySeq DEF Text
  <2>2. [i \in 1..Len(u) |-> <<u[i]>>] = <<>>
    BY <2>1
  <2>3. FlattenSeq(<<>>) = <<>>
    BY FlattenNone, EmptySeq
  <2> QED BY <1>2, <2>1, <2>2, <2>3
<1>4. CASE n # 0
  <2> DEFINE v == SubSeq(u, 1, n - 1)
             e == u[n]
  <2>1. n \in Nat /\ n >= 1 /\ n \in 1..Len(u)
    BY <1>2, <1>4, LenProperties DEF Text
  <2>2. v \in Text /\ Len(v) = n - 1 /\ e \in Tokens /\ u = Append(v, e) /\ \A i \in 1..n - 1 : v[i] = u[i]
    <3>1. \A i \in 1..n : u[i] \in Tokens
      BY <1>2, <2>1, ElementOfSeq DEF Text
    <3>2. \A i \in 1..n - 1 : u[i] \in Tokens
      BY <2>1, <3>1
    <3>3. v \in Text /\ Len(v) = n - 1 /\ \A i \in 1..n - 1 : v[i] = u[i]
      BY <2>1, <3>2, SubSeqProperties DEF Text
    <3>4. e \in Tokens /\ SubSeq(u, 1, n) = u /\ SubSeq(u, 1, n) = v \o <<e>>
      BY <1>2, <2>1, <3>1, SubSeqFull, SubSeqRecursiveSecond DEF Text
    <3> HIDE DEF v, e
    <3>5. Append(v, e) = v \o <<e>>
      BY <3>3, <3>4, AppendIsConcat DEF Text
    <3> QED BY <3>3, <3>4, <3>5
  <2> HIDE DEF v, e
  <2>3. n - 1 \in Nat /\ ~(n <= n - 1) /\ n - 1 \notin Bad
    <3>1. n - 1 \in Nat /\ ~(n <= n - 1)
      BY <2>1
    <3> HIDE DEF Bad
    <3> QED BY <1>1, <3>1
  <2> DEFINE pv == [i \in 1..Len(v) |-> <<v[i]>>]
             pu == [i \in 1..Len(u) |-> <<u[i]>>]
  <2>4. FlattenSeq(pv) = v
    BY <2>2, <2>3
  <2> HIDE DEF Bad, e
  <2>5. pv \in Seq(Text) /\ <<e>> \in Text
    <3>1. \A i \in 1..Len(v) : v[i] \in Tokens
      BY <2>2, ElementOfSeq DEF Text
    <3>2. \A i \in 1..Len(v) : <<v[i]>> \in Text
      BY <3>1, Single DEF Text
    <3>3. Len(v) \in Nat
      BY <2>2, <2>3
    <3>4. pv \in [1..Len(v) -> Text]
      BY <3>2
    <3>5. <<e>> \in Text
      BY <2>2, Single DEF Text
    <3> HIDE DEF pv
    <3> QED BY <3>3, <3>4, <3>5, RowIsSeq
  <2>6. pu = Append(pv, <<e>>)
    <3>1. Append(pv, <<e>>) = [i \in 1..Len(v) + 1 |-> IF i = Len(v) + 1 THEN <<e>> ELSE pv[i]]
      BY <2>2, <2>3, <2>5
    <3>2. Len(u) = Len(v) + 1
      BY <1>2, <2>1, <2>2
    <3>3. \A i \in 1..Len(v) + 1 : <<u[i]>> = IF i = Len(v) + 1 THEN <<e>> ELSE pv[i]
      BY <2>1, <2>2, <2>3 DEF e
    <3> QED BY <3>1, <3>2, <3>3
  <2> HIDE DEF pu, pv
  <2>7. FlattenSeq(pu) = FlattenSeq(pv) \o <<e>>
    BY <2>5, <2>6, FlattenMore
  <2>8. v \o <<e>> = u
    BY <2>2, AppendIsConcat DEF Text
  <2> QED BY <1>2, <2>4, <2>7, <2>8 DEF pu
<1> QED BY <1>3, <1>4

LEMMA TextSize == ASSUME NEW t \in Text PROVE Size(t) \in Nat /\ \A i \in 1..Size(t) : t[i] \in Tokens
BY ElementOfSeq, LenProperties DEF Text, Size

LEMMA CutIs ==
  ASSUME NEW t \in Text, NEW a \in Nat, a >= 1, NEW b \in Nat, b <= Size(t), a <= b + 1
  PROVE  /\ Cut(t, a, b) \in Text /\ Size(Cut(t, a, b)) = b - a + 1
         /\ \A i \in 1..b - a + 1 : Cut(t, a, b)[i] = t[a + i - 1]
<1>1. \A i \in a..b : t[i] \in Tokens
  <2>1. \A i \in a..b : i \in 1..Size(t)
    BY TextSize
  <2> QED BY <2>1, TextSize
<1>2. PICK c : c = SubSeq(t, a, b)
  OBVIOUS
<1>3. c \in Seq(Tokens) /\ Len(c) = (IF a <= b THEN b - a + 1 ELSE 0) /\ \A i \in 1..b - a + 1 : c[i] = t[a + i - 1]
  BY <1>1, <1>2, SubSeqProperties
<1>4. Len(c) = b - a + 1
  BY <1>3
<1>5. Cut(t, a, b) = c
  BY <1>2, Zenon DEF Cut
<1> QED BY <1>3, <1>4, <1>5 DEF Text, Size

LEMMA GlueIs ==
  ASSUME NEW u \in Text, NEW v \in Text
  PROVE  /\ Glue(u, v) \in Text /\ Size(Glue(u, v)) = Size(u) + Size(v)
         /\ \A i \in 1..Size(u) + Size(v) : Glue(u, v)[i] = IF i <= Size(u) THEN u[i] ELSE v[i - Size(u)]
BY ConcatProperties DEF Text, Glue, Size

LEMMA TextsEqual == ASSUME NEW u \in Text, NEW v \in Text, Size(u) = Size(v), \A i \in 1..Size(u) : u[i] = v[i] PROVE u = v
BY SeqEqual DEF Text, Size

LEMMA CutWhole == ASSUME NEW t \in Text PROVE Cut(t, 1, Size(t)) = t
BY SubSeqFull DEF Text, Cut, Size

\* What stands before and behind the join of two texts, and what a cut text is made of.
LEMMA BeforeGlue ==
  ASSUME NEW u \in Text, NEW v \in Text, NEW i \in Nat, i >= 1, NEW j \in Nat, i <= j + 1, j <= Size(u)
  PROVE  Cut(Glue(u, v), i, j) = Cut(u, i, j)
<1>1. Size(u) \in Nat /\ Size(v) \in Nat
  BY TextSize
<1>2. Glue(u, v) \in Text /\ j <= Size(Glue(u, v))
  BY <1>1, GlueIs
<1>3. \A k \in 1..j : Glue(u, v)[k] = u[k]
  <2>1. \A k \in 1..j : k \in 1..Size(u) + Size(v) /\ k <= Size(u)
    BY <1>1
  <2> QED BY <2>1, GlueIs
<1>4. PICK c : c = Cut(Glue(u, v), i, j)
  OBVIOUS
<1>5. PICK d : d = Cut(u, i, j)
  OBVIOUS
<1>6. c \in Text /\ Size(c) = j - i + 1 /\ \A k \in 1..j - i + 1 : c[k] = Glue(u, v)[i + k - 1]
  BY <1>2, <1>4, CutIs
<1>7. d \in Text /\ Size(d) = j - i + 1 /\ \A k \in 1..j - i + 1 : d[k] = u[i + k - 1]
  BY <1>5, CutIs
<1>8. \A k \in 1..j - i + 1 : i + k - 1 \in 1..j
  OBVIOUS
<1>9. \A k \in 1..Size(c) : c[k] = d[k]
  BY <1>3, <1>6, <1>7, <1>8
<1> QED BY <1>4, <1>5, <1>6, <1>7, <1>9, TextsEqual

LEMMA BehindGlue ==
  ASSUME NEW u \in Text, NEW v \in Text, NEW i \in Nat, i >= 1, NEW j \in Nat, i <= j + 1, j <= Size(v), NEW a \in Nat, a = Size(u) + i,
         NEW b \in Nat, b = Size(u) + j
  PROVE  Cut(Glue(u, v), a, b) = Cut(v, i, j)
<1>1. Size(u) \in Nat /\ Size(v) \in Nat
  BY TextSize
<1>2. Glue(u, v) \in Text /\ b <= Size(Glue(u, v)) /\ a >= 1 /\ a <= b + 1 /\ b - a + 1 = j - i + 1
  BY <1>1, GlueIs
<1>3. \A k \in 1..j : Glue(u, v)[Size(u) + k] = v[k]
  <2>1. \A k \in 1..j : Size(u) + k \in 1..Size(u) + Size(v) /\ ~(Size(u) + k <= Size(u)) /\ Size(u) + k - Size(u) = k
    BY <1>1
  <2>2. \A m \in 1..Size(u) + Size(v) : ~(m <= Size(u)) => Glue(u, v)[m] = v[m - Size(u)]
    BY <1>1, GlueIs
  <2>3. ASSUME NEW k \in 1..j PROVE Glue(u, v)[Size(u) + k] = v[k]
    <3>1. PICK m \in 1..Size(u) + Size(v) : m = Size(u) + k /\ ~(m <= Size(u)) /\ m - Size(u) = k
      BY <1>1
    <3> QED BY <2>2, <3>1
  <2> QED BY <2>3
<1>4. PICK c : c = Cut(Glue(u, v), a, b)
  OBVIOUS
<1>5. PICK d : d = Cut(v, i, j)
  OBVIOUS
<1>6. c \in Text /\ Size(c) = j - i + 1 /\ \A k \in 1..j - i + 1 : c[k] = Glue(u, v)[a + k - 1]
  <2>1. c \in Text /\ Size(c) = b - a + 1 /\ \A k \in 1..b - a + 1 : c[k] = Glue(u, v)[a + k - 1]
    <3>1. PICK w \in Text : w = Glue(u, v) /\ b <= Size(w)
      BY <1>2
    <3>2. a >= 1 /\ a <= b + 1
      BY <1>2
    <3>3. \A x, y \in Nat : x >= 1 /\ y <= Size(w) /\ x <= y + 1
            => /\ Cut(w, x, y) \in Text /\ Size(Cut(w, x, y)) = y - x + 1
               /\ \A k \in 1..y - x + 1 : Cut(w, x, y)[k] = w[x + k - 1]
      BY CutIs
    <3>4. Cut(w, a, b) \in Text /\ Size(Cut(w, a, b)) = b - a + 1 /\ \A k \in 1..b - a + 1 : Cut(w, a, b)[k] = w[a + k - 1]
      BY <3>1, <3>2, <3>3, Zenon
    <3> QED BY <1>4, <3>1, <3>4, Zenon
  <2> QED BY <1>2, <2>1
<1>7. d \in Text /\ Size(d) = j - i + 1 /\ \A k \in 1..j - i + 1 : d[k] = v[i + k - 1]
  BY <1>5, CutIs
<1>8. ASSUME NEW k \in 1..Size(c) PROVE c[k] = d[k]
  <2>1. k \in 1..j - i + 1
    BY <1>6
  <2>2. PICK m \in 1..j : m = i + k - 1 /\ Size(u) + m = a + k - 1
    BY <1>1, <2>1
  <2>3. c[k] = Glue(u, v)[Size(u) + m] /\ d[k] = v[m]
    BY <1>6, <1>7, <2>1, <2>2
  <2> QED BY <1>3, <2>3
<1> QED BY <1>4, <1>5, <1>6, <1>7, <1>8, TextsEqual

\* A text is what stands up to a place and what stands behind it.
LEMMA Broken ==
  ASSUME NEW t \in Text, NEW b \in Nat, b <= Size(t), NEW d \in Nat, d = b + 1
  PROVE  /\ Cut(t, 1, b) \in Text /\ Size(Cut(t, 1, b)) = b
         /\ Cut(t, d, Size(t)) \in Text /\ Size(Cut(t, d, Size(t))) = Size(t) - b
         /\ t = Glue(Cut(t, 1, b), Cut(t, d, Size(t)))
<1>1. PICK L \in Nat : L = Size(t) /\ L <= Size(t) /\ d >= 1 /\ d <= L + 1
  BY TextSize
<1>2. PICK o \in Nat : o = 1 /\ o >= 1 /\ o <= b + 1
  OBVIOUS
<1>3. PICK u : u = Cut(t, o, b)
  OBVIOUS
<1>4. PICK v : v = Cut(t, d, L)
  OBVIOUS
<1>5. u \in Text /\ Size(u) = b - o + 1 /\ \A i \in 1..b - o + 1 : u[i] = t[o + i - 1]
  BY <1>2, <1>3, CutIs
<1>6. v \in Text /\ Size(v) = L - d + 1 /\ \A i \in 1..L - d + 1 : v[i] = t[d + i - 1]
  BY <1>1, <1>4, CutIs
<1>7. Size(u) = b /\ \A i \in 1..b : u[i] = t[i]
  <2>1. b - o + 1 = b /\ \A i \in 1..b : o + i - 1 = i
    BY <1>2
  <2> QED BY <1>5, <2>1
<1>8. Size(v) = L - b /\ \A i \in 1..L - b : v[i] = t[b + i]
  <2>1. L - d + 1 = L - b /\ \A i \in 1..L - b : d + i - 1 = b + i
    BY <1>1
  <2> QED BY <1>6, <2>1
<1>9. t = Glue(u, v)
  <2>1. Glue(u, v) \in Text /\ Size(Glue(u, v)) = L /\ \A i \in 1..L : Glue(u, v)[i] = IF i <= b THEN u[i] ELSE v[i - b]
    <3>1. Size(u) + Size(v) = L
      BY <1>1, <1>7, <1>8
    <3> QED BY <1>5, <1>6, <1>7, <3>1, GlueIs
  <2>2. ASSUME NEW i \in 1..L PROVE Glue(u, v)[i] = t[i]
    <3>1. CASE i <= b
      <4>1. i \in 1..b
        BY <3>1
      <4> QED BY <1>7, <2>1, <3>1, <4>1
    <3>2. CASE ~(i <= b)
      <4>1. PICK k \in 1..L - b : k = i - b /\ b + k = i
        BY <3>2
      <4> QED BY <1>8, <2>1, <3>2, <4>1
    <3> QED BY <3>1, <3>2
  <2> QED BY <1>1, <2>1, <2>2, TextsEqual
<1> QED BY <1>1, <1>2, <1>3, <1>4, <1>5, <1>6, <1>7, <1>8, <1>9

LEMMA CutOfFirst ==
  ASSUME NEW t \in Text, NEW b \in Nat, b <= Size(t), NEW i \in Nat, i >= 1, NEW j \in Nat, i <= j + 1, j <= b
  PROVE  Cut(Cut(t, 1, b), i, j) = Cut(t, i, j)
<1>1. PICK d \in Nat : d = b + 1
  OBVIOUS
<1>2. PICK u \in Text : u = Cut(t, 1, b)
  BY <1>1, Broken
<1>3. PICK v \in Text : v = Cut(t, d, Size(t))
  BY <1>1, Broken
<1>4. t = Glue(u, v) /\ Size(u) = b
  BY <1>1, <1>2, <1>3, Broken
<1> QED BY <1>2, <1>4, BeforeGlue
-----------------------------------------------------------------------------
(* Refactoring: a text with some of its places renamed                     *)

LEMMA PartTyped ==
  ASSUME NEW t \in Text, NEW n \in Text, NEW S, NEW a \in Nat, a >= 1, NEW b \in Nat, b <= Size(t), a <= b + 1
  PROVE  Part(t, S, n, a, b) \in Text
BY PiecesTyped DEF Size

LEMMA PartJoined ==
  ASSUME NEW t \in Text, NEW n \in Text, NEW S, NEW a \in Nat, a >= 1, NEW b \in Nat, b <= Size(t),
         NEW c \in Nat, a <= c + 1, c <= b, NEW d \in Nat, d = c + 1
  PROVE  Part(t, S, n, a, b) = Glue(Part(t, S, n, a, c), Part(t, S, n, d, b))
<1>1. b <= Len(t)
  BY DEF Size
<1>2. Part(t, S, n, a, b) = Glue(Part(t, S, n, a, c), Part(t, S, n, c + 1, b))
  BY <1>1, PartSplit
<1> QED BY <1>2, Zenon

\* Where nothing is replaced, a part is a part of the text.
LEMMA PartPlain ==
  ASSUME NEW t \in Text, NEW n \in Text, NEW S, NEW a \in Nat, a >= 1, NEW b \in Nat, b <= Size(t), a <= b + 1,
         \A i \in a..b : i \notin S
  PROVE  Part(t, S, n, a, b) = Cut(t, a, b)
<1>1. PICK u \in Text : u = Cut(t, a, b)
  BY CutIs
<1>2. Size(u) = b - a + 1 /\ \A i \in 1..b - a + 1 : u[i] = t[a + i - 1]
  BY <1>1, CutIs
<1>3. \A i \in 1..b - a + 1 : a + i - 1 \in a..b
  OBVIOUS
<1>4. Pieces(t, S, n, a, b) = [i \in 1..Size(u) |-> <<u[i]>>]
  BY <1>2, <1>3 DEF Pieces
<1>5. FlattenSeq(Pieces(t, S, n, a, b)) = u
  BY <1>4, FlattenSingles, Zenon DEF Size
<1> QED BY <1>1, <1>5, Zenon DEF Part

\* str::replace of a chunk.
LEMMA ReplacedIs ==
  ASSUME NEW t \in Text, NEW n \in Text, NEW S, NEW a \in Nat, a >= 1, NEW b \in Nat, b <= Size(t), a <= b + 1,
         \A i \in a..b : i \in S
  PROVE  Replaced(Cut(t, a, b), n) = Part(t, S, n, a, b)
<1>1. PICK u \in Text : u = Cut(t, a, b)
  BY CutIs
<1>2. Size(u) = b - a + 1 /\ \A i \in 1..b - a + 1 : u[i] = t[a + i - 1]
  BY <1>1, CutIs
<1>3. DOMAIN u = 1..b - a + 1
  BY <1>2, LenProperties DEF Text, Size
<1>4. \A i \in 1..b - a + 1 : a + i - 1 \in a..b
  OBVIOUS
<1>5. \A i \in 1..b - a + 1 : a + i - 1 \in S
  BY <1>4
<1>6. Pieces(t, S, n, a, b) = [i \in DOMAIN u |-> IF u[i] = OldLetter THEN n ELSE <<u[i]>>]
  BY <1>2, <1>3, <1>5 DEF Pieces
<1>7. Replaced(u, n) = FlattenSeq(Pieces(t, S, n, a, b))
  BY <1>6, Zenon DEF Replaced
<1> QED BY <1>1, <1>7, Zenon DEF Part

\* Renaming the place at the end of what stands before x.
LEMMA RenameIn ==
  ASSUME NEW h \in Text, NEW x \in Text, NEW n \in Text, NEW p, p.from \in Nat, p.from >= 1, p.to \in Nat, p.from <= p.to,
         p.to = Size(h), Replaced(Cut(h, p.from, p.to), n) \in Text
  PROVE  RenameAt(Glue(h, x), p, n) = Glue(Glue(Cut(h, 1, p.from - 1), Replaced(Cut(h, p.from, p.to), n)), x)
<1>1. Size(h) \in Nat /\ Size(x) \in Nat /\ Glue(h, x) \in Text /\ Size(Glue(h, x)) = Size(h) + Size(x)
  BY TextSize, GlueIs
<1>2. PICK a \in Nat : a = p.from
  OBVIOUS
<1>3. PICK b \in Nat : b = p.to
  OBVIOUS
<1>4. PICK k \in Nat : k = a - 1 /\ k <= Size(h)
  BY <1>1, <1>2, <1>3
<1>5. Cut(Glue(h, x), 1, k) = Cut(h, 1, k)
  BY <1>4, BeforeGlue
<1>6. Cut(Glue(h, x), a, b) = Cut(h, a, b)
  <2>1. a >= 1 /\ b <= Size(h) /\ a <= b + 1
    BY <1>1, <1>2, <1>3
  <2> QED BY <2>1, BeforeGlue
<1>7. PICK d \in Nat : d = b + 1
  OBVIOUS
<1>8. PICK L \in Nat : L = Size(Glue(h, x))
  BY <1>1
<1>9. Cut(Glue(h, x), d, L) = x
  <2>1. PICK m \in Nat : m = Size(x) /\ m <= Size(x) /\ d = Size(h) + 1 /\ L = Size(h) + m
    BY <1>1, <1>3, <1>7, <1>8
  <2>2. PICK o \in Nat : o = 1 /\ o >= 1 /\ d = Size(h) + o
    BY <2>1
  <2>3. Cut(Glue(h, x), d, L) = Cut(x, o, m)
    BY <2>1, <2>2, BehindGlue
  <2>4. Cut(Glue(h, x), d, L) = Cut(x, 1, Size(x))
    BY <2>1, <2>2, <2>3
  <2> QED BY <2>4, CutWhole
<1>10. ~(p.from > Size(Glue(h, x)) \/ p.to > Size(Glue(h, x)))
  BY <1>1, <1>2, <1>3
<1>11. RenameAt(Glue(h, x), p, n) = Glue(Glue(Cut(Glue(h, x), 1, k), Replaced(Cut(Glue(h, x), a, b), n)), Cut(Glue(h, x), d, L))
  BY <1>2, <1>3, <1>4, <1>7, <1>8, <1>10, Zenon DEF RenameAt, Cut, Glue, Size
<1> QED BY <1>2, <1>3, <1>4, <1>5, <1>6, <1>9, <1>11, Zenon

\* A part that begins with a plain one, followed by one where everything is replaced.
LEMMA PartOfThree ==
  ASSUME NEW t \in Text, NEW n \in Text, NEW U, NEW a \in Nat, a >= 1, NEW b \in Nat, a <= b, b <= Size(t),
         \A i \in 1..a - 1 : i \notin U, \A i \in a..b : i \in U
  PROVE  /\ Replaced(Cut(t, a, b), n) \in Text
         /\ Part(t, U, n, 1, Size(t)) = Glue(Glue(Cut(t, 1, a - 1), Replaced(Cut(t, a, b), n)), Part(t, U, n, b + 1, Size(t)))
<1>1. PICK k \in Nat : k = a - 1 /\ k + 1 = a /\ k <= b /\ k <= Size(t)
  BY TextSize
<1>2. PICK L \in Nat : L = Size(t) /\ L <= Size(t) /\ b <= L
  BY TextSize
<1>3. PICK o \in Nat : o = 1 /\ o >= 1 /\ o <= b + 1 /\ o <= k + 1
  OBVIOUS
<1>4. Part(t, U, n, o, L) = Glue(Part(t, U, n, o, b), Part(t, U, n, b + 1, L))
  BY <1>2, <1>3, PartJoined
<1>5. Part(t, U, n, o, b) = Glue(Part(t, U, n, o, k), Part(t, U, n, a, b))
  BY <1>1, <1>3, PartJoined
<1>6. Part(t, U, n, o, k) = Cut(t, o, k)
  <2>1. \A i \in o..k : i \notin U
    BY <1>1, <1>3
  <2> QED BY <1>1, <1>3, <2>1, PartPlain
<1>7. Replaced(Cut(t, a, b), n) = Part(t, U, n, a, b) /\ Part(t, U, n, a, b) \in Text
  <2>1. a <= b + 1
    OBVIOUS
  <2> QED BY <2>1, ReplacedIs, PartTyped
<1> QED BY <1>1, <1>2, <1>3, <1>4, <1>5, <1>6, <1>7

\* Renaming a place before all that has been renamed.
LEMMA RenameBefore ==
  ASSUME NEW t \in Text, NEW n \in Text, NEW S, NEW p, p.from \in Nat, p.from >= 1, p.to \in Nat, p.from <= p.to,
         p.to <= Size(t), \A i \in 1..p.to : i \notin S
  PROVE  RenameAt(Part(t, S, n, 1, Size(t)), p, n) = Part(t, S \cup (p.from..p.to), n, 1, Size(t))
<1>1. PICK a \in Nat : a = p.from
  OBVIOUS
<1>2. PICK b \in Nat : b = p.to
  OBVIOUS
<1>3. PICK L \in Nat : L = Size(t) /\ L <= Size(t) /\ b <= L
  BY <1>2, TextSize
<1>4. PICK d \in Nat : d = b + 1 /\ d >= 1 /\ d <= L + 1
  BY <1>3
<1>5. PICK o \in Nat : o = 1 /\ o >= 1 /\ o <= b + 1
  OBVIOUS
<1>6. PICK h \in Text : h = Cut(t, 1, b) /\ Size(h) = b
  BY <1>3, <1>4, Broken
<1>7. PICK x \in Text : x = Part(t, S, n, d, L)
  BY <1>3, <1>4, PartTyped
<1>8. Part(t, S, n, o, L) = Glue(h, x)
  <2>1. Part(t, S, n, o, L) = Glue(Part(t, S, n, o, b), Part(t, S, n, d, L))
    BY <1>3, <1>4, <1>5, PartJoined
  <2>2. Part(t, S, n, o, b) = Cut(t, o, b)
    <3>1. b <= Size(t) /\ \A i \in o..b : i \notin S
      BY <1>2, <1>3, <1>5
    <3> QED BY <1>5, <3>1, PartPlain
  <2> QED BY <1>4, <1>5, <1>6, <1>7, <2>1, <2>2
<1>9. Cut(h, 1, a - 1) = Cut(t, 1, a - 1) /\ Cut(h, a, b) = Cut(t, a, b)
  <2>1. PICK k \in Nat : k = a - 1 /\ k <= b
    BY <1>1, <1>2
  <2>2. a >= 1 /\ a <= b + 1 /\ b <= Size(t) /\ b <= b
    BY <1>1, <1>2, <1>3
  <2>3. Cut(Cut(t, 1, b), o, k) = Cut(t, o, k)
    <3>1. o <= k + 1
      BY <1>5
    <3> QED BY <1>5, <2>1, <2>2, <3>1, CutOfFirst
  <2>4. Cut(Cut(t, 1, b), a, b) = Cut(t, a, b)
    BY <2>2, CutOfFirst
  <2> QED BY <1>5, <1>6, <2>1, <2>3, <2>4
<1>10. PICK U : U = S \cup (a..b)
  OBVIOUS
<1>11. /\ Replaced(Cut(t, a, b), n) \in Text
       /\ Part(t, U, n, 1, L) = Glue(Glue(Cut(t, 1, a - 1), Replaced(Cut(t, a, b), n)), Part(t, U, n, b + 1, L))
  <2>1. a >= 1 /\ a <= b /\ b <= Size(t) /\ (\A i \in 1..a - 1 : i \notin U) /\ \A i \in a..b : i \in U
    BY <1>1, <1>2, <1>3, <1>10
  <2> QED BY <1>3, <2>1, PartOfThree
<1>12. Part(t, U, n, d, L) = x
  <2>1. \A i \in d..L : i \in S <=> i \in U
    BY <1>4, <1>10
  <2> QED BY <1>3, <1>4, <1>7, <2>1, PartSame
<1>13. RenameAt(Glue(h, x), p, n) = Glue(Glue(Cut(h, 1, a - 1), Replaced(Cut(h, a, b), n)), x)
  <2>1. p.to = Size(h) /\ Replaced(Cut(h, p.from, p.to), n) \in Text
    BY <1>1, <1>2, <1>6, <1>9, <1>11
  <2> QED BY <1>1, <1>2, <2>1, RenameIn
<1>14. RenameAt(Part(t, S, n, o, L), p, n) = Part(t, U, n, o, L)
  BY <1>4, <1>5, <1>8, <1>9, <1>11, <1>12, <1>13
<1> QED BY <1>1, <1>2, <1>3, <1>5, <1>10, <1>14

-----------------------------------------------------------------------------
(* Refactoring: places in the order in which they are renamed              *)

IsOrder(ps, o) == o \in [1..Cardinality(ps) -> ps] /\ \A i, j \in 1..Cardinality(ps) : i < j => o[i] # o[j] /\ o[i].from >= o[j].from

LEMMA OrderExists ==
  ASSUME NEW qs, IsFiniteSet(qs), \A p \in qs : p.from \in Nat
  PROVE  \E o : IsOrder(qs, o)
<1> DEFINE Bad == {n \in Nat : \E ps \in SUBSET qs : Cardinality(ps) = n /\ ~\E o : IsOrder(ps, o)}
<1> SUFFICES ASSUME Bad # {} PROVE FALSE
  BY FS_CardinalityType
<1>1. PICK n \in Bad : \A j \in Bad : n <= j
  <2>1. Bad \in SUBSET Nat
    OBVIOUS
  <2> HIDE DEF Bad
  <2> QED BY <2>1, LeastNumber
<1>2. PICK ps \in SUBSET qs : Cardinality(ps) = n /\ ~\E o : IsOrder(ps, o)
  OBVIOUS
<1>3. IsFiniteSet(ps) /\ n \in Nat
  BY <1>2, FS_Subset
<1>4. ps # {}
  <2>1. SUFFICES ASSUME ps = {} PROVE FALSE
    OBVIOUS
  <2>2. Cardinality(ps) = 0
    BY <2>1, FS_EmptySet
  <2>3. [i \in 1..0 |-> 0] \in [1..0 -> ps]
    OBVIOUS
  <2>4. IsOrder(ps, [i \in 1..0 |-> 0])
    BY <2>2, <2>3 DEF IsOrder
  <2> QED BY <1>2, <2>4
<1>5. PICK p \in ps : \A q \in ps : p.from <= q.from
  <2> DEFINE Starts == {q.from : q \in ps}
  <2>1. Starts \in SUBSET Nat /\ Starts # {}
    BY <1>4
  <2>2. PICK s \in Starts : \A r \in Starts : s <= r
    <3> HIDE DEF Starts
    <3> QED BY <2>1, LeastNumber
  <2> QED BY <2>2
<1>6. Cardinality(ps \ {p}) = n - 1 /\ n - 1 \in Nat /\ ~(n <= n - 1) /\ ps \ {p} \in SUBSET qs
  <2>1. Cardinality(ps \ {p}) = n - 1 /\ IsFiniteSet(ps \ {p})
    BY <1>2, <1>3, FS_RemoveElement
  <2>2. Cardinality(ps \ {p}) \in Nat
    BY <2>1, FS_CardinalityType
  <2> QED BY <1>3, <2>1, <2>2
<1>7. PICK o : IsOrder(ps \ {p}, o)
  BY <1>1, <1>6
<1> DEFINE r == [i \in 1..n |-> IF i = n THEN p ELSE o[i]]
<1>8. o \in [1..n - 1 -> ps \ {p}] /\ \A i, j \in 1..n - 1 : i < j => o[i] # o[j] /\ o[i].from >= o[j].from
  BY <1>6, <1>7 DEF IsOrder
<1>9. \A i \in 1..n : i # n => i \in 1..n - 1 /\ o[i] \in ps /\ o[i] # p
  BY <1>3, <1>8
<1>10. r \in [1..n -> ps]
  BY <1>9
<1>11. ASSUME NEW i \in 1..n, NEW j \in 1..n, i < j PROVE r[i] # r[j] /\ r[i].from >= r[j].from
  <2>1. i # n /\ i \in 1..n - 1
    BY <1>3, <1>11
  <2>2. CASE j = n
    BY <1>5, <1>9, <2>1, <2>2
  <2>3. CASE j # n
    BY <1>8, <1>9, <1>11, <2>1, <2>3
  <2> QED BY <2>2, <2>3
<1>12. IsOrder(ps, r)
  <2> HIDE DEF r
  <2> QED BY <1>2, <1>10, <1>11 DEF IsOrder
<1> QED BY <1>2, <1>12

LEMMA OrderFound ==
  ASSUME NEW ps, IsFiniteSet(ps), \A p \in ps : p.from \in Nat
  PROVE  IsOrder(ps, PlacesInOrder(ps)) /\ \A p \in ps : \E i \in 1..Cardinality(ps) : PlacesInOrder(ps)[i] = p
<1> DEFINE o == PlacesInOrder(ps)
           N == Cardinality(ps)
<1>1. \E q \in [1..N -> ps] : \A i, j \in DOMAIN q : i < j => q[i] # q[j] /\ q[i].from >= q[j].from
  <2>1. PICK q : IsOrder(ps, q)
    BY OrderExists
  <2> QED BY <2>1 DEF IsOrder
<1>2. o \in [1..N -> ps] /\ \A i, j \in DOMAIN o : i < j => o[i] # o[j] /\ o[i].from >= o[j].from
  BY <1>1 DEF PlacesInOrder
<1>3. IsOrder(ps, o)
  <2> HIDE DEF o
  <2> QED BY <1>2 DEF IsOrder
<1>4. N \in Nat
  BY FS_CardinalityType
<1>5. \A i, j \in 1..N : i # j => o[i] # o[j]
  <2> HIDE DEF o, N
  <2>1. \A i, j \in 1..N : i < j => o[i] # o[j]
    BY <1>2
  <2>2. \A i, j \in 1..N : i # j => i < j \/ j < i
    BY <1>4
  <2> QED BY <2>1, <2>2
<1>6. \A p \in ps : \E i \in 1..N : o[i] = p
  <2> HIDE DEF o
  <2>1. o \in Injection(1..N, ps)
    BY <1>2, <1>5 DEF Injection, IsInjective
  <2>2. IsFiniteSet(1..N) /\ Cardinality(1..N) = N
    BY <1>4, FS_Interval
  <2>3. o \in Surjection(1..N, ps)
    BY <2>1, <2>2, FS_Injection
  <2> QED BY <2>3 DEF Surjection
<1> QED BY <1>3, <1>6

-----------------------------------------------------------------------------
(* Refactoring: one place after another                                    *)

After(t, o, n, f, k) == IF k = 0 THEN t ELSE RenameAt(f[k - 1], o[k], n)
IsFold(t, o, n, m, f) == f = [k \in 0..m |-> After(t, o, n, f, k)]

LEMMA FoldsExist == ASSUME NEW t, NEW o, NEW n, NEW N \in Nat PROVE \E f : IsFold(t, o, n, N, f)
<1> DEFINE Bad == {m \in Nat : ~\E f : IsFold(t, o, n, m, f)}
<1> SUFFICES ASSUME Bad # {} PROVE FALSE
  OBVIOUS
<1>1. PICK m \in Bad : \A j \in Bad : m <= j
  <2>1. Bad \in SUBSET Nat
    OBVIOUS
  <2> HIDE DEF Bad
  <2> QED BY <2>1, LeastNumber
<1>2. m \in Nat /\ ~\E f : IsFold(t, o, n, m, f)
  OBVIOUS
<1>3. CASE m = 0
  <2> DEFINE f == [k \in 0..0 |-> t]
  <2>1. f = [k \in 0..0 |-> After(t, o, n, f, k)]
    <3>1. \A k \in 0..0 : After(t, o, n, f, k) = t
      BY DEF After
    <3> QED BY <3>1
  <2> QED BY <1>2, <1>3, <2>1 DEF IsFold
<1>4. CASE m # 0
  <2>1. m - 1 \in Nat /\ ~(m <= m - 1)
    BY <1>2, <1>4
  <2>2. PICK f : IsFold(t, o, n, m - 1, f)
    BY <1>1, <2>1
  <2> DEFINE g == [k \in 0..m |-> After(t, o, n, f, k)]
  <2>3. \A k \in 0..m - 1 : f[k] = g[k]
    <3>1. \A k \in 0..m - 1 : f[k] = After(t, o, n, f, k) /\ k \in 0..m
      BY <1>2, <2>1, <2>2 DEF IsFold
    <3> QED BY <3>1
  <2>4. ASSUME NEW k \in 0..m PROVE After(t, o, n, f, k) = After(t, o, n, g, k)
    <3> HIDE DEF g
    <3>1. k # 0 => k - 1 \in 0..m - 1
      BY <1>2
    <3> QED BY <2>3, <3>1 DEF After
  <2>5. g = [k \in 0..m |-> After(t, o, n, g, k)]
    BY <2>4
  <2> QED BY <1>2, <2>5 DEF IsFold
<1> QED BY <1>3, <1>4

LEMMA AppliedIs ==
  ASSUME NEW t, NEW ps, IsFiniteSet(ps), NEW n
  PROVE  \E f : IsFold(t, PlacesInOrder(ps), n, Cardinality(ps), f) /\ Applied(t, ps, n) = f[Cardinality(ps)]
<1> DEFINE fold == CHOOSE f : f = [k \in 0..Cardinality(ps) |-> IF k = 0 THEN t ELSE RenameAt(f[k - 1], PlacesInOrder(ps)[k], n)]
<1>1. Cardinality(ps) \in Nat
  BY FS_CardinalityType
<1>2. IsFold(t, PlacesInOrder(ps), n, Cardinality(ps), fold)
  BY <1>1, FoldsExist DEF IsFold, After
<1>3. Applied(t, ps, n) = fold[Cardinality(ps)]
  BY DEF Applied
<1> HIDE DEF fold
<1> QED BY <1>2, <1>3

LEMMA FoldSteps ==
  ASSUME NEW t, NEW o, NEW n, NEW N \in Nat, NEW f, IsFold(t, o, n, N, f)
  PROVE  f[0] = t /\ \A k \in 1..N : f[k] = RenameAt(f[k - 1], o[k], n)
<1>1. \A k \in 0..N : f[k] = After(t, o, n, f, k)
  BY DEF IsFold
<1>2. 0 \in 0..N /\ \A k \in 1..N : k \in 0..N /\ k # 0
  OBVIOUS
<1> QED BY <1>1, <1>2 DEF After

-----------------------------------------------------------------------------
(* Refactoring: all places of a text                                       *)

Rewritten(t, S, n) == Part(t, S, n, 1, Size(t))
Spots(ps) == UNION {p.from..p.to : p \in ps}
IsSpan(p) == p.from \in Nat /\ p.from >= 1 /\ p.to \in Nat /\ p.from <= p.to

LEMMA RewrittenTyped ==
  ASSUME NEW t \in Text, NEW n \in Text, NEW S
  PROVE  Rewritten(t, S, n) \in Text
<1>1. PICK L \in Nat : L = Size(t) /\ L <= Size(t)
  BY TextSize
<1>2. PICK o \in Nat : o = 1 /\ o >= 1 /\ o <= L + 1
  BY <1>1
<1>3. Part(t, S, n, o, L) \in Text
  BY <1>1, <1>2, PartTyped
<1> QED BY <1>1, <1>2, <1>3 DEF Rewritten

LEMMA RewrittenPlain ==
  ASSUME NEW t \in Text, NEW n \in Text, NEW S, \A i \in 1..Size(t) : i \notin S
  PROVE  Rewritten(t, S, n) = t
<1>1. PICK L \in Nat : L = Size(t) /\ L <= Size(t)
  BY TextSize
<1>2. PICK o \in Nat : o = 1 /\ o >= 1 /\ o <= L + 1
  BY <1>1
<1>3. \A i \in o..L : i \notin S
  BY <1>1, <1>2
<1>4. Part(t, S, n, o, L) = Cut(t, o, L)
  BY <1>1, <1>2, <1>3, PartPlain
<1> QED BY <1>1, <1>2, <1>4, CutWhole DEF Rewritten

LEMMA RewrittenSame ==
  ASSUME NEW t \in Text, NEW n \in Text, NEW S, NEW U, \A i \in 1..Size(t) : i \in S <=> i \in U
  PROVE  Rewritten(t, S, n) = Rewritten(t, U, n)
<1>1. PICK L \in Nat : L = Size(t)
  BY TextSize
<1>2. PICK o \in Nat : o = 1
  OBVIOUS
<1>3. \A i \in o..L : i \in S <=> i \in U
  BY <1>1, <1>2
<1>4. Part(t, S, n, o, L) = Part(t, U, n, o, L)
  BY <1>1, <1>2, <1>3, PartSame
<1> QED BY <1>1, <1>2, <1>4 DEF Rewritten

\* One place of a text: it is rewritten there, or left alone if it is too short.
LEMMA RenameOne ==
  ASSUME NEW t \in Text, NEW n \in Text, NEW p, IsSpan(p)
  PROVE  /\ RenameAt(t, p, n) \in Text
         /\ p.to <= Size(t) => RenameAt(t, p, n) = Rewritten(t, p.from..p.to, n)
<1>1. CASE p.to <= Size(t)
  <2>1. \A i \in 1..p.to : i \notin {}
    OBVIOUS
  <2>2. RenameAt(Part(t, {}, n, 1, Size(t)), p, n) = Part(t, {} \cup (p.from..p.to), n, 1, Size(t))
    BY <1>1, <2>1, RenameBefore DEF IsSpan
  <2>3. Part(t, {}, n, 1, Size(t)) = t
    BY RewrittenPlain DEF Rewritten
  <2>4. {} \cup (p.from..p.to) = p.from..p.to
    OBVIOUS
  <2>5. RenameAt(t, p, n) = Rewritten(t, p.from..p.to, n)
    BY <2>2, <2>3, <2>4, Zenon DEF Rewritten
  <2> QED BY <2>5, RewrittenTyped
<1>2. CASE ~(p.to <= Size(t))
  <2>1. PICK L \in Nat : L = Size(t)
    BY TextSize
  <2>2. p.to > Size(t)
    BY <1>2, <2>1 DEF IsSpan
  <2>3. RenameAt(t, p, n) = t
    BY <2>2, Zenon DEF RenameAt, Size
  <2> QED BY <1>2, <2>3
<1> QED BY <1>1, <1>2

\* A name as long as the old one changes letters, and moves nothing.
LEMMA LetterByLetter ==
  ASSUME NEW t \in Text, NEW n \in Text, Size(n) = 1, NEW S
  PROVE  /\ Size(Rewritten(t, S, n)) = Size(t)
         /\ \A i \in 1..Size(t) : Rewritten(t, S, n)[i] = IF i \in S /\ t[i] = OldLetter THEN n[1] ELSE t[i]
<1> DEFINE w == [i \in 1..Size(t) |-> IF i \in S /\ t[i] = OldLetter THEN n[1] ELSE t[i]]
<1>1. PICK L \in Nat : L = Size(t)
  BY TextSize
<1>2. 1 \in 1..Size(n) /\ n[1] \in Tokens
  BY TextSize
<1>3. w \in Text /\ Size(w) = L
  <2>1. w \in [1..L -> Tokens]
    BY <1>1, <1>2, TextSize
  <2> HIDE DEF w
  <2> QED BY <1>1, <2>1, RowIsSeq DEF Text, Size
<1>4. n = <<n[1]>>
  <2>1. <<n[1]>> \in Text /\ Len(<<n[1]>>) = 1 /\ <<n[1]>>[1] = n[1]
    BY <1>2, Single DEF Text
  <2>2. Size(<<n[1]>>) = 1
    BY <2>1 DEF Size
  <2>3. \A i \in 1..1 : i = 1
    OBVIOUS
  <2> QED BY <2>1, <2>2, <2>3, TextsEqual
<1>5. Pieces(t, S, n, 1, L) = [i \in 1..Size(w) |-> <<w[i]>>]
  <2>1. Pieces(t, S, n, 1, L) = [i \in 1..L |-> IF i \in S /\ t[i] = OldLetter THEN n ELSE <<t[i]>>]
    <3>1. L - 1 + 1 = L /\ \A i \in 1..L : 1 + i - 1 = i
      OBVIOUS
    <3> QED BY <3>1 DEF Pieces
  <2>2. \A i \in 1..L : <<w[i]>> = IF i \in S /\ t[i] = OldLetter THEN n ELSE <<t[i]>>
    BY <1>1, <1>4
  <2> HIDE DEF w
  <2> QED BY <1>3, <2>1, <2>2
<1>6. Rewritten(t, S, n) = w
  <2> HIDE DEF w
  <2>1. FlattenSeq(Pieces(t, S, n, 1, L)) = w
    BY <1>3, <1>5, FlattenSingles, Zenon DEF Size
  <2> QED BY <1>1, <2>1, Zenon DEF Rewritten, Part
<1>7. \A i \in 1..Size(t) : w[i] = IF i \in S /\ t[i] = OldLetter THEN n[1] ELSE t[i]
  OBVIOUS
<1> HIDE DEF w
<1> QED BY <1>1, <1>3, <1>6, <1>7

LEMMA RenameLetters ==
  ASSUME NEW t \in Text, NEW n \in Text, Size(n) = 1, NEW S, NEW p, IsSpan(p), p.to <= Size(t)
  PROVE  RenameAt(Rewritten(t, S, n), p, n) = Rewritten(t, S \cup (p.from..p.to), n)
<1>1. PICK u \in Text : u = Rewritten(t, S, n)
  BY RewrittenTyped
<1>2. Size(u) = Size(t) /\ \A i \in 1..Size(t) : u[i] = IF i \in S /\ t[i] = OldLetter THEN n[1] ELSE t[i]
  BY <1>1, LetterByLetter
<1>3. PICK P : P = p.from..p.to
  OBVIOUS
<1>4. RenameAt(u, p, n) = Rewritten(u, P, n)
  BY <1>2, <1>3, RenameOne
<1>5. PICK v \in Text : v = Rewritten(u, P, n)
  BY RewrittenTyped
<1>6. Size(v) = Size(t) /\ \A i \in 1..Size(t) : v[i] = IF i \in P /\ u[i] = OldLetter THEN n[1] ELSE u[i]
  BY <1>2, <1>5, LetterByLetter
<1>7. PICK w \in Text : w = Rewritten(t, S \cup P, n)
  BY RewrittenTyped
<1>8. Size(w) = Size(t) /\ \A i \in 1..Size(t) : w[i] = IF i \in S \cup P /\ t[i] = OldLetter THEN n[1] ELSE t[i]
  BY <1>7, LetterByLetter
<1>9. \A i \in 1..Size(v) : v[i] = w[i]
  BY <1>2, <1>6, <1>8
<1>10. v = w
  BY <1>6, <1>8, <1>9, TextsEqual
<1> QED BY <1>1, <1>3, <1>4, <1>5, <1>7, <1>10

\* What is applied is a text, whatever the places.
LEMMA AppliedTyped ==
  ASSUME NEW t \in Text, NEW n \in Text, NEW ps, IsFiniteSet(ps), \A p \in ps : IsSpan(p)
  PROVE  Applied(t, ps, n) \in Text
<1>1. PICK o : o = PlacesInOrder(ps)
  OBVIOUS
<1>2. PICK N \in Nat : N = Cardinality(ps)
  BY FS_CardinalityType
<1>3. \A k \in 1..N : o[k] \in ps
  <2>1. \A p \in ps : p.from \in Nat
    BY DEF IsSpan
  <2> QED BY <1>1, <1>2, <2>1, OrderFound DEF IsOrder
<1>4. PICK f : IsFold(t, o, n, N, f) /\ Applied(t, ps, n) = f[N]
  BY <1>1, <1>2, AppliedIs
<1>5. f[0] = t /\ \A k \in 1..N : f[k] = RenameAt(f[k - 1], o[k], n)
  <2>1. IsFold(t, o, n, N, f)
    BY <1>4
  <2> QED BY <2>1, FoldSteps
<1> DEFINE Bad == {k \in 0..N : f[k] \notin Text}
<1>6. Bad = {}
  <2> SUFFICES ASSUME Bad # {} PROVE FALSE
    OBVIOUS
  <2>1. PICK k \in Bad : \A j \in Bad : k <= j
    <3>1. Bad \in SUBSET Nat
      OBVIOUS
    <3> HIDE DEF Bad
    <3> QED BY <3>1, LeastNumber
  <2>2. k \in 0..N /\ f[k] \notin Text /\ k # 0
    BY <1>5
  <2>3. k \in 1..N /\ k - 1 \in 0..N /\ ~(k <= k - 1)
    BY <2>2
  <2>4. f[k - 1] \in Text
    BY <2>1, <2>3
  <2> HIDE DEF Bad
  <2>5. PICK p : p = o[k] /\ p \in ps /\ IsSpan(p)
    BY <1>3, <2>3
  <2>6. PICK u \in Text : u = f[k - 1]
    BY <2>4
  <2>7. RenameAt(u, p, n) \in Text
    BY <2>5, RenameOne
  <2> QED BY <1>5, <2>2, <2>3, <2>5, <2>6, <2>7
<1>7. N \in 0..N
  OBVIOUS
<1> QED BY <1>4, <1>6, <1>7

\* The last place first: each text is the first one, rewritten at the places so far.
LEMMA AppliedRewrites ==
  ASSUME NEW t \in Text, NEW n \in Text, NEW ps, IsFiniteSet(ps), \A p \in ps : IsSpan(p) /\ p.to <= Size(t),
         \/ Size(n) = 1
         \/ \A p, q \in ps : p = q \/ p.to < q.from \/ q.to < p.from
  PROVE  Applied(t, ps, n) = Rewritten(t, Spots(ps), n)
<1>1. PICK o : o = PlacesInOrder(ps)
  OBVIOUS
<1>2. PICK N \in Nat : N = Cardinality(ps)
  BY FS_CardinalityType
<1>3. /\ \A k \in 1..N : o[k] \in ps
      /\ \A i, j \in 1..N : i < j => o[i] # o[j] /\ o[i].from >= o[j].from
      /\ \A p \in ps : \E i \in 1..N : o[i] = p
  <2>1. \A p \in ps : p.from \in Nat
    BY DEF IsSpan
  <2>2. IsOrder(ps, o) /\ \A p \in ps : \E i \in 1..N : o[i] = p
    BY <1>1, <1>2, <2>1, OrderFound
  <2> QED BY <1>2, <2>2 DEF IsOrder
<1>4. PICK f : IsFold(t, o, n, N, f) /\ Applied(t, ps, n) = f[N]
  BY <1>1, <1>2, AppliedIs
<1>5. f[0] = t /\ \A k \in 1..N : f[k] = RenameAt(f[k - 1], o[k], n)
  BY <1>4, FoldSteps
<1> DEFINE Done(k) == UNION {o[i].from..o[i].to : i \in 1..k}
           Bad == {k \in 0..N : f[k] # Rewritten(t, Done(k), n)}
<1>6. f[0] = Rewritten(t, Done(0), n)
  <2>1. \A i \in 1..Size(t) : i \notin Done(0)
    OBVIOUS
  <2> HIDE DEF Done
  <2> QED BY <1>5, <2>1, RewrittenPlain
<1>7. ASSUME NEW k \in 1..N PROVE RenameAt(Rewritten(t, Done(k - 1), n), o[k], n) = Rewritten(t, Done(k), n)
  <2>1. PICK p : p = o[k] /\ p \in ps /\ IsSpan(p) /\ p.to <= Size(t)
    BY <1>3
  <2>2. Done(k) = Done(k - 1) \cup (p.from..p.to)
    <3>1. 1..k = (1..k - 1) \cup {k}
      OBVIOUS
    <3> QED BY <2>1, <3>1
  <2>3. CASE Size(n) = 1
    <3> HIDE DEF Done
    <3> QED BY <2>1, <2>2, <2>3, RenameLetters
  <2>4. CASE \A q, r \in ps : q = r \/ q.to < r.from \/ r.to < q.from
    <3>1. ASSUME NEW i \in 1..k - 1 PROVE p.to < o[i].from
      <4>1. i \in 1..N /\ i < k
        OBVIOUS
      <4>2. PICK q \in ps : q = o[i] /\ q # p /\ q.from >= p.from /\ IsSpan(q)
        BY <1>3, <2>1, <4>1
      <4> QED BY <2>1, <2>4, <4>2 DEF IsSpan
    <3>2. \A j \in 1..p.to : j \notin Done(k - 1)
      <4> SUFFICES ASSUME NEW j \in 1..p.to, NEW i \in 1..k - 1, j \in o[i].from..o[i].to PROVE FALSE
        OBVIOUS
      <4>1. i \in 1..N
        OBVIOUS
      <4>2. PICK q \in ps : q = o[i] /\ IsSpan(q)
        BY <1>3, <4>1
      <4> QED BY <2>1, <3>1, <4>2 DEF IsSpan
    <3> HIDE DEF Done
    <3>3. RenameAt(Part(t, Done(k - 1), n, 1, Size(t)), p, n) = Part(t, Done(k - 1) \cup (p.from..p.to), n, 1, Size(t))
      BY <2>1, <3>2, RenameBefore DEF IsSpan
    <3> QED BY <2>1, <2>2, <3>3 DEF Rewritten
  <2> QED BY <2>3, <2>4
<1>8. Bad = {}
  <2> SUFFICES ASSUME Bad # {} PROVE FALSE
    OBVIOUS
  <2>1. PICK k \in Bad : \A j \in Bad : k <= j
    <3>1. Bad \in SUBSET Nat
      OBVIOUS
    <3> HIDE DEF Bad
    <3> QED BY <3>1, LeastNumber
  <2> HIDE DEF Done
  <2>2. k \in 0..N /\ f[k] # Rewritten(t, Done(k), n) /\ k # 0
    BY <1>6
  <2>3. k \in 1..N /\ k - 1 \in 0..N /\ ~(k <= k - 1)
    BY <2>2
  <2>4. f[k - 1] = Rewritten(t, Done(k - 1), n)
    BY <2>1, <2>3
  <2> QED BY <1>5, <1>7, <2>2, <2>3, <2>4
<1>9. Applied(t, ps, n) = Rewritten(t, Done(N), n)
  <2>1. N \in 0..N
    OBVIOUS
  <2> HIDE DEF Done
  <2> QED BY <1>4, <1>8, <2>1
<1>10. Done(N) = Spots(ps)
  BY <1>3 DEF Spots
<1> QED BY <1>9, <1>10

-----------------------------------------------------------------------------
(* Refactoring: the symbols of a text                                      *)

Before(t, i) == {k \in Heads(t) : k < i /\ NameAt(t, k + 1) = NameAt(t, i + 1)}
HeadAt(t, i) == [id |-> <<NameAt(t, i + 1), Cardinality(Before(t, i))>>, from |-> i, to |-> EndOf(t, i)]

LEMMA DefinitionsAre ==
  /\ Definitions(NoSource) = {}
  /\ \A t : t # NoSource => Definitions(t) = {HeadAt(t, i) : i \in Heads(t)}
BY DEF Definitions, HeadAt, Before

LEMMA HeadsAre ==
  ASSUME NEW t \in Text, NEW i \in Heads(t)
  PROVE  /\ i \in 1..Size(t) /\ t[i] = "def"
         /\ EndOf(t, i) \in Closing(t, i) /\ \A k \in Closing(t, i) : EndOf(t, i) <= k
<1>1. i \in 1..Size(t) /\ t[i] = "def" /\ Closing(t, i) # {}
  BY LenProperties DEF Heads, Text, Size
<1>2. Closing(t, i) \in SUBSET Nat
  <2>1. Size(t) \in Nat
    BY TextSize
  <2> QED BY <1>1, <2>1 DEF Closing
<1>3. \E j \in Closing(t, i) : \A k \in Closing(t, i) : j <= k
  BY <1>1, <1>2, LeastNumber
<1> QED BY <1>1, <1>3 DEF EndOf

LEMMA SpanOfDefinition ==
  ASSUME NEW t \in Text, NEW d \in Definitions(t)
  PROVE  /\ IsSpan(d) /\ d.to <= Size(t) /\ d.from \in Heads(t) /\ d.to = EndOf(t, d.from) /\ d = HeadAt(t, d.from)
         /\ d = [id |-> d.id, from |-> d.from, to |-> d.to]
<1>1. t # NoSource
  BY RefactorAssumption DEF Text
<1>2. PICK i \in Heads(t) : d = HeadAt(t, i)
  BY <1>1, DefinitionsAre
<1>3. d.from = i /\ d.to = EndOf(t, i) /\ d = [id |-> d.id, from |-> d.from, to |-> d.to]
  BY <1>2 DEF HeadAt
<1>4. i \in 1..Size(t) /\ EndOf(t, i) \in i..Size(t)
  BY HeadsAre DEF Closing, Size
<1>5. Size(t) \in Nat
  BY TextSize
<1> QED BY <1>2, <1>3, <1>4, <1>5 DEF IsSpan

LEMMA DefinitionsFinite ==
  ASSUME NEW t \in TokenTexts
  PROVE  IsFiniteSet(Heads(t)) \/ t = NoSource
<1>1. CASE t = NoSource
  BY <1>1
<1>2. CASE t # NoSource
  <2>1. t \in Text
    BY <1>2 DEF TokenTexts, Text
  <2>2. Heads(t) \subseteq 1..Size(t) /\ Size(t) \in Nat
    BY <2>1, HeadsAre, TextSize
  <2>3. IsFiniteSet(1..Size(t))
    BY <2>2, FS_Interval
  <2> QED BY <2>2, <2>3, FS_Subset
<1> QED BY <1>1, <1>2

\* A later symbol of a name has more before it.
LEMMA IdsAreUnique ==
  ASSUME NEW t \in TokenTexts, NEW d \in Definitions(t), NEW e \in Definitions(t), d.id = e.id
  PROVE  d = e
<1>1. t # NoSource
  BY DefinitionsAre
<1>2. t \in Text
  BY <1>1 DEF TokenTexts, Text
<1>3. IsFiniteSet(Heads(t))
  BY <1>1, DefinitionsFinite
<1>4. PICK i \in Heads(t) : d = HeadAt(t, i)
  BY <1>1, DefinitionsAre
<1>5. PICK j \in Heads(t) : e = HeadAt(t, j)
  BY <1>1, DefinitionsAre
<1>6. NameAt(t, i + 1) = NameAt(t, j + 1) /\ Cardinality(Before(t, i)) = Cardinality(Before(t, j))
  BY <1>4, <1>5 DEF HeadAt
<1>7. i \in Nat /\ j \in Nat
  <2>1. Size(t) \in Nat
    BY <1>2, TextSize
  <2> QED BY <1>2, <2>1, HeadsAre
<1>8. ASSUME NEW k \in Heads(t), NEW l \in Heads(t), k \in Nat, l \in Nat, k < l, NameAt(t, k + 1) = NameAt(t, l + 1)
      PROVE  Cardinality(Before(t, k)) # Cardinality(Before(t, l))
  <2>1. Before(t, k) \in SUBSET Before(t, l) /\ k \in Before(t, l) /\ k \notin Before(t, k)
    <3>1. \A m \in Heads(t) : m \in Nat
      <4>1. Size(t) \in Nat
        BY <1>2, TextSize
      <4> QED BY <1>2, <4>1, HeadsAre
    <3>2. ASSUME NEW m \in Before(t, k) PROVE m \in Before(t, l)
      <4>1. m \in Heads(t) /\ m < k /\ NameAt(t, m + 1) = NameAt(t, k + 1)
        BY DEF Before
      <4>2. m < l
        BY <1>8, <3>1, <4>1
      <4> QED BY <1>8, <4>1, <4>2 DEF Before
    <3>3. k \in Before(t, l)
      BY <1>8 DEF Before
    <3>4. k \notin Before(t, k)
      BY <1>8 DEF Before
    <3> QED BY <3>2, <3>3, <3>4
  <2>2. IsFiniteSet(Before(t, l))
    <3>1. Before(t, l) \in SUBSET Heads(t)
      BY DEF Before
    <3> QED BY <1>3, <3>1, FS_Subset
  <2> QED BY <2>1, <2>2, FS_Subset
<1>9. i = j
  BY <1>6, <1>7, <1>8
<1> QED BY <1>4, <1>5, <1>9

-----------------------------------------------------------------------------
(* Refactoring: the places of a rename                                     *)

Sources == [CodeFiles -> TokenTexts]
\* The symbols of f that a rename of the symbol of o is about.
Meant(src, o, f) == {d \in Definitions(src[f]) : d \in CallersAt(src, o, f) \/ (f = o /\ d.id = Old)}
PlacesAt(src, o, f) == {Place(f, d) : d \in Meant(src, o, f)}

LEMMA PlacesAtFinite ==
  ASSUME NEW src \in Sources, NEW o \in CodeFiles, NEW f \in CodeFiles
  PROVE  /\ IsFiniteSet(PlacesAt(src, o, f))
         /\ \A p \in PlacesAt(src, o, f) : src[f] \in Text /\ IsSpan(p) /\ p.to <= Size(src[f])
<1> DEFINE t == src[f]
<1>1. t \in TokenTexts
  BY DEF Sources
<1>2. CASE t = NoSource
  <2>1. PlacesAt(src, o, f) = {}
    BY <1>2, DefinitionsAre DEF PlacesAt, Meant
  <2> QED BY <2>1, FS_EmptySet
<1>3. CASE t # NoSource
  <2>1. t \in Text /\ IsFiniteSet(Heads(t))
    BY <1>1, <1>3, DefinitionsFinite DEF TokenTexts, Text
  <2>2. PlacesAt(src, o, f) \in SUBSET {Place(f, HeadAt(t, i)) : i \in Heads(t)}
    BY <1>3, DefinitionsAre DEF PlacesAt, Meant
  <2>3. IsFiniteSet({Place(f, HeadAt(t, i)) : i \in Heads(t)})
    <3> DEFINE g == [i \in Heads(t) |-> Place(f, HeadAt(t, i))]
               T == {Place(f, HeadAt(t, i)) : i \in Heads(t)}
    <3>1. g \in Surjection(Heads(t), T)
      <4>1. g \in [Heads(t) -> T] /\ \A p \in T : \E i \in Heads(t) : g[i] = p
        OBVIOUS
      <4> HIDE DEF g, T
      <4> QED BY <4>1 DEF Surjection
    <3> HIDE DEF g, T
    <3>2. IsFiniteSet(T)
      BY <2>1, <3>1, FS_Surjection
    <3> QED BY <3>2 DEF T
  <2>4. IsFiniteSet(PlacesAt(src, o, f))
    BY <2>2, <2>3, FS_Subset
  <2>5. ASSUME NEW d \in Definitions(t) PROVE IsSpan(Place(f, d)) /\ Place(f, d).to <= Size(t)
    BY <2>1, SpanOfDefinition DEF IsSpan, Place
  <2> QED BY <2>1, <2>4, <2>5 DEF PlacesAt, Meant
<1> QED BY <1>2, <1>3

LEMMA RenamedIs ==
  ASSUME NEW x, NEW f \in CodeFiles, source \in Sources, job[x].of \in CodeFiles, job[x].new \in Text
  PROVE  /\ source[f] = NoSource => Renamed(x, f) = NoSource
         /\ source[f] # NoSource => Renamed(x, f) = Rewritten(source[f], Spots(PlacesAt(source, job[x].of, f)), job[x].new)
<1>1. CASE source[f] = NoSource
  <2>1. Renamed(x, f) = NoSource
    BY <1>1, Zenon DEF Renamed
  <2> QED BY <1>1, <2>1
<1>2. CASE source[f] # NoSource
  <2> DEFINE in == {i \in DOMAIN source[f] : \E d \in Definitions(source[f]) :
                      d.from <= i /\ i <= d.to /\ (d \in CallersAt(source, job[x].of, f) \/ (f = job[x].of /\ d.id = Old))}
  <2>1. PICK t \in Text : t = source[f]
    BY <1>2 DEF Sources, TokenTexts, Text
  <2>2. PICK L \in Nat : L = Size(t) /\ DOMAIN t = 1..L
    BY TextSize, LenProperties DEF Text, Size
  <2>3. PICK S : S = in
    OBVIOUS
  <2>4. Renamed(x, f) = FlattenSeq([i \in DOMAIN t |-> IF i \in S /\ t[i] = OldLetter THEN job[x].new ELSE <<t[i]>>])
    BY <1>2, <2>1, <2>3, Zenon DEF Renamed
  <2>5. Pieces(t, S, job[x].new, 1, L) = [i \in DOMAIN t |-> IF i \in S /\ t[i] = OldLetter THEN job[x].new ELSE <<t[i]>>]
    <3>1. L - 1 + 1 = L /\ \A i \in 1..L : 1 + i - 1 = i
      OBVIOUS
    <3> QED BY <2>2, <3>1 DEF Pieces
  <2>6. Renamed(x, f) = Rewritten(t, S, job[x].new)
    BY <2>2, <2>4, <2>5, Zenon DEF Rewritten, Part
  <2>7. ASSUME NEW i \in 1..Size(t) PROVE i \in S <=> i \in Spots(PlacesAt(source, job[x].of, f))
    <3>1. i \in DOMAIN t
      BY <2>2
    <3>2. i \in S <=> \E d \in Meant(source, job[x].of, f) : d.from <= i /\ i <= d.to
      BY <2>1, <2>3, <3>1 DEF Meant
    <3>3. i \in Spots(PlacesAt(source, job[x].of, f)) <=> \E d \in Meant(source, job[x].of, f) : i \in d.from..d.to
      <4>1. \A d : Place(f, d).from = d.from /\ Place(f, d).to = d.to
        BY DEF Place
      <4>2. i \in Spots(PlacesAt(source, job[x].of, f)) <=> \E p \in PlacesAt(source, job[x].of, f) : i \in p.from..p.to
        BY Zenon DEF Spots
      <4>3. (\E p \in PlacesAt(source, job[x].of, f) : i \in p.from..p.to)
              <=> \E d \in Meant(source, job[x].of, f) : i \in Place(f, d).from..Place(f, d).to
        BY Zenon DEF PlacesAt
      <4> QED BY <4>1, <4>2, <4>3, Zenon
    <3>4. \A d \in Meant(source, job[x].of, f) : d.from \in Nat /\ d.to \in Nat
      BY <2>1, SpanOfDefinition DEF Meant, IsSpan
    <3>5. \A d \in Meant(source, job[x].of, f) : i \in d.from..d.to <=> d.from <= i /\ i <= d.to
      BY <2>2, <3>4
    <3> QED BY <3>2, <3>3, <3>5
  <2>8. Rewritten(t, S, job[x].new) = Rewritten(t, Spots(PlacesAt(source, job[x].of, f)), job[x].new)
    BY <2>7, RewrittenSame
  <2> QED BY <1>2, <2>1, <2>6, <2>8
<1> QED BY <1>1, <1>2

\* The places of a file, applied, rename it.
LEMMA AppliedIsRenamed ==
  ASSUME NEW x, NEW f \in CodeFiles, source \in Sources, job[x].of \in CodeFiles, job[x].new \in Text,
         NEW ps, ps = PlacesAt(source, job[x].of, f),
         Len(job[x].new) = 1 \/ \A p, q \in ps : p = q \/ p.to < q.from \/ q.to < p.from
  PROVE  Renamed(x, f) = IF ps = {} THEN source[f] ELSE Applied(source[f], ps, job[x].new)
<1>1. IsFiniteSet(ps) /\ \A p \in ps : source[f] \in Text /\ IsSpan(p) /\ p.to <= Size(source[f])
  BY PlacesAtFinite
<1>2. CASE ps = {}
  <2>1. CASE source[f] = NoSource
    BY <1>2, <2>1, RenamedIs
  <2>2. CASE source[f] # NoSource
    <3>1. PICK t \in Text : t = source[f]
      BY <2>2 DEF Sources, TokenTexts, Text
    <3>2. \A i \in 1..Size(t) : i \notin Spots(ps)
      BY <1>2 DEF Spots
    <3>3. Rewritten(t, Spots(ps), job[x].new) = t
      BY <3>2, RewrittenPlain
    <3> QED BY <1>2, <2>2, <3>1, <3>3, RenamedIs
  <2> QED BY <2>1, <2>2
<1>3. CASE ps # {}
  <2>1. PICK t \in Text : t = source[f]
    BY <1>1, <1>3
  <2>2. t # NoSource
    BY RefactorAssumption DEF Text
  <2>3. Size(job[x].new) = 1 \/ \A p, q \in ps : p = q \/ p.to < q.from \/ q.to < p.from
    BY DEF Size
  <2>4. PICK n \in Text : n = job[x].new
    OBVIOUS
  <2>5. Applied(t, ps, n) = Rewritten(t, Spots(ps), n)
    BY <1>1, <2>1, <2>3, <2>4, AppliedRewrites
  <2> QED BY <1>3, <2>1, <2>2, <2>4, <2>5, RenamedIs
<1> QED BY <1>2, <1>3

-----------------------------------------------------------------------------
(* Refactoring: where the symbols of a text end                            *)

Way(e) == IF e = "def" THEN 1 ELSE IF e = "end" THEN -1 ELSE 0
\* How many symbols are open from i to j.
Open(t, i, j) == Times(t, "def", i, j) - Times(t, "end", i, j)

LEMMA TimesNone == ASSUME NEW t, NEW m, NEW i \in Nat PROVE Times(t, m, i, i - 1) = 0
<1>1. {k \in i..i - 1 : t[k] = m} = {}
  OBVIOUS
<1> QED BY <1>1, FS_EmptySet DEF Times

LEMMA TimesMore ==
  ASSUME NEW t, NEW m, NEW i \in Nat, NEW h \in Int, NEW j \in Nat, j = h + 1, i <= j
  PROVE  /\ Times(t, m, i, h) \in Nat /\ Times(t, m, i, j) \in Nat
         /\ Times(t, m, i, j) = Times(t, m, i, h) + IF t[j] = m THEN 1 ELSE 0
<1> DEFINE S == {k \in i..h : t[k] = m}
           U == {k \in i..j : t[k] = m}
<1>1. IsFiniteSet(i..h) /\ S \in SUBSET (i..h) /\ j \notin S
  BY FS_Interval
<1>2. IsFiniteSet(S)
  <2> HIDE DEF S
  <2> QED BY <1>1, FS_Subset
<1>3. U = IF t[j] = m THEN S \cup {j} ELSE S
  <2>1. i..j = (i..h) \cup {j}
    OBVIOUS
  <2> QED BY <2>1
<1>4. Times(t, m, i, h) = Cardinality(S) /\ Times(t, m, i, j) = Cardinality(U)
  BY DEF Times
<1> HIDE DEF S, U
<1>5. Cardinality(S) \in Nat /\ Cardinality(S \cup {j}) = Cardinality(S) + 1
  BY <1>1, <1>2, FS_CardinalityType, FS_AddElement
<1>6. CASE t[j] = m
  BY <1>3, <1>4, <1>5, <1>6
<1>7. CASE t[j] # m
  BY <1>3, <1>4, <1>5, <1>7
<1> QED BY <1>6, <1>7

LEMMA OpenNone == ASSUME NEW t, NEW i \in Nat, NEW h \in Int, h = i - 1 PROVE Open(t, i, h) = 0
BY TimesNone DEF Open

LEMMA OpenMore ==
  ASSUME NEW t, NEW i \in Nat, NEW h \in Int, NEW j \in Nat, j = h + 1, i <= j
  PROVE  Open(t, i, h) \in Int /\ Open(t, i, j) \in Int /\ Open(t, i, j) = Open(t, i, h) + Way(t[j]) /\ Way(t[j]) \in -1..1
<1>1. /\ Times(t, "def", i, h) \in Nat /\ Times(t, "def", i, j) \in Nat
      /\ Times(t, "def", i, j) = Times(t, "def", i, h) + IF t[j] = "def" THEN 1 ELSE 0
  BY TimesMore
<1>2. /\ Times(t, "end", i, h) \in Nat /\ Times(t, "end", i, j) \in Nat
      /\ Times(t, "end", i, j) = Times(t, "end", i, h) + IF t[j] = "end" THEN 1 ELSE 0
  BY TimesMore
<1>3. CASE t[j] = "def"
  <2>1. t[j] # "end"
    BY <1>3
  <2> QED BY <1>1, <1>2, <1>3, <2>1 DEF Open, Way
<1>4. CASE t[j] = "end"
  <2>1. t[j] # "def"
    BY <1>4
  <2> QED BY <1>1, <1>2, <1>4, <2>1 DEF Open, Way
<1>5. CASE t[j] # "def" /\ t[j] # "end"
  BY <1>1, <1>2, <1>5 DEF Open, Way
<1> QED BY <1>3, <1>4, <1>5

LEMMA OpenTyped == ASSUME NEW t, NEW i \in Nat, NEW j \in Nat, i <= j + 1 PROVE Open(t, i, j) \in Int
<1>1. CASE i <= j
  <2>1. j - 1 \in Int /\ j = j - 1 + 1
    OBVIOUS
  <2> QED BY <1>1, <2>1, OpenMore
<1>2. CASE i = j + 1
  BY <1>2, OpenNone
<1> QED BY <1>1, <1>2

\* From i to j, u has what v has s later.
Alike(u, v, i, j, s) == \A k \in i..j : u[k] = v[k + s]

\* It depends on what stands there, and not on where.
LEMMA OpenSame ==
  ASSUME NEW u, NEW v, NEW i \in Nat, NEW j \in Nat, i <= j + 1, NEW s \in Int, NEW a \in Nat, a = i + s,
         NEW b \in Nat, b = j + s, Alike(u, v, i, j, s)
  PROVE  Open(u, i, j) = Open(v, a, b)
<1>1. a = i + s /\ b = j + s /\ \A k \in i..j : u[k] = v[k + s]
  BY DEF Alike
<1> DEFINE Bad == {n \in Nat : n <= j - i + 1 /\ Open(u, i, i - 1 + n) # Open(v, a, a - 1 + n)}
<1>0. PICK N \in Nat : N = j - i + 1 /\ i - 1 + N = j /\ a - 1 + N = b
  BY <1>1
<1>6. Bad = {} => Open(u, i, j) = Open(v, a, b)
  <2> SUFFICES ASSUME Open(u, i, j) # Open(v, a, b) PROVE Bad # {}
    OBVIOUS
  <2>1. Open(u, i, i - 1 + N) # Open(v, a, a - 1 + N)
    BY <1>0, <1>1
  <2>2. N \in Bad
    BY <1>0, <2>1
  <2> QED BY <2>2
<1> SUFFICES ASSUME Bad # {} PROVE FALSE
  BY <1>6
<1>2. PICK n \in Bad : \A m \in Bad : n <= m
  <2>1. Bad \in SUBSET Nat
    OBVIOUS
  <2> HIDE DEF Bad
  <2> QED BY <2>1, LeastNumber
<1>3. n \in Nat /\ n <= j - i + 1 /\ Open(u, i, i - 1 + n) # Open(v, a, a - 1 + n)
  OBVIOUS
<1>4. CASE n = 0
  <2>1. Open(u, i, i - 1) = 0 /\ Open(v, a, a - 1) = 0
    BY OpenNone
  <2>2. i - 1 + n = i - 1 /\ a - 1 + n = a - 1
    BY <1>4
  <2> QED BY <1>3, <2>1, <2>2
<1>5. CASE n # 0
  <2>1. n - 1 \in Nat /\ ~(n <= n - 1) /\ n - 1 <= j - i + 1
    BY <1>3, <1>5
  <2>2. Open(u, i, i - 1 + (n - 1)) = Open(v, a, a - 1 + (n - 1))
    BY <1>2, <2>1
  <2> HIDE DEF Bad
  <2>3. PICK h \in Int : h = i - 1 + (n - 1)
    BY <2>1
  <2>4. PICK k \in Nat : k = h + 1 /\ i <= k /\ k = i - 1 + n /\ k \in i..j
    BY <1>3, <2>1, <2>3
  <2>5. PICK g \in Int : g = a - 1 + (n - 1)
    BY <2>1
  <2>6. PICK l \in Nat : l = g + 1 /\ a <= l /\ l = a - 1 + n /\ l = k + s
    BY <1>1, <1>3, <2>1, <2>4, <2>5
  <2>7. Open(u, i, k) = Open(u, i, h) + Way(u[k])
    BY <2>3, <2>4, OpenMore
  <2>8. Open(v, a, l) = Open(v, a, g) + Way(v[l])
    BY <2>5, <2>6, OpenMore
  <2>9. u[k] = v[l]
    BY <1>1, <2>4, <2>6
  <2> QED BY <1>3, <2>2, <2>3, <2>4, <2>5, <2>6, <2>7, <2>8, <2>9
<1> QED BY <1>4, <1>5

LEMMA OpenSplit ==
  ASSUME NEW t, NEW i \in Nat, NEW k \in Nat, i <= k + 1, NEW l \in Nat, l = k + 1, NEW j \in Nat, k <= j
  PROVE  Open(t, i, j) = Open(t, i, k) + Open(t, l, j)
<1> DEFINE Bad == {n \in Nat : k <= n /\ n <= j /\ Open(t, i, n) # Open(t, i, k) + Open(t, l, n)}
<1> SUFFICES ASSUME Bad # {} PROVE FALSE
  OBVIOUS
<1>2. PICK n \in Bad : \A m \in Bad : n <= m
  <2>1. Bad \in SUBSET Nat
    OBVIOUS
  <2> HIDE DEF Bad
  <2> QED BY <2>1, LeastNumber
<1>3. n \in Nat /\ k <= n /\ n <= j /\ Open(t, i, n) # Open(t, i, k) + Open(t, l, n)
  OBVIOUS
<1>4. CASE n = k
  <2>1. Open(t, l, k) = 0 /\ Open(t, i, k) \in Int
    BY OpenNone, OpenTyped
  <2> QED BY <1>3, <1>4, <2>1
<1>5. CASE n # k
  <2>1. PICK h \in Nat : h = n - 1 /\ n = h + 1 /\ k <= h /\ h <= j /\ ~(n <= h) /\ i <= n /\ l <= n /\ l <= h + 1 /\ i <= h + 1
    BY <1>3, <1>5
  <2>2. Open(t, i, h) = Open(t, i, k) + Open(t, l, h)
    BY <1>2, <2>1
  <2> HIDE DEF Bad
  <2>3. Open(t, i, n) = Open(t, i, h) + Way(t[n])
    BY <1>3, <2>1, OpenMore
  <2>6. Way(t[n]) \in -1..1
    BY DEF Way
  <2>4. Open(t, l, n) = Open(t, l, h) + Way(t[n])
    BY <1>3, <2>1, OpenMore
  <2>5. Open(t, i, h) \in Int /\ Open(t, l, h) \in Int /\ Open(t, i, k) \in Int
    BY <2>1, OpenTyped
  <2> QED BY <1>3, <2>2, <2>3, <2>4, <2>5, <2>6
<1> QED BY <1>4, <1>5

\* A symbol stands from i to j: the first place where as many are closed as are opened.
StandsAt(t, i, j) ==
  /\ i \in Nat /\ j \in Nat /\ 1 <= i /\ i <= j /\ j <= Size(t) /\ t[i] = "def"
  /\ Open(t, i, j) = 0 /\ \A k \in Nat : i <= k /\ k < j => Open(t, i, k) # 0
\* A text that is one symbol.
IsCode(c) == StandsAt(c, 1, Size(c))
CodesOf(t) == {SubSeq(t, d.from, d.to) : d \in Definitions(t)}

LEMMA ClosingIs ==
  ASSUME NEW t \in Text, NEW i \in 1..Size(t), NEW k \in Nat, i <= k, k <= Size(t)
  PROVE  k \in Closing(t, i) <=> Open(t, i, k) = 0
<1>1. Size(t) \in Nat
  BY TextSize
<1>2. i \in Nat /\ k \in i..Size(t)
  BY <1>1
<1>3. PICK h \in Int : k = h + 1
  <2>1. k - 1 \in Int /\ k = k - 1 + 1
    OBVIOUS
  <2> QED BY <2>1
<1>4. Times(t, "def", i, k) \in Nat /\ Times(t, "end", i, k) \in Nat
  BY <1>2, <1>3, TimesMore
<1>5. k \in Closing(t, i) <=> Times(t, "def", i, k) = Times(t, "end", i, k)
  BY <1>2 DEF Closing, Size
<1> QED BY <1>4, <1>5 DEF Open

LEMMA HeadStands == ASSUME NEW t \in Text, NEW i \in Heads(t) PROVE StandsAt(t, i, EndOf(t, i))
<1>1. PICK L \in Nat : L = Size(t)
  BY TextSize
<1>2. /\ i \in 1..Size(t) /\ t[i] = "def"
      /\ EndOf(t, i) \in Closing(t, i) /\ \A k \in Closing(t, i) : EndOf(t, i) <= k
  BY HeadsAre
<1>3. EndOf(t, i) \in i..Size(t)
  BY <1>2 DEF Closing, Size
<1>4. PICK j \in Nat : j = EndOf(t, i) /\ i <= j /\ j <= Size(t)
  BY <1>1, <1>2, <1>3
<1>5. Open(t, i, j) = 0
  BY <1>2, <1>4, ClosingIs
<1>6. ASSUME NEW k \in Nat, i <= k, k < j PROVE Open(t, i, k) # 0
  <2>1. ~(j <= k) /\ k <= Size(t)
    BY <1>1, <1>4, <1>6
  <2>2. k \notin Closing(t, i)
    BY <1>2, <1>4, <2>1
  <2> QED BY <1>2, <1>6, <2>1, <2>2, ClosingIs
<1>7. i \in Nat /\ 1 <= i
  BY <1>1, <1>2
<1> QED BY <1>2, <1>4, <1>5, <1>6, <1>7 DEF StandsAt

LEMMA StandingHead ==
  ASSUME NEW t \in Text, NEW i, NEW j, StandsAt(t, i, j)
  PROVE  i \in Heads(t) /\ j = EndOf(t, i)
<1>1. PICK L \in Nat : L = Size(t)
  BY TextSize
<1>2. /\ i \in Nat /\ j \in Nat /\ 1 <= i /\ i <= j /\ j <= Size(t) /\ t[i] = "def"
      /\ Open(t, i, j) = 0 /\ \A k \in Nat : i <= k /\ k < j => Open(t, i, k) # 0
  BY DEF StandsAt
<1>3. i \in 1..Size(t)
  BY <1>1, <1>2
<1>4. j \in Closing(t, i)
  BY <1>2, <1>3, ClosingIs
<1>5. i \in Heads(t)
  <2>1. i \in DOMAIN t
    BY <1>3, LenProperties DEF Text, Size
  <2> QED BY <1>2, <1>4, <2>1 DEF Heads
<1>6. EndOf(t, i) \in Closing(t, i) /\ EndOf(t, i) <= j
  BY <1>4, <1>5, HeadsAre
<1>7. EndOf(t, i) \in i..Size(t)
  BY <1>6 DEF Closing, Size
<1>8. PICK e \in Nat : e = EndOf(t, i) /\ i <= e /\ e <= Size(t) /\ e <= j
  BY <1>1, <1>2, <1>6, <1>7
<1>9. Open(t, i, e) = 0
  BY <1>3, <1>6, <1>8, ClosingIs
<1>10. ~(e < j)
  BY <1>2, <1>8, <1>9
<1> QED BY <1>2, <1>5, <1>8, <1>10

LEMMA StandingDefinition ==
  ASSUME NEW t \in Text, NEW i, NEW j
  PROVE  StandsAt(t, i, j) <=> \E d \in Definitions(t) : d.from = i /\ d.to = j
<1>1. ASSUME StandsAt(t, i, j) PROVE \E d \in Definitions(t) : d.from = i /\ d.to = j
  <2>1. i \in Heads(t) /\ j = EndOf(t, i)
    BY <1>1, StandingHead
  <2>2. t # NoSource
    BY RefactorAssumption DEF Text
  <2>3. HeadAt(t, i) \in Definitions(t)
    BY <2>1, <2>2, DefinitionsAre
  <2>4. HeadAt(t, i).from = i /\ HeadAt(t, i).to = j
    BY <2>1 DEF HeadAt
  <2> QED BY <2>3, <2>4
<1>2. ASSUME NEW d \in Definitions(t), d.from = i, d.to = j PROVE StandsAt(t, i, j)
  <2>1. d.from \in Heads(t) /\ d.to = EndOf(t, d.from)
    BY SpanOfDefinition
  <2> QED BY <1>2, <2>1, HeadStands
<1> QED BY <1>1, <1>2

LEMMA CodesAre ==
  ASSUME NEW t \in Text, NEW c
  PROVE  c \in CodesOf(t) <=> \E i, j \in Nat : StandsAt(t, i, j) /\ c = Cut(t, i, j)
<1>1. ASSUME NEW d \in Definitions(t), c = SubSeq(t, d.from, d.to) PROVE \E i, j \in Nat : StandsAt(t, i, j) /\ c = Cut(t, i, j)
  <2>1. PICK i, j : i = d.from /\ j = d.to
    OBVIOUS
  <2>2. StandsAt(t, i, j)
    BY <2>1, StandingDefinition
  <2>3. i \in Nat /\ j \in Nat
    BY <2>2 DEF StandsAt
  <2>4. c = Cut(t, i, j)
    BY <1>1, <2>1, Zenon DEF Cut
  <2> QED BY <2>2, <2>3, <2>4
<1>2. ASSUME NEW i \in Nat, NEW j \in Nat, StandsAt(t, i, j), c = Cut(t, i, j) PROVE \E d \in Definitions(t) : c = SubSeq(t, d.from, d.to)
  <2>1. PICK d \in Definitions(t) : d.from = i /\ d.to = j
    BY <1>2, StandingDefinition
  <2>2. c = SubSeq(t, d.from, d.to)
    BY <1>2, <2>1, Zenon DEF Cut
  <2> QED BY <2>2, Zenon
<1>3. c \in CodesOf(t) <=> \E d \in Definitions(t) : c = SubSeq(t, d.from, d.to)
  BY Zenon DEF CodesOf
<1> QED BY <1>1, <1>2, <1>3, Zenon

\* Before its end, a symbol is open.
LEMMA OpenInside ==
  ASSUME NEW t \in Text, NEW i, NEW j, StandsAt(t, i, j), NEW k \in Nat, i <= k, k < j
  PROVE  Open(t, i, k) \in Nat /\ Open(t, i, k) >= 1
<1>1. /\ i \in Nat /\ j \in Nat /\ 1 <= i /\ i <= j /\ t[i] = "def"
      /\ \A n \in Nat : i <= n /\ n < j => Open(t, i, n) # 0
  BY DEF StandsAt
<1> DEFINE Bad == {n \in Nat : i <= n /\ n < j /\ ~(Open(t, i, n) >= 1)}
<1>2. Open(t, i, k) \in Int
  BY <1>1, OpenTyped
<1>3. ASSUME ~(Open(t, i, k) >= 1) PROVE Bad # {}
  <2>1. k \in Bad
    BY <1>3
  <2> QED BY <2>1
<1>4. Bad = {}
  <2> SUFFICES ASSUME Bad # {} PROVE FALSE
    OBVIOUS
  <2>1. PICK n \in Bad : \A m \in Bad : n <= m
    <3>1. Bad \in SUBSET Nat
      OBVIOUS
    <3> HIDE DEF Bad
    <3> QED BY <3>1, LeastNumber
  <2>2. n \in Nat /\ i <= n /\ n < j /\ ~(Open(t, i, n) >= 1)
    OBVIOUS
  <2>3. PICK h \in Int : n = h + 1 /\ h = n - 1
    <3>1. n - 1 \in Int /\ n = n - 1 + 1
      BY <2>2
    <3> QED BY <3>1
  <2>4. Open(t, i, n) = Open(t, i, h) + Way(t[n]) /\ Open(t, i, n) \in Int /\ Open(t, i, h) \in Int
    BY <1>1, <2>2, <2>3, OpenMore
  <2>5. CASE n = i
    <3>1. Open(t, i, h) = 0
      BY <1>1, <2>3, <2>5, OpenNone
    <3>2. Way(t[n]) = 1
      BY <1>1, <2>5 DEF Way
    <3> QED BY <2>2, <2>4, <3>1, <3>2
  <2>6. CASE n # i
    <3>1. h \in Nat /\ i <= h /\ h < j /\ ~(n <= h)
      BY <1>1, <2>2, <2>3, <2>6
    <3>2. Open(t, i, h) >= 1
      BY <2>1, <3>1
    <3>3. Way(t[n]) \in -1..1
      BY DEF Way
    <3>4. Open(t, i, n) # 0
      BY <1>1, <2>2
    <3> HIDE DEF Bad
    <3> QED BY <2>2, <2>4, <3>2, <3>3, <3>4
  <2> QED BY <2>5, <2>6
<1> QED BY <1>2, <1>3, <1>4

LEMMA Shifted ==
  ASSUME NEW i \in Nat, NEW j \in Nat, NEW s \in Int, NEW a \in Nat, NEW b \in Nat, a = i + s, b = j + s,
         NEW l \in Nat, a <= l, l < b
  PROVE  \E k \in Nat : l = k + s /\ i <= k /\ k < j /\ k <= j
<1>1. l - s \in Nat /\ l = l - s + s /\ i <= l - s /\ l - s < j /\ l - s <= j
  OBVIOUS
<1> QED BY <1>1

\* What stands in a text stands wherever the text does.
LEMMA StandsElsewhere ==
  ASSUME NEW u \in Text, NEW v \in Text, NEW i, NEW j, StandsAt(u, i, j), NEW s \in Int, NEW a \in Nat, NEW b \in Nat,
         a = i + s, b = j + s, a >= 1, b <= Size(v), Alike(u, v, i, j, s)
  PROVE  StandsAt(v, a, b) /\ Cut(u, i, j) = Cut(v, a, b)
<1>1. /\ i \in Nat /\ j \in Nat /\ 1 <= i /\ i <= j /\ j <= Size(u) /\ u[i] = "def"
      /\ Open(u, i, j) = 0 /\ \A k \in Nat : i <= k /\ k < j => Open(u, i, k) # 0
  BY DEF StandsAt
<1>2. Size(u) \in Nat /\ Size(v) \in Nat /\ a <= b /\ i \in i..j
  BY <1>1, TextSize
<1>9. \A k \in i..j : u[k] = v[k + s]
  BY DEF Alike
<1>3. v[a] = "def"
  BY <1>1, <1>2, <1>9
<1>4. ASSUME NEW k \in Nat, i <= k, k <= j, NEW l \in Nat, l = k + s PROVE Open(u, i, k) = Open(v, a, l)
  <2>1. i..k \subseteq i..j /\ i <= k + 1
    BY <1>1, <1>4
  <2>2. Alike(u, v, i, k, s)
    BY <1>9, <2>1 DEF Alike
  <2> QED BY <1>1, <1>4, <2>1, <2>2, OpenSame
<1>5. Open(v, a, b) = 0
  BY <1>1, <1>4
<1>6. ASSUME NEW l \in Nat, a <= l, l < b PROVE Open(v, a, l) # 0
  <2>1. PICK k \in Nat : l = k + s /\ i <= k /\ k < j /\ k <= j
    BY <1>1, <1>6, Shifted
  <2>2. Open(u, i, k) # 0
    BY <1>1, <2>1
  <2> QED BY <1>4, <1>6, <2>1, <2>2
<1>7. StandsAt(v, a, b)
  BY <1>2, <1>3, <1>5, <1>6 DEF StandsAt
<1>8. Cut(u, i, j) = Cut(v, a, b)
  <2>1. i <= j + 1 /\ a <= b + 1 /\ b - a + 1 = j - i + 1 /\ j - i + 1 \in Nat
    BY <1>1, <1>2
  <2>2. /\ Cut(u, i, j) \in Text /\ Size(Cut(u, i, j)) = j - i + 1
        /\ \A k \in 1..j - i + 1 : Cut(u, i, j)[k] = u[i + k - 1]
    BY <1>1, <2>1, CutIs
  <2>3. /\ Cut(v, a, b) \in Text /\ Size(Cut(v, a, b)) = b - a + 1
        /\ \A k \in 1..b - a + 1 : Cut(v, a, b)[k] = v[a + k - 1]
    BY <1>2, <2>1, CutIs
  <2>4. ASSUME NEW k \in 1..j - i + 1 PROVE Cut(u, i, j)[k] = Cut(v, a, b)[k]
    <3>1. PICK m : m = i + k - 1
      OBVIOUS
    <3>2. m \in i..j /\ a + k - 1 = m + s
      BY <1>1, <2>1, <3>1
    <3>3. u[m] = v[m + s]
      BY <1>9, <3>2
    <3> QED BY <2>1, <2>2, <2>3, <3>1, <3>2, <3>3
  <2>5. PICK p, q : p = Cut(u, i, j) /\ q = Cut(v, a, b)
    OBVIOUS
  <2>6. p \in Text /\ q \in Text /\ Size(p) = Size(q) /\ \A k \in 1..Size(p) : p[k] = q[k]
    BY <2>1, <2>2, <2>3, <2>4, <2>5
  <2>7. p = q
    BY <2>6, TextsEqual
  <2> QED BY <2>5, <2>7
<1> QED BY <1>7, <1>8

\* A symbol by itself is open inside it and closed at its end.
LEMMA CodeOpens ==
  ASSUME NEW c \in Text, IsCode(c)
  PROVE  /\ Size(c) >= 1 /\ Open(c, 1, Size(c)) = 0
         /\ \A n \in Nat : 1 <= n /\ n <= Size(c) => Open(c, 1, n) \in Nat /\ (n < Size(c) => Open(c, 1, n) >= 1)
<1>1. PICK C \in Nat : C = Size(c)
  BY TextSize
<1>2. StandsAt(c, 1, C) /\ C >= 1 /\ Open(c, 1, C) = 0
  BY <1>1 DEF IsCode, StandsAt
<1>3. ASSUME NEW n \in Nat, 1 <= n, n < C PROVE Open(c, 1, n) \in Nat /\ Open(c, 1, n) >= 1
  BY <1>2, <1>3, OpenInside
<1>4. ASSUME NEW n \in Nat, 1 <= n, n <= C PROVE Open(c, 1, n) \in Nat /\ (n < C => Open(c, 1, n) >= 1)
  <2>1. CASE n = C
    BY <1>2, <2>1
  <2>2. CASE n < C
    BY <1>3, <1>4, <2>2
  <2> QED BY <1>4, <2>1, <2>2
<1> QED BY <1>1, <1>2, <1>4

LEMMA StandsTyped ==
  ASSUME NEW t, NEW i, NEW j, StandsAt(t, i, j)
  PROVE  i \in Nat /\ j \in Nat /\ 1 <= i /\ i <= j /\ j <= Size(t) /\ Open(t, i, j) = 0
BY DEF StandsAt

\* A symbol pasted behind a text adds itself.
LEMMA GlueCodes ==
  ASSUME NEW u \in Text, NEW v \in Text, IsCode(v), NEW e
  PROVE  e \in CodesOf(Glue(u, v)) <=> e \in CodesOf(u) \/ e \in CodesOf(v)
<1>1. PICK g \in Text : g = Glue(u, v)
  BY GlueIs
<1>2. PICK U \in Nat, V \in Nat : U = Size(u) /\ V = Size(v) /\ Size(g) = U + V
  BY <1>1, GlueIs, TextSize
<1>3. /\ \A k \in Nat : 1 <= k /\ k <= U => g[k] = u[k]
      /\ \A k \in Nat : 1 <= k /\ k <= V => g[k + U] = v[k]
  <2>1. \A k \in 1..U + V : g[k] = IF k <= U THEN u[k] ELSE v[k - U]
    BY <1>1, <1>2, GlueIs
  <2>2. ASSUME NEW k \in Nat, 1 <= k, k <= U PROVE g[k] = u[k]
    BY <2>1, <2>2
  <2>3. ASSUME NEW k \in Nat, 1 <= k, k <= V PROVE g[k + U] = v[k]
    <3>1. PICK m \in Nat : m = k + U /\ m - U = k /\ m \in 1..U + V /\ ~(m <= U)
      BY <2>3
    <3>2. g[m] = v[k]
      BY <2>1, <3>1
    <3> QED BY <3>1, <3>2
  <2> QED BY <2>2, <2>3
<1>4. ASSUME NEW i, NEW j, StandsAt(u, i, j) PROVE StandsAt(g, i, j) /\ Cut(u, i, j) = Cut(g, i, j)
  <2>1. i \in Nat /\ j \in Nat /\ 1 <= i /\ i <= j /\ j <= U
    BY <1>2, <1>4, StandsTyped
  <2>2. Alike(u, g, i, j, 0)
    BY <1>3, <2>1 DEF Alike
  <2>3. i = i + 0 /\ j = j + 0 /\ i >= 1 /\ j <= Size(g)
    BY <1>2, <2>1
  <2> QED BY <1>4, <2>1, <2>2, <2>3, StandsElsewhere
<1>5. ASSUME NEW i, NEW j, StandsAt(g, i, j), j <= U PROVE StandsAt(u, i, j) /\ Cut(u, i, j) = Cut(g, i, j)
  <2>1. i \in Nat /\ j \in Nat /\ 1 <= i /\ i <= j
    BY <1>5, StandsTyped
  <2>2. Alike(g, u, i, j, 0)
    BY <1>3, <1>5, <2>1 DEF Alike
  <2>3. i = i + 0 /\ j = j + 0 /\ i >= 1 /\ j <= Size(u)
    BY <1>2, <1>5, <2>1
  <2>4. StandsAt(u, i, j) /\ Cut(g, i, j) = Cut(u, i, j)
    BY <1>5, <2>1, <2>2, <2>3, StandsElsewhere
  <2> QED BY <2>4
<1>6. ASSUME NEW i, NEW j, StandsAt(v, i, j)
      PROVE  \E a, b \in Nat : StandsAt(g, a, b) /\ Cut(v, i, j) = Cut(g, a, b)
  <2>1. i \in Nat /\ j \in Nat /\ 1 <= i /\ i <= j /\ j <= V
    BY <1>2, <1>6, StandsTyped
  <2>2. Alike(v, g, i, j, U)
    BY <1>3, <2>1 DEF Alike
  <2>3. PICK a \in Nat, b \in Nat : a = i + U /\ b = j + U /\ a >= 1 /\ b <= Size(g)
    BY <1>2, <2>1
  <2>4. StandsAt(g, a, b) /\ Cut(v, i, j) = Cut(g, a, b)
    BY <1>6, <2>2, <2>3, StandsElsewhere
  <2> QED BY <2>4
<1>7. ASSUME NEW a, NEW b, StandsAt(g, a, b), a > U
      PROVE  \E i, j \in Nat : StandsAt(v, i, j) /\ Cut(g, a, b) = Cut(v, i, j)
  <2>1. a \in Nat /\ b \in Nat /\ a <= b /\ b <= U + V
    BY <1>2, <1>7, StandsTyped
  <2>2. PICK s \in Int : s = 0 - U
    OBVIOUS
  <2>3. PICK i \in Nat, j \in Nat : i = a + s /\ j = b + s /\ i >= 1 /\ j <= Size(v)
    <3>1. a + s \in Nat /\ b + s \in Nat /\ a + s >= 1 /\ b + s <= Size(v)
      BY <1>2, <1>7, <2>1, <2>2
    <3> QED BY <3>1
  <2>4. Alike(g, v, a, b, s)
    <3>1. ASSUME NEW k \in a..b PROVE g[k] = v[k + s]
      <4>1. PICK m \in Nat : m = k + s /\ 1 <= m /\ m <= V /\ m + U = k
        <5>1. k + s \in Nat /\ 1 <= k + s /\ k + s <= V /\ k + s + U = k
          BY <1>7, <2>1, <2>2
        <5> QED BY <5>1
      <4> QED BY <1>3, <4>1
    <3> QED BY <3>1 DEF Alike
  <2>5. StandsAt(v, i, j) /\ Cut(g, a, b) = Cut(v, i, j)
    BY <1>7, <2>1, <2>3, <2>4, StandsElsewhere
  <2> QED BY <2>5
<1>8. ASSUME NEW i, NEW j, StandsAt(g, i, j), i <= U, U < j PROVE FALSE
  <2>1. i \in Nat /\ j \in Nat /\ 1 <= i /\ i <= j /\ j <= U + V /\ Open(g, i, j) = 0
    BY <1>2, <1>8, StandsTyped
  <2>2. Open(g, i, U) >= 1 /\ Open(g, i, U) \in Nat
    BY <1>8, <2>1, OpenInside
  <2>3. PICK l \in Nat, n \in Nat : l = U + 1 /\ j = n + U /\ 1 <= n /\ n <= V /\ l = 1 + U
    <3>1. j - U \in Nat /\ j = j - U + U /\ 1 <= j - U /\ j - U <= V
      BY <1>8, <2>1
    <3> QED BY <3>1
  <2>4. Alike(v, g, 1, n, U)
    BY <1>3, <2>3 DEF Alike
  <2>5. Open(v, 1, n) = Open(g, l, j)
    BY <2>1, <2>3, <2>4, OpenSame
  <2>6. Open(v, 1, n) \in Nat
    BY <1>2, <2>3, CodeOpens
  <2>7. Open(g, i, j) = Open(g, i, U) + Open(g, l, j)
    <3>1. i <= U + 1 /\ U <= j
      BY <1>8, <2>1
    <3> QED BY <2>1, <2>3, <3>1, OpenSplit
  <2> QED BY <2>1, <2>2, <2>5, <2>6, <2>7
<1>9. ASSUME e \in CodesOf(g) PROVE e \in CodesOf(u) \/ e \in CodesOf(v)
  <2>1. PICK i \in Nat, j \in Nat : StandsAt(g, i, j) /\ e = Cut(g, i, j)
    BY <1>9, CodesAre
  <2>2. CASE j <= U
    <3>1. StandsAt(u, i, j) /\ e = Cut(u, i, j)
      BY <1>5, <2>1, <2>2
    <3> QED BY <3>1, CodesAre
  <2>3. CASE i > U
    <3>1. PICK k \in Nat, l \in Nat : StandsAt(v, k, l) /\ e = Cut(v, k, l)
      BY <1>7, <2>1, <2>3
    <3> QED BY <3>1, CodesAre
  <2> QED BY <1>8, <2>1, <2>2, <2>3
<1>10. ASSUME e \in CodesOf(u) PROVE e \in CodesOf(g)
  <2>1. PICK i \in Nat, j \in Nat : StandsAt(u, i, j) /\ e = Cut(u, i, j)
    BY <1>10, CodesAre
  <2>2. StandsAt(g, i, j) /\ e = Cut(g, i, j)
    BY <1>4, <2>1
  <2> QED BY <2>2, CodesAre
<1>11. ASSUME e \in CodesOf(v) PROVE e \in CodesOf(g)
  <2>1. PICK i \in Nat, j \in Nat : StandsAt(v, i, j) /\ e = Cut(v, i, j)
    BY <1>11, CodesAre
  <2>2. PICK a \in Nat, b \in Nat : StandsAt(g, a, b) /\ e = Cut(g, a, b)
    BY <1>6, <2>1
  <2> QED BY <2>2, CodesAre
<1> QED BY <1>1, <1>9, <1>10, <1>11

\* A symbol cut out of a text that no other holds takes itself away.
LEMMA CutCodes ==
  ASSUME NEW a \in Text, NEW b \in Text, NEW c \in Text, IsCode(c), NEW t, t = Glue(Glue(a, c), b), NEW h, h = Glue(a, b),
         \A i, j \in Nat : StandsAt(t, i, j) => ~(i <= Size(a) /\ Size(a) + Size(c) <= j), NEW e
  PROVE  e \in CodesOf(t) <=> e \in CodesOf(h) \/ e \in CodesOf(c)
<1>1. PICK A \in Nat, B \in Nat, C \in Nat : A = Size(a) /\ B = Size(b) /\ C = Size(c)
  BY TextSize
<1>2. t \in Text /\ h \in Text /\ Size(t) = A + C + B /\ Size(h) = A + B
  <2>1. Glue(a, c) \in Text /\ Size(Glue(a, c)) = A + C
    BY <1>1, GlueIs
  <2>2. Size(Glue(Glue(a, c), b)) = A + C + B /\ Glue(Glue(a, c), b) \in Text
    BY <1>1, <2>1, GlueIs
  <2> QED BY <1>1, <2>2, GlueIs
<1>3. /\ \A k \in Nat : 1 <= k /\ k <= A => t[k] = h[k]
      /\ \A k \in Nat : 1 <= k /\ k <= C => t[k + A] = c[k]
      /\ \A k \in Nat : A < k /\ k <= A + B => h[k] = t[k + C]
  <2>1. PICK m \in Text : m = Glue(a, c) /\ Size(m) = A + C
    BY <1>1, GlueIs
  <2>2. \A k \in 1..A + C : m[k] = IF k <= A THEN a[k] ELSE c[k - A]
    BY <1>1, <2>1, GlueIs
  <2>3. \A k \in 1..A + C + B : t[k] = IF k <= A + C THEN m[k] ELSE b[k - (A + C)]
    BY <1>1, <2>1, GlueIs
  <2>4. \A k \in 1..A + B : h[k] = IF k <= A THEN a[k] ELSE b[k - A]
    BY <1>1, GlueIs
  <2>5. ASSUME NEW k \in Nat, 1 <= k, k <= A PROVE t[k] = h[k]
    <3>1. k \in 1..A + C /\ k \in 1..A + C + B /\ k \in 1..A + B /\ k <= A + C
      BY <2>5
    <3> QED BY <2>2, <2>3, <2>4, <2>5, <3>1
  <2>6. ASSUME NEW k \in Nat, 1 <= k, k <= C PROVE t[k + A] = c[k]
    <3>1. PICK l \in Nat : l = k + A /\ l - A = k /\ l \in 1..A + C /\ l \in 1..A + C + B /\ l <= A + C /\ ~(l <= A)
      BY <2>6
    <3>2. t[l] = c[k]
      BY <2>2, <2>3, <3>1
    <3> QED BY <3>1, <3>2
  <2>7. ASSUME NEW k \in Nat, A < k, k <= A + B PROVE h[k] = t[k + C]
    <3>1. PICK l \in Nat : l = k + C /\ l - (A + C) = k - A /\ l \in 1..A + C + B /\ ~(l <= A + C) /\ k \in 1..A + B /\ ~(k <= A)
      BY <2>7
    <3>2. t[l] = h[k]
      BY <2>3, <2>4, <3>1
    <3> QED BY <3>1, <3>2
  <2> QED BY <2>5, <2>6, <2>7
<1>4. /\ C >= 1 /\ Open(c, 1, C) = 0
      /\ \A n \in Nat : 1 <= n /\ n <= C => Open(c, 1, n) \in Nat /\ (n < C => Open(c, 1, n) >= 1)
  BY <1>1, CodeOpens
<1>5. PICK D \in Nat, E \in Nat, F \in Nat : D = A + 1 /\ E = A + C /\ F = E + 1 /\ D = 1 + A
  OBVIOUS
<1>6. ASSUME NEW n \in Nat, 1 <= n, n <= C, NEW k \in Nat, k = n + A PROVE Open(t, D, k) = Open(c, 1, n)
  <2>1. Alike(c, t, 1, n, A)
    BY <1>3, <1>6 DEF Alike
  <2> QED BY <1>5, <1>6, <2>1, OpenSame
<1>7. \A i, j \in Nat : StandsAt(t, i, j) => ~(i <= A /\ E <= j)
  BY <1>1, <1>5
<1>8. ASSUME NEW i \in Nat, NEW k \in Nat, 1 <= i, k <= A, i <= k + 1 PROVE Open(t, i, k) = Open(h, i, k) /\ Open(t, i, k) \in Int
  <2>1. Alike(t, h, i, k, 0)
    BY <1>3, <1>8 DEF Alike
  <2>2. i = i + 0 /\ k = k + 0
    OBVIOUS
  <2>3. Open(t, i, k) = Open(h, i, k)
    BY <1>8, <2>1, <2>2, OpenSame
  <2> QED BY <1>8, <2>3, OpenTyped
\* from the text to the rest and the symbol
<1>11. ASSUME NEW i, NEW j, StandsAt(t, i, j), j <= A PROVE StandsAt(h, i, j) /\ Cut(t, i, j) = Cut(h, i, j)
  <2>1. i \in Nat /\ j \in Nat /\ 1 <= i /\ i <= j
    BY <1>11, StandsTyped
  <2>2. Alike(t, h, i, j, 0)
    BY <1>3, <1>11, <2>1 DEF Alike
  <2>3. i = i + 0 /\ j = j + 0 /\ i >= 1 /\ j <= Size(h)
    BY <1>2, <1>11, <2>1
  <2> QED BY <1>2, <1>11, <2>1, <2>2, <2>3, StandsElsewhere
<1>12. ASSUME NEW i, NEW j, StandsAt(t, i, j), i > E
       PROVE  \E k, l \in Nat : StandsAt(h, k, l) /\ Cut(t, i, j) = Cut(h, k, l)
  <2>1. i \in Nat /\ j \in Nat /\ i <= j /\ j <= A + C + B
    BY <1>2, <1>12, StandsTyped
  <2>2. PICK s \in Int : s = 0 - C
    OBVIOUS
  <2>3. PICK k \in Nat, l \in Nat : k = i + s /\ l = j + s /\ k >= 1 /\ l <= Size(h)
    <3>1. i + s \in Nat /\ j + s \in Nat /\ i + s >= 1 /\ j + s <= Size(h)
      BY <1>2, <1>5, <1>12, <2>1, <2>2
    <3> QED BY <3>1
  <2>4. Alike(t, h, i, j, s)
    <3>1. ASSUME NEW n \in i..j PROVE t[n] = h[n + s]
      <4>1. PICK m \in Nat : m = n + s /\ A < m /\ m <= A + B /\ m + C = n
        <5>1. n + s \in Nat /\ A < n + s /\ n + s <= A + B /\ n + s + C = n
          BY <1>5, <1>12, <2>1, <2>2
        <5> QED BY <5>1
      <4> QED BY <1>3, <4>1
    <3> QED BY <3>1 DEF Alike
  <2>5. StandsAt(h, k, l) /\ Cut(t, i, j) = Cut(h, k, l)
    BY <1>2, <1>12, <2>1, <2>3, <2>4, StandsElsewhere
  <2> QED BY <2>5
<1>13. ASSUME NEW i, NEW j, StandsAt(t, i, j), A < i, j <= E
       PROVE  \E k, l \in Nat : StandsAt(c, k, l) /\ Cut(t, i, j) = Cut(c, k, l)
  <2>1. i \in Nat /\ j \in Nat /\ i <= j
    BY <1>13, StandsTyped
  <2>2. PICK s \in Int : s = 0 - A
    OBVIOUS
  <2>3. PICK k \in Nat, l \in Nat : k = i + s /\ l = j + s /\ k >= 1 /\ l <= Size(c)
    <3>1. i + s \in Nat /\ j + s \in Nat /\ i + s >= 1 /\ j + s <= Size(c)
      BY <1>1, <1>5, <1>13, <2>1, <2>2
    <3> QED BY <3>1
  <2>4. Alike(t, c, i, j, s)
    <3>1. ASSUME NEW n \in i..j PROVE t[n] = c[n + s]
      <4>1. PICK m \in Nat : m = n + s /\ 1 <= m /\ m <= C /\ m + A = n
        <5>1. n + s \in Nat /\ 1 <= n + s /\ n + s <= C /\ n + s + A = n
          BY <1>5, <1>13, <2>1, <2>2
        <5> QED BY <5>1
      <4> QED BY <1>3, <4>1
    <3> QED BY <3>1 DEF Alike
  <2>5. StandsAt(c, k, l) /\ Cut(t, i, j) = Cut(c, k, l)
    BY <1>2, <1>13, <2>1, <2>3, <2>4, StandsElsewhere
  <2> QED BY <2>5
<1>14. ASSUME NEW i, NEW j, StandsAt(t, i, j), A < i, i <= E PROVE j <= E
  <2> SUFFICES ASSUME E < j PROVE FALSE
    <3>1. j \in Nat
      BY <1>14, StandsTyped
    <3> QED BY <3>1
  <2>1. i \in Nat /\ j \in Nat
    BY <1>14, StandsTyped
  <2>2. Open(t, i, E) >= 1 /\ Open(t, i, E) \in Nat
    BY <1>2, <1>14, <2>1, OpenInside
  <2>3. Open(t, D, E) = 0
    BY <1>4, <1>5, <1>6
  <2>4. CASE i = D
    BY <2>2, <2>3, <2>4
  <2>5. CASE i # D
    <3>1. PICK n \in Nat, k \in Nat : k = n + A /\ i = k + 1 /\ 1 <= n /\ n < C /\ n <= C /\ D <= k + 1 /\ k <= E
      <4>1. i - 1 - A \in Nat /\ i - 1 \in Nat /\ i - 1 = i - 1 - A + A /\ i = i - 1 + 1 /\ 1 <= i - 1 - A /\ i - 1 - A < C /\ i - 1 - A <= C
            /\ D <= i - 1 + 1 /\ i - 1 <= E
        BY <1>5, <1>14, <2>1, <2>5
      <4> QED BY <4>1
    <3>2. Open(t, D, E) = Open(t, D, k) + Open(t, i, E)
      <4>1. D \in Nat /\ k \in Nat /\ D <= k + 1 /\ i \in Nat /\ i = k + 1 /\ E \in Nat /\ k <= E
        BY <1>5, <2>1, <3>1
      <4> QED BY <4>1, OpenSplit
    <3>3. Open(t, D, k) \in Nat /\ Open(t, D, k) >= 1
      BY <1>4, <1>6, <3>1
    <3> QED BY <2>2, <2>3, <3>2, <3>3
  <2> QED BY <2>4, <2>5
<1>15. ASSUME NEW i, NEW j, StandsAt(t, i, j), i <= A, A < j PROVE FALSE
  <2>1. i \in Nat /\ j \in Nat /\ 1 <= i /\ Open(t, i, j) = 0 /\ j < E
    <3>1. i \in Nat /\ j \in Nat /\ 1 <= i /\ Open(t, i, j) = 0
      BY <1>15, StandsTyped
    <3> QED BY <1>7, <1>15, <3>1
  <2>2. Open(t, i, A) >= 1 /\ Open(t, i, A) \in Nat
    BY <1>2, <1>15, <2>1, OpenInside
  <2>3. PICK n \in Nat : j = n + A /\ 1 <= n /\ n <= C
    <3>1. j - A \in Nat /\ j = j - A + A /\ 1 <= j - A /\ j - A <= C
      BY <1>5, <1>15, <2>1
    <3> QED BY <3>1
  <2>4. Open(t, D, j) \in Nat
    BY <1>4, <1>6, <2>1, <2>3
  <2>5. Open(t, i, j) = Open(t, i, A) + Open(t, D, j)
    <3>1. i <= A + 1 /\ A <= j
      BY <1>15, <2>1
    <3> QED BY <1>5, <2>1, <3>1, OpenSplit
  <2> QED BY <2>1, <2>2, <2>4, <2>5
<1>16. ASSUME e \in CodesOf(t) PROVE e \in CodesOf(h) \/ e \in CodesOf(c)
  <2>1. PICK i \in Nat, j \in Nat : StandsAt(t, i, j) /\ e = Cut(t, i, j)
    BY <1>2, <1>16, CodesAre
  <2>2. CASE j <= A
    <3>1. StandsAt(h, i, j) /\ e = Cut(h, i, j)
      BY <1>11, <2>1, <2>2
    <3> QED BY <1>2, <3>1, CodesAre
  <2>3. CASE i > E
    <3>1. PICK k \in Nat, l \in Nat : StandsAt(h, k, l) /\ e = Cut(h, k, l)
      BY <1>12, <2>1, <2>3
    <3> QED BY <1>2, <3>1, CodesAre
  <2>4. CASE A < i /\ i <= E
    <3>1. j <= E
      BY <1>14, <2>1, <2>4
    <3>2. PICK k \in Nat, l \in Nat : StandsAt(c, k, l) /\ e = Cut(c, k, l)
      BY <1>13, <2>1, <2>4, <3>1
    <3> QED BY <3>2, CodesAre
  <2> QED BY <1>15, <2>1, <2>2, <2>3, <2>4
\* and back
<1>17. ASSUME NEW i, NEW j, StandsAt(c, i, j)
       PROVE  \E k, l \in Nat : StandsAt(t, k, l) /\ Cut(c, i, j) = Cut(t, k, l)
  <2>1. i \in Nat /\ j \in Nat /\ 1 <= i /\ i <= j /\ j <= C
    BY <1>1, <1>17, StandsTyped
  <2>2. Alike(c, t, i, j, A)
    BY <1>3, <2>1 DEF Alike
  <2>3. PICK k \in Nat, l \in Nat : k = i + A /\ l = j + A /\ k >= 1 /\ l <= Size(t)
    BY <1>2, <2>1
  <2>4. StandsAt(t, k, l) /\ Cut(c, i, j) = Cut(t, k, l)
    BY <1>2, <1>17, <2>2, <2>3, StandsElsewhere
  <2> QED BY <2>4
<1>18. ASSUME NEW i, NEW j, StandsAt(h, i, j), j <= A PROVE StandsAt(t, i, j) /\ Cut(h, i, j) = Cut(t, i, j)
  <2>1. i \in Nat /\ j \in Nat /\ 1 <= i /\ i <= j
    BY <1>18, StandsTyped
  <2>2. Alike(h, t, i, j, 0)
    BY <1>3, <1>18, <2>1 DEF Alike
  <2>3. i = i + 0 /\ j = j + 0 /\ i >= 1 /\ j <= Size(t)
    BY <1>2, <1>18, <2>1
  <2> QED BY <1>2, <1>18, <2>1, <2>2, <2>3, StandsElsewhere
<1>19. ASSUME NEW i, NEW j, StandsAt(h, i, j), i > A
       PROVE  \E k, l \in Nat : StandsAt(t, k, l) /\ Cut(h, i, j) = Cut(t, k, l)
  <2>1. i \in Nat /\ j \in Nat /\ 1 <= i /\ i <= j /\ j <= A + B
    BY <1>2, <1>19, StandsTyped
  <2>2. Alike(h, t, i, j, C)
    BY <1>3, <1>19, <2>1 DEF Alike
  <2>3. PICK k \in Nat, l \in Nat : k = i + C /\ l = j + C /\ k >= 1 /\ l <= Size(t)
    BY <1>2, <2>1
  <2>4. StandsAt(t, k, l) /\ Cut(h, i, j) = Cut(t, k, l)
    BY <1>2, <1>19, <2>2, <2>3, StandsElsewhere
  <2> QED BY <2>4
<1>20. ASSUME NEW i, NEW j, StandsAt(h, i, j), i <= A, A < j PROVE FALSE
  <2>1. /\ i \in Nat /\ j \in Nat /\ 1 <= i /\ i <= j /\ j <= A + B /\ Open(h, i, j) = 0 /\ h[i] = "def"
        /\ \A k \in Nat : i <= k /\ k < j => Open(h, i, k) # 0
    BY <1>2, <1>20 DEF StandsAt
  <2>2. Open(h, i, A) >= 1 /\ Open(h, i, A) \in Nat
    BY <1>2, <1>20, <2>1, OpenInside
  <2>3. Open(t, i, A) = Open(h, i, A)
    BY <1>8, <1>20, <2>1
  <2>4. PICK l \in Nat : l = j + C /\ E <= l
    BY <1>5, <1>20, <2>1
  <2>5. ASSUME NEW n \in Nat, 1 <= n, n <= C, NEW k \in Nat, k = n + A PROVE Open(t, i, k) \in Nat /\ Open(t, i, k) >= 1
                                                                    /\ (n = C => Open(t, i, k) = Open(t, i, A))
    <3>1. i <= A + 1 /\ A <= k
      BY <1>20, <2>1, <2>5
    <3>2. Open(t, i, k) = Open(t, i, A) + Open(t, D, k)
      BY <1>5, <2>1, <3>1, OpenSplit
    <3>3. Open(t, D, k) \in Nat /\ (n = C => Open(t, D, k) = 0)
      BY <1>4, <1>6, <2>5
    <3> QED BY <2>2, <2>3, <3>2, <3>3
  <2>6. ASSUME NEW m \in Nat, A < m, m <= j, NEW k \in Nat, k = m + C PROVE Open(t, i, k) = Open(h, i, m)
    <3>1. Open(t, i, E) = Open(t, i, A)
      BY <1>4, <1>5, <2>5
    <3>2. Open(t, i, k) = Open(t, i, E) + Open(t, F, k)
      <4>1. i <= E + 1 /\ E <= k
        BY <1>5, <1>20, <2>1, <2>6
      <4>2. i \in Nat /\ E \in Nat /\ F \in Nat /\ F = E + 1
        BY <1>5, <2>1
      <4> QED BY <4>1, <4>2, OpenSplit
    <3>3. Open(h, i, m) = Open(h, i, A) + Open(h, D, m)
      <4>1. i <= A + 1 /\ A <= m
        BY <1>20, <2>1, <2>6
      <4> QED BY <1>5, <2>1, <4>1, OpenSplit
    <3>4. Alike(h, t, D, m, C)
      BY <1>3, <1>5, <2>1, <2>6 DEF Alike
    <3>5. F = D + C /\ D <= m + 1
      BY <1>5, <2>6
    <3>6. Open(h, D, m) = Open(t, F, k)
      BY <2>6, <3>4, <3>5, OpenSame
    <3> QED BY <2>3, <3>1, <3>2, <3>3, <3>6
  <2>7. StandsAt(t, i, l)
    <3>1. Open(t, i, l) = 0
      BY <1>20, <2>1, <2>4, <2>6
    <3>2. ASSUME NEW k \in Nat, i <= k, k < l PROVE Open(t, i, k) # 0
      <4>1. CASE k <= A
        <5>1. k < j /\ i <= k + 1
          BY <1>20, <2>1, <3>2, <4>1
        <5> QED BY <1>8, <2>1, <3>2, <4>1, <5>1
      <4>2. CASE A < k /\ k <= E
        <5>1. PICK n \in Nat : k = n + A /\ 1 <= n /\ n <= C
          <6>1. k - A \in Nat /\ k = k - A + A /\ 1 <= k - A /\ k - A <= C
            BY <1>5, <3>2, <4>2
          <6> QED BY <6>1
        <5> QED BY <2>5, <5>1
      <4>3. CASE E < k
        <5>1. PICK m \in Nat : k = m + C /\ A < m /\ m < j /\ m <= j /\ i <= m
          <6>1. k - C \in Nat /\ k = k - C + C /\ A < k - C /\ k - C < j /\ k - C <= j /\ i <= k - C
            BY <1>5, <1>20, <2>1, <2>4, <3>2, <4>3
          <6> QED BY <6>1
        <5> QED BY <2>1, <2>6, <5>1
      <4> QED BY <4>1, <4>2, <4>3
    <3>3. t[i] = "def" /\ i <= l /\ l <= Size(t)
      BY <1>2, <1>3, <1>20, <2>1, <2>4
    <3> QED BY <2>1, <3>1, <3>2, <3>3 DEF StandsAt
  <2> QED BY <1>7, <1>20, <2>1, <2>4, <2>7
<1>21. ASSUME e \in CodesOf(h) PROVE e \in CodesOf(t)
  <2>1. PICK i \in Nat, j \in Nat : StandsAt(h, i, j) /\ e = Cut(h, i, j)
    BY <1>2, <1>21, CodesAre
  <2>2. CASE j <= A
    <3>1. StandsAt(t, i, j) /\ e = Cut(t, i, j)
      BY <1>18, <2>1, <2>2
    <3> QED BY <1>2, <3>1, CodesAre
  <2>3. CASE i > A
    <3>1. PICK k \in Nat, l \in Nat : StandsAt(t, k, l) /\ e = Cut(t, k, l)
      BY <1>19, <2>1, <2>3
    <3> QED BY <1>2, <3>1, CodesAre
  <2> QED BY <1>20, <2>1, <2>2, <2>3
<1>22. ASSUME e \in CodesOf(c) PROVE e \in CodesOf(t)
  <2>1. PICK i \in Nat, j \in Nat : StandsAt(c, i, j) /\ e = Cut(c, i, j)
    BY <1>22, CodesAre
  <2>2. PICK k \in Nat, l \in Nat : StandsAt(t, k, l) /\ e = Cut(t, k, l)
    BY <1>17, <2>1
  <2> QED BY <1>2, <2>2, CodesAre
<1> QED BY <1>16, <1>21, <1>22

\* What stands at a place, and the text without it.
CodeAt(t, p) == SubSeq(t, p.from, p.to)
CutOut(t, p) == SubSeq(t, 1, p.from - 1) \o SubSeq(t, p.to + 1, Len(t))

LEMMA CutOutTyped ==
  ASSUME NEW t \in Text, NEW p, IsSpan(p), p.to <= Size(t)
  PROVE  /\ CutOut(t, p) \in Text /\ CodeAt(t, p) \in Text
         /\ CutOut(t, p) = Glue(Cut(t, 1, p.from - 1), Cut(t, p.to + 1, Size(t)))
         /\ CodeAt(t, p) = Cut(t, p.from, p.to)
<1>1. PICK i \in Nat, j \in Nat, L \in Nat, a \in Nat, b \in Nat :
        i = p.from /\ j = p.to /\ L = Size(t) /\ a = p.from - 1 /\ b = p.to + 1 /\ 1 <= i /\ i <= j /\ j <= L /\ a <= L /\ 1 <= a + 1
        /\ b >= 1 /\ b <= L + 1 /\ i <= j + 1
  <2>1. Size(t) \in Nat
    BY TextSize
  <2> QED BY <2>1 DEF IsSpan
<1>2. Cut(t, 1, a) \in Text /\ Cut(t, b, L) \in Text /\ Cut(t, i, j) \in Text
  <2>1. 1 \in Nat /\ 1 >= 1 /\ a \in Nat /\ a <= Size(t) /\ 1 <= a + 1
    BY <1>1
  <2>2. b \in Nat /\ b >= 1 /\ L \in Nat /\ L <= Size(t) /\ b <= L + 1
    BY <1>1
  <2>3. i \in Nat /\ i >= 1 /\ j \in Nat /\ j <= Size(t) /\ i <= j + 1
    BY <1>1
  <2> HIDE <1>1
  <2> QED BY <2>1, <2>2, <2>3, CutIs
<1>3. CutOut(t, p) = Glue(Cut(t, 1, p.from - 1), Cut(t, p.to + 1, Size(t))) /\ CodeAt(t, p) = Cut(t, p.from, p.to)
  BY Zenon DEF CutOut, CodeAt, Glue, Cut, Size
<1>4. Glue(Cut(t, 1, a), Cut(t, b, L)) \in Text
  BY <1>2, GlueIs
<1> QED BY <1>1, <1>2, <1>3, <1>4

\* A symbol that no other holds, and what is left without it.
LEMMA CodesWithout ==
  ASSUME NEW t \in Text, NEW d \in Definitions(t), \A e \in Definitions(t) : ~(e.from < d.from /\ d.to <= e.to),
         NEW c, c = CodeAt(t, d), NEW h, h = CutOut(t, d)
  PROVE  c \in Text /\ h \in Text /\ IsCode(c) /\ \A e : e \in CodesOf(t) <=> e \in CodesOf(h) \/ e \in CodesOf(c)
<1>1. IsSpan(d) /\ d.to <= Size(t)
  BY SpanOfDefinition
<1>2. PICK i \in Nat, j \in Nat, L \in Nat, a \in Nat, b \in Nat :
        i = d.from /\ j = d.to /\ L = Size(t) /\ a = d.from - 1 /\ b = d.to + 1 /\ 1 <= i /\ i <= j /\ j <= L /\ a <= L /\ a <= j
        /\ b = j + 1 /\ i = a + 1
  <2>1. Size(t) \in Nat
    BY TextSize
  <2> QED BY <1>1, <2>1 DEF IsSpan
<1>3. c \in Text /\ h \in Text /\ c = Cut(t, i, j) /\ h = Glue(Cut(t, 1, a), Cut(t, b, L))
  BY <1>1, <1>2, CutOutTyped
<1>4. PICK m \in Text : m = Cut(t, 1, j) /\ Size(m) = j /\ Cut(t, b, L) \in Text /\ t = Glue(m, Cut(t, b, L))
  BY <1>2, Broken
<1>5. Cut(m, 1, a) \in Text /\ Size(Cut(m, 1, a)) = a /\ m = Glue(Cut(m, 1, a), Cut(m, i, j))
  BY <1>2, <1>4, Broken
<1>6. Cut(m, 1, a) = Cut(t, 1, a) /\ Cut(m, i, j) = Cut(t, i, j)
  <2>1. 1 <= a + 1 /\ i <= j + 1 /\ i >= 1 /\ 1 >= 1 /\ 1 \in Nat
    BY <1>2
  <2> QED BY <1>2, <1>4, <2>1, CutOfFirst
<1>7. PICK u \in Text, v \in Text : u = Cut(t, 1, a) /\ v = Cut(t, b, L) /\ Size(u) = a /\ t = Glue(Glue(u, c), v) /\ h = Glue(u, v)
  BY <1>3, <1>4, <1>5, <1>6
<1>8. StandsAt(t, i, j)
  BY <1>2, StandingDefinition
<1>12. i \in Nat /\ j \in Nat /\ L \in Nat /\ 1 <= i /\ i <= j /\ j <= L /\ L = Size(t) /\ i = a + 1 /\ a \in Nat
  BY <1>2
<1>9. IsCode(c) /\ Size(c) = j - i + 1
  <2>1. Size(c) = j - i + 1 /\ \A k \in 1..j - i + 1 : c[k] = t[i + k - 1]
    <3>1. i >= 1 /\ i <= j + 1 /\ j <= Size(t)
      BY <1>12
    <3>2. Size(Cut(t, i, j)) = j - i + 1 /\ \A k \in 1..j - i + 1 : Cut(t, i, j)[k] = t[i + k - 1]
      BY <3>1, CutIs
    <3> QED BY <1>3, <3>2
  <2>2. PICK s \in Int, n \in Nat : s = 1 - i /\ n = Size(c) /\ 1 = i + s /\ n = j + s /\ n <= Size(c)
    <3>1. 1 - i \in Int /\ 1 = i + (1 - i) /\ Size(c) = j + (1 - i) /\ j + (1 - i) \in Nat
      BY <1>12, <2>1
    <3> QED BY <3>1
  <2>3. Alike(t, c, i, j, s)
    <3>1. ASSUME NEW k \in i..j PROVE t[k] = c[k + s]
      <4>1. PICK m2 \in Nat : m2 = k + s /\ m2 \in 1..j - i + 1 /\ i + m2 - 1 = k
        <5>1. k + s \in Nat /\ k + s \in 1..j - i + 1 /\ i + (k + s) - 1 = k
          BY <1>12, <2>2
        <5> QED BY <5>1
      <4> QED BY <2>1, <4>1
    <3> QED BY <3>1 DEF Alike
  <2>4. StandsAt(c, 1, n)
    <3>1. PICK k \in Nat : k = 1 /\ k >= 1 /\ k = i + s
      BY <2>2
    <3>2. c \in Text /\ n \in Nat /\ n = j + s /\ n <= Size(c) /\ k \in Nat /\ k = i + s /\ k >= 1
      BY <1>3, <2>2, <3>1
    <3>3. StandsAt(c, k, n)
      BY <1>8, <2>3, <3>2, StandsElsewhere
    <3> QED BY <3>1, <3>3
  <2> QED BY <2>1, <2>2, <2>4 DEF IsCode
<1>10. ASSUME NEW k \in Nat, NEW l \in Nat, StandsAt(t, k, l) PROVE ~(k <= Size(u) /\ Size(u) + Size(c) <= l)
  <2>1. PICK e \in Definitions(t) : e.from = k /\ e.to = l
    BY <1>10, StandingDefinition
  <2>2. ~(k < i /\ j <= l)
    BY <1>2, <2>1
  <2> QED BY <1>7, <1>9, <1>12, <2>2
<1>11. ASSUME NEW e PROVE e \in CodesOf(t) <=> e \in CodesOf(h) \/ e \in CodesOf(c)
  BY <1>3, <1>7, <1>9, <1>10, CutCodes
<1> QED BY <1>3, <1>9, <1>11

LEMMA NoCodes == CodesOf(NoSource) = {} /\ CodesOf(<<>>) = {} /\ <<>> \in Text
<1>1. CodesOf(NoSource) = {}
  BY DefinitionsAre DEF CodesOf
<1>2. <<>> \in Text /\ Size(<<>>) = 0
  BY DEF Text, Size
<1>3. ASSUME NEW e \in CodesOf(<<>>) PROVE FALSE
  <2>1. PICK i \in Nat, j \in Nat : StandsAt(<<>>, i, j)
    BY <1>2, CodesAre
  <2>2. 1 <= i /\ i <= j /\ j <= 0
    BY <1>2, <2>1, StandsTyped
  <2> QED BY <2>2
<1> QED BY <1>1, <1>2, <1>3

LEMMA CodesAt == ASSUME NEW src, NEW e PROVE e \in Codes(src) <=> \E f \in CodeFiles : e \in CodesOf(src[f])
BY Zenon DEF Codes, CodesOf

\* Cut out of one file and pasted into another, or into the same.
LEMMA MovedCodes ==
  ASSUME NEW src \in Sources, NEW o \in CodeFiles, NEW g \in CodeFiles, NEW d \in Definitions(src[o]),
         \A e \in Definitions(src[o]) : ~(e.from < d.from /\ d.to <= e.to),
         NEW c, c = CodeAt(src[o], d), NEW h, h = CutOut(src[o], d),
         NEW t \in Text, t = IF g = o THEN h ELSE IF src[g] = NoSource THEN <<>> ELSE src[g],
         NEW cl, \A f \in CodeFiles : cl[f] = IF f = g THEN Glue(t, c) ELSE IF f = o THEN h ELSE src[f]
  PROVE  Codes(cl) = Codes(src)
<1>1. src[o] \in Text
  <2>1. src[o] # NoSource
    BY DefinitionsAre
  <2> QED BY <2>1 DEF Sources, TokenTexts, Text
<1>2. c \in Text /\ h \in Text /\ IsCode(c) /\ \A e : e \in CodesOf(src[o]) <=> e \in CodesOf(h) \/ e \in CodesOf(c)
  BY <1>1, CodesWithout, Zenon
<1>3. \A e : e \in CodesOf(Glue(t, c)) <=> e \in CodesOf(t) \/ e \in CodesOf(c)
  BY <1>2, GlueCodes
<1>4. g # o => \A e : e \in CodesOf(t) <=> e \in CodesOf(src[g])
  BY NoCodes
<1>5. ASSUME NEW e PROVE e \in Codes(cl) <=> e \in Codes(src)
  <2>1. CASE g = o
    <3>1. cl[o] = Glue(h, c) /\ \A f \in CodeFiles : f # o => cl[f] = src[f]
      BY <2>1
    <3>2. e \in CodesOf(cl[o]) <=> e \in CodesOf(src[o])
      BY <1>2, <1>3, <2>1, <3>1
    <3>3. \A f \in CodeFiles : e \in CodesOf(cl[f]) <=> e \in CodesOf(src[f])
      BY <3>1, <3>2
    <3> QED BY <3>3, CodesAt
  <2>2. CASE g # o
    <3>1. cl[o] = h /\ cl[g] = Glue(t, c) /\ \A f \in CodeFiles : f # o /\ f # g => cl[f] = src[f]
      BY <2>2
    <3>2. e \in CodesOf(cl[o]) \/ e \in CodesOf(cl[g]) <=> e \in CodesOf(src[o]) \/ e \in CodesOf(src[g])
      BY <1>2, <1>3, <1>4, <2>2, <3>1
    <3>3. (\E f \in CodeFiles : e \in CodesOf(cl[f])) <=> \E f \in CodeFiles : e \in CodesOf(src[f])
      BY <3>1, <3>2
    <3> QED BY <3>3, CodesAt
  <2> QED BY <2>1, <2>2
<1> QED BY <1>5

-----------------------------------------------------------------------------
(* Refactoring: what holds all along                                       *)

Ids == UNION {{d.id : d \in Definitions(t)} : t \in TokenTexts}
PlacesOfFiles == {p \in [file : CodeFiles, from : Nat, to : Nat] : IsSpan(p)}
SomeFile == CHOOSE f \in CodeFiles : TRUE
Jobs == [at : JobSteps, kind : RefactorKinds \cup {"rename"}, of : CodeFiles \cup {SomeFile}, to : CodeFiles \cup {SomeFile},
         new : Text, tx : 0..MaxClones, callers : SUBSET (CodeFiles \X Ids), places : SUBSET PlacesOfFiles,
         left : SUBSET CodeFiles, code : Text]

\* The step, the kind and what is known go together.
JobFits(j) ==
  /\ IsFiniteSet(j.places)
  /\ j.at # "idle" => j.tx # 0 /\ j.of \in CodeFiles /\ j.to \in CodeFiles
  /\ j.at = "find" => j.kind \in {"rename", "move"}
  /\ j.at \in {"callers", "apply", "build"} => j.kind = "rename"
  /\ j.at \in {"read", "paste"} => j.kind = "move" /\ j.places # {}
  /\ j.at = "cut" => j.kind = "extract" \/ (j.kind = "move" /\ j.places # {})

\* A row names a symbol of some content, wherever it may say that it is.
RowsTyped(ix) == \A f \in CodeFiles : ix[f].text \in TokenTexts /\ \A r \in ix[f].rows : IsSpan(r) /\ r.id \in Ids

RefactorTyped ==
  /\ RowsTyped(index)
  /\ source \in Sources /\ clone \in [TxIds -> Sources]
  /\ clones \in 0..MaxClones /\ named \in 0..clones /\ agent \in 0..clones
  /\ job \in [Refactorings -> Jobs]
  /\ \A x \in Refactorings : job[x].tx <= clones /\ JobFits(job[x])

\* The symbol, and of what calls or contains it what is found, in the callers that are not left.
Its(src, o) == {d \in Definitions(src[o]) : d.id = Old}
Searched(src, o, cs, g) == {d \in Definitions(src[g]) : Findable(d.id) /\ <<g, d.id>> \in CallersOf(src, o) \ cs}
Reached(src, o, cs) == {Place(o, d) : d \in Its(src, o)} \cup UNION {{Place(g, d) : d \in Searched(src, o, cs, g)} : g \in CodeFiles}
FilesOf(ps) == {p.file : p \in ps}
PlacesIn(ps, f) == {p \in ps : p.file = f}
ItsPlace(src, j, d) == d \in Its(src, j.of) /\ j.places = {Place(j.of, d)}
\* A rename in a clone that nobody else writes.
RenameFollows(src, cl, j) ==
  /\ j.at = "find" => cl = src /\ (j.kind = "rename" => j.callers = CallersOf(src, j.of))
  /\ j.at = "callers" => cl = src /\ j.callers \subseteq CallersOf(src, j.of) /\ j.places = Reached(src, j.of, j.callers)
  /\ j.at \in {"apply", "build"} =>
       /\ j.callers = {} /\ j.places = Reached(src, j.of, j.callers) /\ j.left \subseteq FilesOf(j.places)
       /\ cl = [f \in CodeFiles |-> IF f \in FilesOf(j.places) \ j.left THEN Applied(src[f], PlacesIn(j.places, f), j.new) ELSE src[f]]
  /\ j.at = "build" => j.left = {}
\* A move.
Base(src, j, d) == IF j.to = j.of THEN CutOut(src[j.of], d) ELSE IF src[j.to] = NoSource THEN <<>> ELSE src[j.to]
MoveFollows(src, cl, j) ==
  /\ j.at = "read" => cl = src /\ \E d \in Its(src, j.of) : ItsPlace(src, j, d)
  /\ j.kind = "move" /\ j.at \in {"cut", "paste", "done"} =>
       \E d \in Its(src, j.of) :
         /\ ItsPlace(src, j, d) /\ j.code = CodeAt(src[j.of], d)
         /\ j.at = "cut" => cl = src
         /\ j.at = "paste" => cl = [f \in CodeFiles |-> IF f = j.of THEN CutOut(src[f], d) ELSE src[f]]
         /\ j.at = "done" => cl = [f \in CodeFiles |-> IF f = j.to THEN Glue(Base(src, j, d), j.code)
                                                       ELSE IF f = j.of THEN CutOut(src[f], d) ELSE src[f]]
Follows(src, cl, j) == RenameFollows(src, cl, j) /\ MoveFollows(src, cl, j)
RefactorHolds ==
  /\ RefactorTyped
  /\ \A x \in Refactorings : x \notin strayed /\ job[x].at # "idle" => Follows(source, clone[job[x].tx], job[x])
-----------------------------------------------------------------------------
(* Refactoring: what a step makes of its own job                           *)

LEMMA JobWithStep ==
  ASSUME NEW j \in Jobs, NEW a \in JobSteps, NEW r, r = [j EXCEPT !.at = a]
  PROVE  /\ r \in Jobs /\ r.at = a
         /\ r.kind = j.kind /\ r.of = j.of /\ r.to = j.to /\ r.new = j.new /\ r.tx = j.tx /\ r.callers = j.callers /\ r.places = j.places /\ r.left = j.left /\ r.code = j.code
BY DEF Jobs

LEMMA PlaceTyped ==
  ASSUME NEW src \in Sources, NEW f \in CodeFiles, NEW d \in Definitions(src[f])
  PROVE  src[f] \in Text /\ Place(f, d) \in PlacesOfFiles /\ IsSpan(d) /\ d.to <= Size(src[f]) /\ d.id \in Ids
<1>1. src[f] \in TokenTexts /\ src[f] # NoSource
  BY DefinitionsAre DEF Sources
<1>2. PICK t \in Text : t = src[f]
  BY <1>1 DEF TokenTexts, Text
<1>3. IsSpan(d) /\ d.to <= Size(src[f])
  BY <1>2, SpanOfDefinition
<1>4. Place(f, d) \in PlacesOfFiles
  BY <1>3 DEF PlacesOfFiles, Place, IsSpan
<1>5. d.id \in Ids
  BY <1>1 DEF Ids
<1> QED BY <1>2, <1>3, <1>4, <1>5

LEMMA CallersTyped ==
  ASSUME NEW src \in Sources, NEW o \in CodeFiles
  PROVE  CallersOf(src, o) \in SUBSET (CodeFiles \X Ids)
<1>1. ASSUME NEW g \in CodeFiles, NEW d \in CallersAt(src, o, g) PROVE <<g, d.id>> \in CodeFiles \X Ids
  <2>1. d \in Definitions(src[g])
    BY DEF CallersAt
  <2>2. d.id \in Ids
    BY <2>1, PlaceTyped
  <2> QED BY <2>2
<1> QED BY <1>1 DEF CallersOf

\* Whatever a search takes in, rows name symbols of some content.
LEMMA ParsedTyped ==
  ASSUME NEW t \in TokenTexts, NEW was, \A r \in was : IsSpan(r) /\ r.id \in Ids
  PROVE  Indexed(t, was).text \in TokenTexts /\ \A r \in Indexed(t, was).rows : IsSpan(r) /\ r.id \in Ids
<1>1. ASSUME NEW d \in Definitions(t) PROVE IsSpan(d) /\ d.id \in Ids
  <2>1. t \in Text
    <3>1. t # NoSource
      BY <1>1 DEF Definitions
    <3> QED BY <3>1 DEF TokenTexts, Text
  <2>2. IsSpan(d)
    BY <2>1, SpanOfDefinition
  <2>3. d.id \in Ids
    BY DEF Ids
  <2> QED BY <2>2, <2>3
<1>2. Indexed(t, was).text = t /\ \A r \in Indexed(t, was).rows : r \in Definitions(t) \/ r \in was
  BY DEF Indexed
<1> QED BY <1>1, <1>2

LEMMA ReindexesTyped == ASSUME RefactorTyped, Reindexes PROVE RowsTyped(index')
<1>1. PICK S : index' = [f \in CodeFiles |-> IF f \in S THEN Indexed(source[f], index[f].rows) ELSE index[f]]
  BY Zenon DEF Reindexes
<1>2. RowsTyped(index) /\ source \in Sources
  BY DEF RefactorTyped
<1>3. ASSUME NEW f \in CodeFiles PROVE index'[f].text \in TokenTexts /\ \A r \in index'[f].rows : IsSpan(r) /\ r.id \in Ids
  <2>1. index'[f] = IF f \in S THEN Indexed(source[f], index[f].rows) ELSE index[f]
    BY <1>1, Zenon
  <2>2. \A r \in index[f].rows : IsSpan(r) /\ r.id \in Ids
    BY <1>2, Zenon DEF RowsTyped
  <2>3. index[f].text \in TokenTexts
    BY <1>2, Zenon DEF RowsTyped
  <2>4. source[f] \in TokenTexts
    BY <1>2 DEF Sources
  <2>5. CASE f \in S
    <3>1. index'[f] = Indexed(source[f], index[f].rows)
      BY <2>1, <2>5, Zenon
    <3> QED BY <2>2, <2>4, <3>1, ParsedTyped
  <2>6. CASE f \notin S
    <3>1. index'[f] = index[f]
      BY <2>1, <2>6, Zenon
    <3> QED BY <2>2, <2>3, <3>1
  <2> QED BY <2>5, <2>6
<1> QED BY <1>3 DEF RowsTyped

\* A place that the index gives.
LEMMA RowPlaceTyped ==
  ASSUME NEW ix, RowsTyped(ix), NEW f \in CodeFiles, NEW id, NEW d \in Rows(ix, f, id)
  PROVE  Place(f, d) \in PlacesOfFiles /\ d.id = id
<1>1. d \in ix[f].rows /\ d.id = id
  BY DEF Rows
<1>2. IsSpan(d)
  BY <1>1, Zenon DEF RowsTyped
<1> QED BY <1>1, <1>2 DEF PlacesOfFiles, Place, IsSpan

LEMMA EdgesTyped == ASSUME NEW ix, RowsTyped(ix), NEW o \in CodeFiles PROVE ByEdges(ix, o) \in SUBSET (CodeFiles \X Ids)
<1>1. CallersOf([g \in CodeFiles |-> ix[g].text], o) \in SUBSET (CodeFiles \X Ids)
  <2>1. [g \in CodeFiles |-> ix[g].text] \in Sources
    BY DEF RowsTyped, Sources
  <2> QED BY <2>1, CallersTyped
<1>2. ASSUME NEW g \in CodeFiles, NEW r \in ix[g].rows PROVE <<g, r.id>> \in CodeFiles \X Ids
  BY DEF RowsTyped
<1> QED BY <1>1, <1>2 DEF ByEdges

LEMMA TypedAgain ==
  ASSUME RefactorTyped, RowsTyped(index'), NEW x \in Refactorings, NEW r \in Jobs, JobFits(r), r.tx <= clones', clones <= clones', Becomes(x, r),
         source' \in Sources, clone' \in [TxIds -> Sources], clones' \in 0..MaxClones, named' \in 0..clones', agent' \in 0..clones'
  PROVE  RefactorTyped' /\ job'[x] = r /\ \A y \in Refactorings : y # x => job'[y] = job[y]
<1>1. job \in [Refactorings -> Jobs] /\ job' = [job EXCEPT ![x] = r]
  BY DEF RefactorTyped, Becomes
<1>2. job' \in [Refactorings -> Jobs] /\ job'[x] = r /\ \A y \in Refactorings : y # x => job'[y] = job[y]
  BY <1>1
<1>3. ASSUME NEW y \in Refactorings PROVE job'[y].tx <= clones' /\ JobFits(job'[y])
  <2>1. CASE y = x
    BY <1>2, <2>1
  <2>2. CASE y # x
    <3>1. job[y].tx <= clones /\ JobFits(job[y]) /\ job[y] \in Jobs
      BY <1>1 DEF RefactorTyped
    <3>2. job[y].tx \in Int /\ clones \in Int /\ clones' \in Int
      <4>1. MaxClones \in Nat
        BY RefactorAssumption
      <4>2. job[y].tx \in 0..MaxClones /\ clones \in 0..MaxClones
        BY <3>1 DEF RefactorTyped, Jobs
      <4> QED BY <4>1, <4>2
    <3> QED BY <1>2, <2>2, <3>1, <3>2
  <2> QED BY <2>1, <2>2
<1> QED BY <1>2, <1>3 DEF RefactorTyped

LEMMA TypesAre ==
  ASSUME RefactorTyped, NEW x \in Refactorings
  PROVE  /\ RowsTyped(index) /\ source \in Sources /\ clone \in [TxIds -> Sources] /\ MaxClones \in Nat
         /\ clones \in Nat /\ clones <= MaxClones /\ named \in Nat /\ named <= clones /\ agent \in Nat /\ agent <= clones
         /\ job[x] \in Jobs /\ JobFits(job[x]) /\ job[x].tx \in Nat /\ job[x].tx <= clones
         /\ job[x].at # "idle" => job[x].tx \in TxIds /\ job[x].of \in CodeFiles /\ job[x].to \in CodeFiles
<1>1. MaxClones \in Nat
  BY RefactorAssumption
<1>2. RowsTyped(index) /\ source \in Sources /\ clone \in [TxIds -> Sources] /\ clones \in 0..MaxClones /\ named \in 0..clones /\ agent \in 0..clones
  BY DEF RefactorTyped
<1>3. job[x] \in Jobs /\ JobFits(job[x]) /\ job[x].tx <= clones
  BY DEF RefactorTyped
<1>4. job[x].tx \in 0..MaxClones
  BY <1>3 DEF Jobs
<1>5. job[x].at # "idle" => job[x].tx # 0 /\ job[x].of \in CodeFiles /\ job[x].to \in CodeFiles
  BY <1>3 DEF JobFits
<1> QED BY <1>1, <1>2, <1>3, <1>4, <1>5 DEF TxIds

\* A step of x that looks: its job changes, what the index has taken in, and whom it has misled.
LEMMA StepLooks ==
  ASSUME RefactorHolds, NEW x \in Refactorings, NEW r \in Jobs, JobFits(r), r.tx = job[x].tx, Becomes(x, r), Looks,
         RowsTyped(index'), strayed \subseteq strayed', x \notin strayed' => r.at = "idle" \/ Follows(source, clone[r.tx], r)
  PROVE  RefactorHolds'
<1>1. RefactorTyped
  BY DEF RefactorHolds
<1>2. UNCHANGED <<source, clone, named, agent, clones>>
  BY DEF Looks
<1>3. /\ source \in Sources /\ clone \in [TxIds -> Sources] /\ clones \in 0..MaxClones /\ named \in 0..clones /\ agent \in 0..clones
      /\ r.tx <= clones /\ clones <= clones
  <2>1. /\ source \in Sources /\ clone \in [TxIds -> Sources] /\ clones \in 0..MaxClones /\ named \in 0..clones /\ agent \in 0..clones
        /\ job[x].tx <= clones
    BY <1>1 DEF RefactorTyped
  <2>2. clones \in Nat
    BY <1>1, TypesAre
  <2> QED BY <2>1, <2>2
<1>4. RefactorTyped' /\ job'[x] = r /\ \A y \in Refactorings : y # x => job'[y] = job[y]
  BY <1>1, <1>2, <1>3, TypedAgain
<1>5. ASSUME NEW y \in Refactorings, y \notin strayed', job'[y].at # "idle" PROVE Follows(source, clone[job'[y].tx], job'[y])
  BY <1>4, <1>5 DEF RefactorHolds
<1> QED BY <1>2, <1>4, <1>5 DEF RefactorHolds

\* A step of x in which nothing but its job changes.
LEMMA StepAlone ==
  ASSUME RefactorHolds, NEW x \in Refactorings, NEW r \in Jobs, JobFits(r), r.tx = job[x].tx, Becomes(x, r), Unwritten,
         x \notin strayed => r.at = "idle" \/ Follows(source, clone[r.tx], r)
  PROVE  RefactorHolds'
<1>1. Looks /\ index' = index /\ strayed' = strayed
  BY DEF Unwritten
<1>2. RowsTyped(index')
  BY <1>1 DEF RefactorHolds, RefactorTyped
<1>3. strayed \subseteq strayed' /\ (x \notin strayed' => r.at = "idle" \/ Follows(source, clone[r.tx], r))
  BY <1>1
<1> QED BY <1>1, <1>2, <1>3, StepLooks

\* A step of x that writes a file of its clone.
LEMMA StepStaged ==
  ASSUME RefactorHolds, NEW x \in Refactorings, job[x].at # "idle", NEW r \in Jobs, JobFits(r), r.tx = job[x].tx, Becomes(x, r),
         NEW f \in CodeFiles, NEW t \in Text, Stages(x, f, t),
         x \notin strayed => Follows(source, [clone[r.tx] EXCEPT ![f] = t], r)
  PROVE  RefactorHolds'
<1>1. RefactorTyped
  BY DEF RefactorHolds
<1>2. /\ clone' = [clone EXCEPT ![job[x].tx][f] = t] /\ named' = job[x].tx /\ strayed' = strayed \cup (Begun \ {x})
      /\ source' = source /\ agent' = agent /\ clones' = clones /\ index' = index
  BY DEF Stages
<1>3. /\ source \in Sources /\ clone \in [TxIds -> Sources] /\ clones \in Nat /\ clones <= MaxClones /\ MaxClones \in Nat
      /\ agent \in Nat /\ agent <= clones /\ job[x].tx \in Nat /\ job[x].tx <= clones /\ job[x].tx \in TxIds
  BY <1>1, TypesAre
<1>4. clone' \in [TxIds -> Sources] /\ clone'[job[x].tx] = [clone[job[x].tx] EXCEPT ![f] = t]
  <2>1. clone[job[x].tx] \in Sources /\ t \in TokenTexts
    BY <1>3 DEF TokenTexts, Text
  <2>2. [clone[job[x].tx] EXCEPT ![f] = t] \in Sources
    BY <2>1 DEF Sources
  <2> QED BY <1>2, <1>3, <2>2
<1>5. r.tx <= clones' /\ clones <= clones' /\ clones' \in 0..MaxClones /\ named' \in 0..clones' /\ agent' \in 0..clones' /\ source' \in Sources
  BY <1>2, <1>3
<1>6. RefactorTyped' /\ job'[x] = r /\ \A y \in Refactorings : y # x => job'[y] = job[y]
  <2>1. RowsTyped(index')
    BY <1>1, <1>2 DEF RefactorTyped
  <2> QED BY <1>1, <1>4, <1>5, <2>1, TypedAgain
<1>7. ASSUME NEW y \in Refactorings, y \notin strayed', job'[y].at # "idle" PROVE Follows(source', clone'[job'[y].tx], job'[y])
  <2>1. CASE y = x
    BY <1>2, <1>4, <1>6, <1>7, <2>1
  <2>2. CASE y # x
    <3>1. y \in Begun
      BY <1>6, <1>7, <2>2 DEF Begun
    <3> QED BY <1>2, <1>7, <2>2, <3>1
  <2> QED BY <2>1, <2>2
<1> QED BY <1>6, <1>7 DEF RefactorHolds

\* A step of somebody else that crosses every refactoring.
LEMMA StepOfOthers ==
  ASSUME RefactorHolds, index' = index, job' = job, clones' = clones, source' \in Sources, clone' \in [TxIds -> Sources],
         named' \in 0..clones, agent' \in 0..clones, strayed' = strayed \cup Begun
  PROVE  RefactorHolds'
<1>1. RefactorTyped'
  <2>1. RefactorTyped
    BY DEF RefactorHolds
  <2> QED BY <2>1 DEF RefactorTyped
<1>2. ASSUME NEW y \in Refactorings, y \notin strayed', job'[y].at # "idle" PROVE FALSE
  BY <1>2 DEF Begun
<1> QED BY <1>1, <1>2 DEF RefactorHolds

LEMMA NowhereTyped == Nowhere \in Sources
BY DEF Nowhere, Sources, TokenTexts

LEMMA RefactorStarts == RefactorInit => RefactorHolds
<1> SUFFICES ASSUME RefactorInit PROVE RefactorHolds
  OBVIOUS
<1>0. RowsTyped(index)
  <2>1. PICK t \in [CodeFiles -> CodeTexts] : index = [f \in CodeFiles |-> Indexed(t[f], {})]
    BY DEF RefactorInit
  <2>2. ASSUME NEW f \in CodeFiles PROVE index[f].text \in TokenTexts /\ \A r \in index[f].rows : IsSpan(r) /\ r.id \in Ids
    <3>1. t[f] \in TokenTexts
      BY RefactorAssumption
    <3>2. index[f] = Indexed(t[f], {})
      BY <2>1, Zenon
    <3> QED BY <3>1, <3>2, ParsedTyped
  <2> QED BY <2>2 DEF RowsTyped
<1>1. /\ source \in [CodeFiles -> CodeTexts] /\ clone = [t \in TxIds |-> Nowhere]
      /\ named = 0 /\ agent = 0 /\ clones = 0 /\ job = [x \in Refactorings |-> NoJob]
  BY DEF RefactorInit
<1>2. source \in Sources
  BY <1>1, RefactorAssumption DEF Sources
<1>3. clone \in [TxIds -> Sources]
  BY <1>1, NowhereTyped
<1>4. NoJob \in Jobs
  <2>1. <<>> \in Text
    BY NoCodes
  <2>2. 0 \in 0..MaxClones
    BY RefactorAssumption
  <2> QED BY <2>1, <2>2 DEF NoJob, Jobs, JobSteps, SomeFile
<1>5. JobFits(NoJob) /\ NoJob.at = "idle" /\ NoJob.tx = 0
  <2>1. NoJob.places = {} /\ NoJob.at = "idle" /\ NoJob.tx = 0
    BY DEF NoJob
  <2> QED BY <2>1, FS_EmptySet DEF JobFits
<1>6. clones \in 0..MaxClones /\ named \in 0..clones /\ agent \in 0..clones
  BY <1>1, RefactorAssumption
<1>7. \A x \in Refactorings : job[x] = NoJob
  BY <1>1
<1>8. job \in [Refactorings -> Jobs]
  BY <1>1, <1>4
<1>9. \A x \in Refactorings : job[x].tx <= clones /\ JobFits(job[x])
  BY <1>1, <1>5, <1>7
<1> QED BY <1>0, <1>2, <1>3, <1>5, <1>6, <1>7, <1>8, <1>9 DEF RefactorHolds, RefactorTyped

LEMMA OthersStep ==
  ASSUME RefactorHolds, \/ \E f \in CodeFiles, t \in CodeTexts : Writes(f, t) \/ AgentEdits(f, t)
                        \/ \E t \in TxIds : Commits(t) \/ RollsBack(t)
  PROVE  RefactorHolds'
<1>1. RefactorTyped
  BY DEF RefactorHolds
<1>2. /\ source \in Sources /\ clone \in [TxIds -> Sources] /\ named \in 0..clones /\ agent \in 0..clones /\ clones \in 0..MaxClones
      /\ 0 \in 0..clones
  <2>1. MaxClones \in Nat
    BY RefactorAssumption
  <2> QED BY <1>1, <2>1 DEF RefactorTyped
<1>3. ASSUME NEW f \in CodeFiles, NEW t \in CodeTexts, Writes(f, t) PROVE RefactorHolds'
  <2>1. source' = [source EXCEPT ![f] = t] /\ t \in TokenTexts /\ job' = job /\ clones' = clones /\ clone' = clone
        /\ named' = named /\ agent' = agent /\ strayed' = strayed \cup Begun /\ index' = index
    BY <1>3, RefactorAssumption DEF Writes, Crosses
  <2>2. source' \in Sources
    BY <1>2, <2>1 DEF Sources
  <2> QED BY <1>2, <2>1, <2>2, StepOfOthers
<1>4. ASSUME NEW f \in CodeFiles, NEW t \in CodeTexts, AgentEdits(f, t) PROVE RefactorHolds'
  <2>1. clone' = [clone EXCEPT ![agent][f] = t] /\ agent # 0 /\ t \in TokenTexts /\ job' = job /\ clones' = clones /\ source' = source
        /\ named' = named /\ agent' = agent /\ strayed' = strayed \cup Begun /\ index' = index
    BY <1>4, RefactorAssumption DEF AgentEdits, Crosses
  <2>2. agent \in TxIds
    <3>1. MaxClones \in Nat
      BY RefactorAssumption
    <3> QED BY <1>2, <2>1, <3>1 DEF TxIds
  <2>3. [clone[agent] EXCEPT ![f] = t] \in Sources
    BY <1>2, <2>1, <2>2 DEF Sources
  <2>4. clone' \in [TxIds -> Sources]
    BY <1>2, <2>1, <2>2, <2>3
  <2> QED BY <1>2, <2>1, <2>4, StepOfOthers
<1>5. ASSUME NEW t \in TxIds, Ends(t) PROVE clone' \in [TxIds -> Sources] /\ named' \in 0..clones /\ agent' \in 0..clones /\ clones' = clones /\ job' = job /\ index' = index
  <2>1. clone' = [clone EXCEPT ![t] = Nowhere] /\ named' = 0 /\ agent' = (IF agent = t THEN 0 ELSE agent) /\ clones' = clones /\ job' = job /\ index' = index
    BY <1>5 DEF Ends
  <2> QED BY <1>2, <2>1, NowhereTyped
<1>6. ASSUME NEW t \in TxIds, Commits(t) PROVE RefactorHolds'
  <2>1. Ends(t) /\ strayed' = strayed \cup Begun
        /\ source' = [f \in CodeFiles |-> IF f \in Taken(t) THEN clone[t][f] ELSE source[f]]
    BY <1>6 DEF Commits, Crosses
  <2>2. source' \in Sources
    <3>1. clone[t] \in Sources
      BY <1>2
    <3> QED BY <1>2, <2>1, <3>1 DEF Sources
  <2> QED BY <1>5, <2>1, <2>2, StepOfOthers
<1>7. ASSUME NEW t \in TxIds, RollsBack(t) PROVE RefactorHolds'
  <2>1. Ends(t) /\ strayed' = strayed \cup Begun /\ source' = source
    BY <1>7 DEF RollsBack, Crosses
  <2> QED BY <1>2, <1>5, <2>1, StepOfOthers
<1> QED BY <1>3, <1>4, <1>6, <1>7

\* A transaction begun is the workspace's.
LEMMA OpenedIs ==
  ASSUME RefactorTyped, NEW t, Opened(t)
  PROVE  /\ t \in TxIds /\ t = clones + 1 /\ clones' = t /\ named' = t /\ clones' \in 0..MaxClones /\ clones <= clones' /\ 0..clones \subseteq 0..clones'
         /\ clone' \in [TxIds -> Sources] /\ clone'[t] = source /\ \A u \in TxIds : u <= clones => clone'[u] = clone[u]
<1>1. /\ source \in Sources /\ clone \in [TxIds -> Sources] /\ clones \in 0..MaxClones /\ MaxClones \in Nat
  BY RefactorAssumption DEF RefactorTyped
<1>2. clones < MaxClones /\ clones' = t /\ t = clones + 1 /\ named' = t /\ clone' = [clone EXCEPT ![t] = source]
  BY DEF Opened
<1>3. t \in TxIds /\ clones' \in 0..MaxClones /\ clones <= clones' /\ 0..clones \subseteq 0..clones'
  BY <1>1, <1>2 DEF TxIds
<1>4. \A u \in TxIds : u <= clones => u # t
  BY <1>1, <1>2 DEF TxIds
<1> QED BY <1>1, <1>2, <1>3, <1>4

LEMMA AgentBeginsStep == ASSUME RefactorHolds, AgentBegins PROVE RefactorHolds'
<1>1. RefactorTyped
  BY DEF RefactorHolds
<1>2. PICK t : Opened(t) /\ agent' = t /\ source' = source /\ job' = job /\ strayed' = strayed /\ index' = index
  <2>1. agent' = clones + 1 /\ Opened(agent') /\ source' = source /\ job' = job /\ strayed' = strayed \cup {} /\ index' = index
    BY DEF AgentBegins, Crosses
  <2> QED BY <2>1
<1>3. /\ t \in TxIds /\ clones' = t /\ named' = t /\ clones' \in 0..MaxClones /\ clones <= clones'
      /\ clone' \in [TxIds -> Sources] /\ \A u \in TxIds : u <= clones => clone'[u] = clone[u]
  BY <1>1, <1>2, OpenedIs
<1>4. named' \in 0..clones' /\ agent' \in 0..clones'
  BY <1>2, <1>3
<1>5. ASSUME NEW x \in Refactorings PROVE job[x].tx <= clones'
  <2>1. clones \in Nat /\ job[x].tx \in Nat /\ job[x].tx <= clones
    BY <1>1, TypesAre
  <2>2. clones' \in Nat
    BY <1>3
  <2> QED BY <1>3, <2>1, <2>2
<1>6. RefactorTyped'
  <2>1. RowsTyped(index) /\ source \in Sources /\ job \in [Refactorings -> Jobs] /\ \A x \in Refactorings : JobFits(job[x])
    BY <1>1 DEF RefactorTyped
  <2> QED BY <1>2, <1>3, <1>4, <1>5, <2>1 DEF RefactorTyped
<1>7. ASSUME NEW y \in Refactorings, y \notin strayed', job'[y].at # "idle" PROVE Follows(source', clone'[job'[y].tx], job'[y])
  <2>1. Follows(source, clone[job[y].tx], job[y])
    BY <1>2, <1>7 DEF RefactorHolds
  <2>2. job[y].tx \in TxIds /\ job[y].tx <= clones
    BY <1>1, <1>2, <1>7, TypesAre
  <2> QED BY <1>2, <1>3, <2>1, <2>2
<1> QED BY <1>6, <1>7 DEF RefactorHolds

LEMMA BeginStep ==
  ASSUME RefactorHolds, NEW x \in Refactorings, NEW k \in RefactorKinds, NEW f \in CodeFiles, NEW g \in CodeFiles, NEW n \in NewNames,
         BeginRefactor(x, k, f, n, g)
  PROVE  RefactorHolds'
<1>1. RefactorTyped /\ source \in Sources /\ clone \in [TxIds -> Sources] /\ clones \in Nat /\ clones <= MaxClones /\ MaxClones \in Nat
      /\ named \in Nat /\ named <= clones /\ agent \in Nat /\ agent <= clones
  BY TypesAre DEF RefactorHolds
<1>2. PICK t : t = IF named = 0 THEN clones + 1 ELSE named
  OBVIOUS
<1>3. PICK C \in (IF k = "rename" THEN SUBSET ByEdges(index', f) ELSE {{}}) :
        /\ StraysIf(x, Joined(named) \/ (k = "rename" /\ C # CallersOf(source, f)))
        /\ Becomes(x, [NoJob EXCEPT !.at = IF k = "extract" THEN "cut" ELSE "find", !.kind = k, !.of = f, !.to = g,
                                    !.new = IF k = "move" THEN <<>> ELSE n, !.tx = t, !.callers = C])
  BY <1>2, Zenon DEF BeginRefactor
<1>3a. PICK r, m : /\ m = (IF k = "move" THEN <<>> ELSE n)
                /\ r = [NoJob EXCEPT !.at = IF k = "extract" THEN "cut" ELSE "find", !.kind = k, !.of = f, !.to = g,
                                     !.new = m, !.tx = t, !.callers = C]
  OBVIOUS
<1>4. /\ JobAt(x, "idle") /\ Becomes(x, r) /\ source' = source /\ agent' = agent
      /\ IF named = 0 THEN Opened(t) ELSE UNCHANGED <<clone, origin, named, clones>>
      /\ IF Unindexed THEN Reindexes ELSE index' = index
      /\ strayed \subseteq strayed' /\ (x \notin strayed' => ~Joined(named) /\ (k = "rename" => C = CallersOf(source, f)))
  <2>1. /\ JobAt(x, "idle") /\ source' = source /\ agent' = agent
        /\ IF named = 0 THEN Opened(t) ELSE UNCHANGED <<clone, origin, named, clones>>
        /\ IF Unindexed THEN Reindexes ELSE index' = index
    BY <1>2, Zenon DEF BeginRefactor
  <2>2. Becomes(x, r)
    BY <1>3, <1>3a, Zenon
  <2>3. strayed \subseteq strayed' /\ (x \notin strayed' => ~Joined(named) /\ (k = "rename" => C = CallersOf(source, f)))
    BY <1>3 DEF StraysIf
  <2> QED BY <2>1, <2>2, <2>3
<1>4a. RowsTyped(index') /\ C \in SUBSET (CodeFiles \X Ids)
  <2>1. RowsTyped(index')
    BY <1>1, <1>4, ReindexesTyped DEF RefactorTyped
  <2>2. ByEdges(index', f) \in SUBSET (CodeFiles \X Ids)
    BY <2>1, EdgesTyped
  <2> QED BY <1>3, <2>1, <2>2
<1>5. /\ t \in TxIds /\ t <= clones' /\ clones <= clones' /\ clones' \in 0..MaxClones /\ named' \in 0..clones' /\ agent' \in 0..clones'
      /\ clone' \in [TxIds -> Sources] /\ \A u \in TxIds : u <= clones => clone'[u] = clone[u]
  <2>1. CASE named = 0
    <3>1. /\ t \in TxIds /\ clones' = t /\ named' = t /\ clones' \in 0..MaxClones /\ clones <= clones' /\ 0..clones \subseteq 0..clones'
          /\ clone' \in [TxIds -> Sources] /\ \A u \in TxIds : u <= clones => clone'[u] = clone[u]
      BY <1>1, <1>4, <2>1, OpenedIs
    <3>2. t \in Nat /\ t \in 0..t /\ agent \in 0..clones
      BY <1>1, <3>1 DEF TxIds
    <3> QED BY <1>4, <3>1, <3>2
  <2>2. CASE named # 0
    <3>1. t = named /\ clone' = clone /\ named' = named /\ clones' = clones
      BY <1>2, <1>4, <2>2
    <3> QED BY <1>1, <1>4, <2>2, <3>1 DEF TxIds
  <2> QED BY <2>1, <2>2
<1>6. r \in Jobs /\ r.at = (IF k = "extract" THEN "cut" ELSE "find") /\ r.kind = k /\ r.of = f /\ r.to = g /\ r.tx = t
      /\ r.callers = C /\ r.places = {}
  <2>1. NoJob = [at |-> "idle", kind |-> "rename", of |-> SomeFile, to |-> SomeFile,
                 new |-> <<>>, tx |-> 0, callers |-> {}, places |-> {}, left |-> {}, code |-> <<>>]
    BY DEF NoJob, SomeFile
  <2>2. r = [at |-> IF k = "extract" THEN "cut" ELSE "find", kind |-> k, of |-> f, to |-> g,
             new |-> m, tx |-> t, callers |-> C, places |-> {}, left |-> {}, code |-> <<>>]
    BY <1>3a, <2>1
  <2>3. C \in SUBSET (CodeFiles \X Ids)
    BY <1>4a
  <2>4. m \in Text /\ <<>> \in Text
    BY <1>3a, RefactorAssumption, NoCodes DEF Text
  <2>5. t \in 0..MaxClones
    BY <1>1, <1>5 DEF TxIds
  <2>6. (IF k = "extract" THEN "cut" ELSE "find") \in JobSteps
    BY DEF JobSteps
  <2> HIDE <1>3a
  <2> QED BY <2>2, <2>3, <2>4, <2>5, <2>6 DEF Jobs
<1>7. JobFits(r)
  <2>1. r.places = {} /\ r.tx # 0 /\ r.of \in CodeFiles /\ r.to \in CodeFiles /\ r.at \in {"cut", "find"}
    BY <1>5, <1>6 DEF TxIds
  <2>2. k \in {"rename", "move", "extract"}
    BY RefactorAssumption
  <2>3. r.at = "find" => r.kind \in {"rename", "move"}
    BY <1>6, <2>2
  <2>4. r.at = "cut" => r.kind = "extract"
    BY <1>6
  <2> QED BY <2>1, <2>3, <2>4, FS_EmptySet DEF JobFits
<1>8. RefactorTyped' /\ job'[x] = r /\ \A y \in Refactorings : y # x => job'[y] = job[y]
  <2>1. r.tx <= clones' /\ source' \in Sources
    BY <1>1, <1>4, <1>5, <1>6
  <2> QED BY <1>1, <1>4, <1>4a, <1>5, <1>6, <1>7, <2>1, TypedAgain
<1>9. ASSUME x \notin strayed' PROVE clone'[t] = source
  <2>1. CASE named = 0
    BY <1>1, <1>4, <2>1, OpenedIs
  <2>2. CASE named # 0
    <3>1. clone[named] = source
      BY <1>4, <1>9, <2>2 DEF Joined
    <3> QED BY <1>2, <1>4, <2>2, <3>1
  <2> QED BY <2>1, <2>2
<1>10. ASSUME x \notin strayed' PROVE Follows(source, clone'[t], r)
  <2>1. RenameFollows(source, clone'[t], r)
    <3>1. r.at # "callers" /\ r.at \notin {"apply", "build"} /\ r.at # "build"
      BY <1>6
    <3>2. r.kind = "rename" => r.callers = CallersOf(source, r.of)
      BY <1>4, <1>6, <1>10
    <3> QED BY <1>9, <1>10, <3>1, <3>2, Zenon DEF RenameFollows
  <2>2. MoveFollows(source, clone'[t], r)
    <3>1. r.at # "read" /\ ~(r.kind = "move" /\ r.at \in {"cut", "paste", "done"})
      BY <1>6
    <3> QED BY <3>1, Zenon DEF MoveFollows
  <2> QED BY <2>1, <2>2 DEF Follows
<1>11. ASSUME NEW y \in Refactorings, y \notin strayed', job'[y].at # "idle" PROVE Follows(source', clone'[job'[y].tx], job'[y])
  <2>1. CASE y = x
    BY <1>4, <1>6, <1>8, <1>10, <1>11, <2>1
  <2>2. CASE y # x
    <3>1. y \notin strayed /\ job'[y] = job[y] /\ job[y].at # "idle"
      BY <1>4, <1>8, <1>11, <2>2
    <3>2. Follows(source, clone[job[y].tx], job[y])
      BY <3>1 DEF RefactorHolds
    <3>3. job[y].tx \in TxIds /\ job[y].tx <= clones
      BY <1>1, <3>1, TypesAre
    <3> QED BY <1>4, <1>5, <3>1, <3>2, <3>3
  <2> QED BY <2>1, <2>2
<1> QED BY <1>8, <1>11 DEF RefactorHolds

LEMMA EndFollows ==
  ASSUME NEW src, NEW cl, NEW r, r.at = "failed" \/ (r.at = "done" /\ r.kind # "move")
  PROVE  Follows(src, cl, r)
<1>1. RenameFollows(src, cl, r)
  <2>1. r.at # "find" /\ r.at # "callers" /\ r.at \notin {"apply", "build"} /\ r.at # "build"
    OBVIOUS
  <2> QED BY <2>1, Zenon DEF RenameFollows
<1>2. MoveFollows(src, cl, r)
  <2>1. r.at # "read" /\ ~(r.kind = "move" /\ r.at \in {"cut", "paste", "done"})
    OBVIOUS
  <2> QED BY <2>1, Zenon DEF MoveFollows
<1> QED BY <1>1, <1>2 DEF Follows

\* A step to at that leaves all else of the job.
LEMMA StepTo ==
  ASSUME RefactorTyped, NEW x \in Refactorings, NEW a \in JobSteps, NEW r, r = [job[x] EXCEPT !.at = a]
  PROVE  /\ r \in Jobs /\ r.at = a /\ r.kind = job[x].kind /\ r.of = job[x].of /\ r.to = job[x].to /\ r.new = job[x].new
         /\ r.tx = job[x].tx /\ r.callers = job[x].callers /\ r.places = job[x].places /\ r.left = job[x].left /\ r.code = job[x].code
         /\ job[x].at # "idle" => /\ a \in {"failed", "done"} => JobFits(r)
                                  /\ a = "build" /\ job[x].kind = "rename" => JobFits(r)
<1>1. job[x] \in Jobs /\ JobFits(job[x])
  BY TypesAre
<1>2. /\ r \in Jobs /\ r.at = a /\ r.kind = job[x].kind /\ r.of = job[x].of /\ r.to = job[x].to /\ r.new = job[x].new
      /\ r.tx = job[x].tx /\ r.callers = job[x].callers /\ r.places = job[x].places /\ r.left = job[x].left /\ r.code = job[x].code
  BY <1>1, JobWithStep
<1>3. ASSUME job[x].at # "idle", a \in {"failed", "done"} PROVE JobFits(r)
  BY <1>1, <1>2, <1>3 DEF JobFits
<1>4. ASSUME job[x].at # "idle", a = "build", job[x].kind = "rename" PROVE JobFits(r)
  BY <1>1, <1>2, <1>4 DEF JobFits
<1> QED BY <1>2, <1>3, <1>4

LEMMA FailsStep ==
  ASSUME RefactorHolds, NEW x \in Refactorings, job[x].at # "idle", To(x, "failed"), Looks, strayed' = strayed,
         Reindexes \/ index' = index
  PROVE  RefactorHolds'
<1>0. RowsTyped(index')
  BY ReindexesTyped DEF RefactorHolds, RefactorTyped
<1>1. PICK r : r = [job[x] EXCEPT !.at = "failed"]
  OBVIOUS
<1>2. "failed" \in JobSteps
  BY DEF JobSteps
<1>3. r \in Jobs /\ r.at = "failed" /\ JobFits(r) /\ r.tx = job[x].tx
  BY <1>1, <1>2, StepTo DEF RefactorHolds
<1>4. Becomes(x, r)
  BY <1>1 DEF To
<1>5. strayed \subseteq strayed' /\ Follows(source, clone[r.tx], r)
  BY <1>3, EndFollows
<1> QED BY <1>0, <1>3, <1>4, <1>5, StepLooks

LEMMA BuildStep ==
  ASSUME RefactorHolds, NEW x \in Refactorings, StartBuild(x) \/ BuildPasses(x) \/ BuildFails(x)
  PROVE  RefactorHolds'
<1>1. RefactorTyped /\ JobFits(job[x])
  BY TypesAre DEF RefactorHolds
<1>2. CASE StartBuild(x)
  <2>1. PICK r : r = [job[x] EXCEPT !.at = "build"]
    OBVIOUS
  <2>2. job[x].at = "apply" /\ job[x].left = {} /\ Becomes(x, r) /\ Unwritten
    BY <1>2, <2>1 DEF StartBuild, To, JobAt
  <2>3. job[x].kind = "rename" /\ "build" \in JobSteps
    BY <1>1, <2>2 DEF JobFits, JobSteps
  <2>4. /\ r \in Jobs /\ r.at = "build" /\ JobFits(r) /\ r.kind = job[x].kind /\ r.of = job[x].of /\ r.new = job[x].new
        /\ r.tx = job[x].tx /\ r.callers = job[x].callers /\ r.places = job[x].places /\ r.left = job[x].left
    BY <1>1, <2>1, <2>2, <2>3, StepTo
  <2>5. ASSUME x \notin strayed PROVE Follows(source, clone[r.tx], r)
    <3>1. RenameFollows(source, clone[job[x].tx], job[x])
      BY <2>2, <2>5 DEF RefactorHolds, Follows
    <3>2. Reached(source, r.of, r.callers) = Reached(source, job[x].of, job[x].callers)
      BY <2>4, Zenon
    <3>3. RenameFollows(source, clone[r.tx], r)
      <4>1. r.at # "find" /\ r.at # "callers"
        BY <2>4
      <4>2. /\ job[x].callers = {} /\ job[x].places = Reached(source, job[x].of, job[x].callers) /\ job[x].left \subseteq FilesOf(job[x].places)
            /\ clone[job[x].tx] = [f \in CodeFiles |-> IF f \in FilesOf(job[x].places) \ job[x].left
                                                      THEN Applied(source[f], PlacesIn(job[x].places, f), job[x].new) ELSE source[f]]
        BY <2>2, <3>1 DEF RenameFollows
      <4>3. /\ r.callers = {} /\ r.places = Reached(source, r.of, r.callers) /\ r.left \subseteq FilesOf(r.places)
            /\ clone[r.tx] = [f \in CodeFiles |-> IF f \in FilesOf(r.places) \ r.left
                                                 THEN Applied(source[f], PlacesIn(r.places, f), r.new) ELSE source[f]]
        BY <2>4, <3>2, <4>2, Zenon
      <4>4. r.left = {}
        BY <2>2, <2>4
      <4> QED BY <4>1, <4>3, <4>4, Zenon DEF RenameFollows
    <3>4. MoveFollows(source, clone[r.tx], r)
      <4>1. r.at # "read" /\ r.kind # "move"
        BY <2>3, <2>4
      <4> QED BY <4>1, Zenon DEF MoveFollows
    <3> QED BY <3>3, <3>4 DEF Follows
  <2> QED BY <2>2, <2>4, <2>5, StepAlone
<1>3. CASE BuildPasses(x)
  <2>1. PICK r : r = [job[x] EXCEPT !.at = "done"]
    OBVIOUS
  <2>2. job[x].at = "build" /\ Becomes(x, r) /\ Unwritten
    BY <1>3, <2>1 DEF BuildPasses, To, JobAt
  <2>3. job[x].kind = "rename" /\ "done" \in JobSteps
    BY <1>1, <2>2 DEF JobFits, JobSteps
  <2>4. r \in Jobs /\ r.at = "done" /\ JobFits(r) /\ r.kind = "rename" /\ r.tx = job[x].tx
    BY <1>1, <2>1, <2>2, <2>3, StepTo
  <2> QED BY <2>2, <2>4, EndFollows, StepAlone
<1>4. CASE BuildFails(x)
  <2>1. PICK r : r = [job[x] EXCEPT !.at = "failed"]
    OBVIOUS
  <2>2. /\ job[x].at = "build" /\ Becomes(x, r) /\ clone' = [clone EXCEPT ![job[x].tx] = Nowhere] /\ named' = 0
        /\ strayed' = strayed \cup (Begun \ {x}) /\ source' = source /\ agent' = agent /\ clones' = clones /\ index' = index
    BY <1>4, <2>1 DEF BuildFails, To, JobAt
  <2>3. "failed" \in JobSteps
    BY DEF JobSteps
  <2>4. r \in Jobs /\ r.at = "failed" /\ JobFits(r) /\ r.tx = job[x].tx
    BY <1>1, <2>1, <2>2, <2>3, StepTo
  <2>5. /\ source \in Sources /\ clone \in [TxIds -> Sources] /\ clones \in Nat /\ clones <= MaxClones /\ MaxClones \in Nat
        /\ agent \in Nat /\ agent <= clones /\ job[x].tx \in Nat /\ job[x].tx <= clones
    BY <1>1, TypesAre
  <2>6. /\ clone' \in [TxIds -> Sources] /\ clones' \in 0..MaxClones /\ named' \in 0..clones' /\ agent' \in 0..clones'
        /\ r.tx <= clones' /\ clones <= clones' /\ source' \in Sources
    <3>1. clone' \in [TxIds -> Sources]
      BY <2>2, <2>5, NowhereTyped
    <3>2. clones' \in 0..MaxClones /\ named' \in 0..clones' /\ agent' \in 0..clones' /\ r.tx <= clones' /\ clones <= clones'
      BY <2>2, <2>4, <2>5
    <3> QED BY <2>2, <2>5, <3>1, <3>2
  <2>7. RefactorTyped' /\ job'[x] = r /\ \A y \in Refactorings : y # x => job'[y] = job[y]
    <3>1. RowsTyped(index')
      BY <1>1, <2>2 DEF RefactorTyped
    <3> QED BY <1>1, <2>2, <2>4, <2>6, <3>1, TypedAgain
  <2>8. ASSUME NEW y \in Refactorings, y \notin strayed', job'[y].at # "idle" PROVE Follows(source', clone'[job'[y].tx], job'[y])
    <3>1. CASE y = x
      BY <2>4, <2>7, <3>1, EndFollows
    <3>2. CASE y # x
      BY <2>2, <2>7, <2>8, <3>2 DEF Begun
    <3> QED BY <3>1, <3>2
  <2> QED BY <2>7, <2>8 DEF RefactorHolds
<1> QED BY <1>2, <1>3, <1>4

\* A place of the symbol, or of a caller searched for and found.
IsReached(src, o, cs, p) ==
  \/ \E d \in Its(src, o) : p = Place(o, d)
  \/ \E g \in CodeFiles : \E d \in Definitions(src[g]) :
       p = Place(g, d) /\ Findable(d.id) /\ <<g, d.id>> \in CallersOf(src, o) /\ <<g, d.id>> \notin cs

LEMMA ReachedIs ==
  ASSUME NEW src, NEW o, NEW cs, NEW p
  PROVE  p \in Reached(src, o, cs) <=> IsReached(src, o, cs, p)
<1>1. p \in Reached(src, o, cs) <=> \/ \E d \in Its(src, o) : p = Place(o, d)
                                    \/ \E g \in CodeFiles : \E d \in Searched(src, o, cs, g) : p = Place(g, d)
  BY DEF Reached
<1>2. ASSUME NEW g, NEW d PROVE d \in Searched(src, o, cs, g) <=> /\ d \in Definitions(src[g]) /\ Findable(d.id)
                                                                  /\ <<g, d.id>> \in CallersOf(src, o) /\ <<g, d.id>> \notin cs
  BY DEF Searched
<1> QED BY <1>1, <1>2, Zenon DEF IsReached

LEMMA OnlyOne ==
  ASSUME NEW src \in Sources, NEW o \in CodeFiles, NEW d \in Its(src, o), NEW e \in Its(src, o)
  PROVE  d = e
<1>1. src[o] \in TokenTexts /\ d \in Definitions(src[o]) /\ e \in Definitions(src[o]) /\ d.id = e.id
  BY DEF Sources, Its
<1> QED BY <1>1, IdsAreUnique

LEMMA FindSymbolStep == ASSUME RefactorHolds, NEW x \in Refactorings, FindSymbol(x) PROVE RefactorHolds'
<1>1. /\ RefactorTyped /\ source \in Sources /\ clone \in [TxIds -> Sources] /\ job[x] \in Jobs /\ JobFits(job[x])
      /\ job[x].at # "idle" => job[x].tx \in TxIds /\ job[x].of \in CodeFiles /\ job[x].to \in CodeFiles
  BY TypesAre DEF RefactorHolds
<1>2. PICK d \in Rows(index', job[x].of, Old) :
        /\ Becomes(x, [job[x] EXCEPT !.at = IF job[x].kind = "move" THEN "read" ELSE "callers", !.places = {Place(job[x].of, d)}])
        /\ StraysIf(x, d \notin Definitions(source[job[x].of]))
  BY Zenon DEF FindSymbol
<1>3. PICK a, ps : a = (IF job[x].kind = "move" THEN "read" ELSE "callers") /\ ps = {Place(job[x].of, d)}
  OBVIOUS
<1>4. PICK r : r = [job[x] EXCEPT !.at = a, !.places = ps]
  OBVIOUS
<1>5. Becomes(x, r) /\ Looks /\ Reindexes /\ job[x].at = "find"
  BY <1>2, <1>3, <1>4, Zenon DEF FindSymbol, JobAt
<1>6. strayed \subseteq strayed' /\ (x \notin strayed' => x \notin strayed /\ d \in Definitions(source[job[x].of]))
  BY <1>2 DEF StraysIf
<1>7. a \in JobSteps /\ ps \in SUBSET PlacesOfFiles /\ RowsTyped(index') /\ d.id = Old
  <2>1. RowsTyped(index')
    BY <1>1, <1>5, ReindexesTyped
  <2>2. Place(job[x].of, d) \in PlacesOfFiles /\ d.id = Old
    BY <1>1, <1>2, <1>5, <2>1, RowPlaceTyped
  <2> QED BY <1>3, <2>1, <2>2 DEF JobSteps
<1>8. /\ r \in Jobs /\ r.at = a /\ r.places = ps /\ r.kind = job[x].kind /\ r.of = job[x].of /\ r.to = job[x].to
      /\ r.tx = job[x].tx /\ r.callers = job[x].callers
  BY <1>1, <1>4, <1>7 DEF Jobs
<1>9. JobFits(r)
  <2>1. IsFiniteSet(ps) /\ ps # {}
    BY <1>3, FS_Singleton
  <2>2. job[x].kind \in {"rename", "move"} /\ job[x].tx # 0
    BY <1>1, <1>5 DEF JobFits
  <2>3. CASE job[x].kind = "move"
    <3>1. r.at = "read" /\ r.kind = "move"
      BY <1>3, <1>8, <2>3
    <3> QED BY <1>1, <1>5, <1>8, <2>1, <2>2, <3>1 DEF JobFits
  <2>4. CASE job[x].kind = "rename"
    <3>1. r.at = "callers" /\ r.kind = "rename"
      BY <1>3, <1>8, <2>4
    <3> QED BY <1>1, <1>5, <1>8, <2>1, <2>2, <3>1 DEF JobFits
  <2> QED BY <2>2, <2>3, <2>4
<1>10. ASSUME x \notin strayed' PROVE Follows(source, clone[r.tx], r)
  <2>1. clone[r.tx] = source /\ (r.kind = "rename" => r.callers = CallersOf(source, r.of))
    BY <1>5, <1>6, <1>8, <1>10 DEF RefactorHolds, Follows, RenameFollows
  <2>2. r.places = {Place(r.of, d)} /\ d \in Its(source, r.of)
    BY <1>3, <1>6, <1>7, <1>8, <1>10 DEF Its
  <2>3. ASSUME r.kind = "rename" PROVE r.places = Reached(source, r.of, r.callers)
    <3>1. ASSUME NEW p PROVE p \in r.places <=> p \in Reached(source, r.of, r.callers)
      <4>1. p \in Reached(source, r.of, r.callers) <=> \E e \in Its(source, r.of) : p = Place(r.of, e)
        <5>1. p \in Reached(source, r.of, r.callers) <=> 
                 \/ \E e \in Its(source, r.of) : p = Place(r.of, e)
                 \/ \E g \in CodeFiles : \E e \in Definitions(source[g]) :
                      p = Place(g, e) /\ Findable(e.id) /\ <<g, e.id>> \in CallersOf(source, r.of) /\ <<g, e.id>> \notin r.callers
          BY ReachedIs, Zenon DEF IsReached
        <5>2. \A q : q \in CallersOf(source, r.of) => q \in r.callers
          BY <2>1, <2>3
        <5> QED BY <5>1, <5>2, Zenon
      <4>2. \A e \in Its(source, r.of) : e = d
        BY <1>1, <1>5, <1>8, <2>2, OnlyOne
      <4> QED BY <2>2, <4>1, <4>2
    <3> QED BY <3>1
  <2>4. r.at = "read" \/ (r.at = "callers" /\ r.kind = "rename")
    <3>1. job[x].kind \in {"rename", "move"}
      BY <1>1, <1>5 DEF JobFits
    <3> QED BY <1>3, <1>8, <3>1
  <2>5. RenameFollows(source, clone[r.tx], r)
    <3>1. r.at # "find" /\ r.at \notin {"apply", "build"} /\ r.at # "build"
      BY <2>4
    <3>2. r.at = "callers" => r.callers \subseteq CallersOf(source, r.of) /\ r.places = Reached(source, r.of, r.callers)
      BY <2>1, <2>3, <2>4
    <3> QED BY <2>1, <3>1, <3>2, Zenon DEF RenameFollows
  <2>6. MoveFollows(source, clone[r.tx], r)
    <3>1. ~(r.kind = "move" /\ r.at \in {"cut", "paste", "done"})
      BY <2>4
    <3>2. ItsPlace(source, r, d)
      BY <2>2 DEF ItsPlace
    <3> QED BY <2>1, <2>2, <3>1, <3>2, Zenon DEF MoveFollows
  <2> QED BY <2>5, <2>6 DEF Follows
<1> QED BY <1>5, <1>6, <1>7, <1>8, <1>9, <1>10, StepLooks

LEMMA FindCallerStep == ASSUME RefactorHolds, NEW x \in Refactorings, NEW c \in job[x].callers, FindCaller(x, c) PROVE RefactorHolds'
<1>1. /\ RefactorTyped /\ source \in Sources /\ clone \in [TxIds -> Sources] /\ job[x] \in Jobs /\ JobFits(job[x])
      /\ job[x].at # "idle" => job[x].tx \in TxIds /\ job[x].of \in CodeFiles /\ job[x].to \in CodeFiles
  BY TypesAre DEF RefactorHolds
<1>2. job[x].at = "callers" /\ Looks /\ Reindexes
  BY Zenon DEF FindCaller, JobAt
<1>3. PICK g \in CodeFiles, i \in Ids : c = <<g, i>> /\ c[1] = g /\ c[2] = i
  <2>1. job[x].callers \in SUBSET (CodeFiles \X Ids)
    BY <1>1 DEF Jobs
  <2> QED BY <2>1
<1>4. PICK cs : cs = job[x].callers \ {c}
  OBVIOUS
<1>5. cs \in SUBSET (CodeFiles \X Ids)
  BY <1>1, <1>4 DEF Jobs
<1> DEFINE found == {d \in Definitions(source[c[1]]) : d.id = c[2] /\ Findable(c[2])}
<1>5a. Caller(c) = found /\ RowsTyped(index')
  BY <1>1, <1>2, ReindexesTyped DEF Caller
<1>6. /\ \/ Becomes(x, [job[x] EXCEPT !.callers = cs]) /\ (x \notin strayed' => found = {})
         \/ \E d \in Rows(index', g, i) : /\ Becomes(x, [job[x] EXCEPT !.callers = cs, !.places = @ \cup {Place(g, d)}])
                                          /\ x \notin strayed' => d \in found
      /\ strayed \subseteq strayed'
  <2>1. CASE Becomes(x, [job[x] EXCEPT !.callers = @ \ {c}]) /\ StraysIf(x, Caller(c) # {})
    <3>1. [job[x] EXCEPT !.callers = @ \ {c}] = [job[x] EXCEPT !.callers = cs]
      BY <1>1, <1>4 DEF Jobs
    <3>2. strayed \subseteq strayed' /\ (x \notin strayed' => Caller(c) = {})
      BY <2>1 DEF StraysIf
    <3> QED BY <1>5a, <2>1, <3>1, <3>2
  <2>2. ASSUME NEW d \in Rows(index', c[1], c[2]), StraysIf(x, d \notin Caller(c)),
               Becomes(x, [job[x] EXCEPT !.callers = @ \ {c}, !.places = @ \cup {Place(c[1], d)}])
        PROVE  /\ Becomes(x, [job[x] EXCEPT !.callers = cs, !.places = @ \cup {Place(g, d)}]) /\ (x \notin strayed' => d \in found)
               /\ strayed \subseteq strayed' /\ d \in Rows(index', g, i)
    <3>1. [job[x] EXCEPT !.callers = @ \ {c}, !.places = @ \cup {Place(c[1], d)}] = [job[x] EXCEPT !.callers = cs, !.places = @ \cup {Place(g, d)}]
      BY <1>1, <1>3, <1>4 DEF Jobs
    <3>2. strayed \subseteq strayed' /\ (x \notin strayed' => d \in Caller(c))
      BY <2>2 DEF StraysIf
    <3>3. d \in Rows(index', g, i)
      BY <1>3, <2>2
    <3> QED BY <1>5a, <2>2, <3>1, <3>2, <3>3
  <2>3. \/ Becomes(x, [job[x] EXCEPT !.callers = @ \ {c}]) /\ StraysIf(x, Caller(c) # {})
        \/ \E d \in Rows(index', c[1], c[2]) : /\ StraysIf(x, d \notin Caller(c))
                                               /\ Becomes(x, [job[x] EXCEPT !.callers = @ \ {c}, !.places = @ \cup {Place(c[1], d)}])
    BY Zenon DEF FindCaller
  <2> HIDE DEF found
  <2> QED BY <2>1, <2>2, <2>3
<1>7. ASSUME NEW ps \in SUBSET PlacesOfFiles, job[x].places \subseteq ps, IsFiniteSet(ps),
             NEW r \in Jobs, r.at = job[x].at, r.kind = job[x].kind, r.of = job[x].of, r.to = job[x].to, r.tx = job[x].tx,
             r.callers = cs, r.places = ps, Becomes(x, r),
             x \notin strayed' /\ job[x].places = Reached(source, job[x].of, job[x].callers) /\ c \in CallersOf(source, job[x].of)
               => ps = Reached(source, job[x].of, cs)
      PROVE  RefactorHolds'
  <2>1. JobFits(r)
    BY <1>1, <1>2, <1>7 DEF JobFits
  <2>2. ASSUME x \notin strayed' PROVE Follows(source, clone[r.tx], r)
    <3>1. RenameFollows(source, clone[job[x].tx], job[x])
      BY <1>2, <1>6, <2>2 DEF RefactorHolds, Follows
    <3>2. clone[job[x].tx] = source /\ job[x].callers \subseteq CallersOf(source, job[x].of) /\ job[x].places = Reached(source, job[x].of, job[x].callers)
      BY <1>2, <3>1, Zenon DEF RenameFollows
    <3>3. ps = Reached(source, job[x].of, cs) /\ cs \subseteq CallersOf(source, job[x].of)
      BY <1>4, <1>7, <2>2, <3>2
    <3>4. r.at = "callers"
      BY <1>2, <1>7
    <3>5. clone[r.tx] = source /\ r.callers \subseteq CallersOf(source, r.of) /\ r.places = Reached(source, r.of, r.callers)
      BY <1>7, <3>2, <3>3
    <3>6. r.at # "find" /\ r.at \notin {"apply", "build"} /\ r.at # "build" /\ r.at # "read" /\ ~(r.kind = "move" /\ r.at \in {"cut", "paste", "done"})
      BY <3>4
    <3> QED BY <3>5, <3>6, Zenon DEF Follows, RenameFollows, MoveFollows
  <2> QED BY <1>2, <1>5a, <1>6, <1>7, <2>1, <2>2, StepLooks
<1>8. /\ job[x].places \in SUBSET PlacesOfFiles /\ IsFiniteSet(job[x].places)
  BY <1>1 DEF Jobs, JobFits
\* what more is reached without c
<1>9. ASSUME c \in CallersOf(source, job[x].of), NEW p
      PROVE  p \in Reached(source, job[x].of, cs) <=> p \in Reached(source, job[x].of, job[x].callers) \/ \E d \in found : p = Place(g, d)
  <2>1. ASSUME NEW f, NEW d
        PROVE  <<f, d.id>> \notin cs <=> <<f, d.id>> \notin job[x].callers \/ (f = g /\ d.id = i)
    <3>1. <<f, d.id>> = c <=> f = g /\ d.id = i
      BY <1>3
    <3> QED BY <1>4, <3>1
  <2>2. (\E d \in found : p = Place(g, d)) <=> \E d \in Definitions(source[g]) : d.id = i /\ Findable(i) /\ p = Place(g, d)
    BY <1>3
  <2>3. <<g, i>> \in CallersOf(source, job[x].of)
    BY <1>3, <1>9
  <2>4. ASSUME \E f \in CodeFiles : \E d \in Definitions(source[f]) :
                 p = Place(f, d) /\ Findable(d.id) /\ <<f, d.id>> \in CallersOf(source, job[x].of) /\ <<f, d.id>> \notin cs
        PROVE  \/ \E f \in CodeFiles : \E d \in Definitions(source[f]) :
                 p = Place(f, d) /\ Findable(d.id) /\ <<f, d.id>> \in CallersOf(source, job[x].of) /\ <<f, d.id>> \notin job[x].callers
               \/ \E d \in Definitions(source[g]) : d.id = i /\ Findable(i) /\ p = Place(g, d)
    <3>1. PICK f \in CodeFiles : \E d \in Definitions(source[f]) :
                 p = Place(f, d) /\ Findable(d.id) /\ <<f, d.id>> \in CallersOf(source, job[x].of) /\ <<f, d.id>> \notin cs
      BY <2>4, Zenon
    <3>2. PICK d \in Definitions(source[f]) :
                 p = Place(f, d) /\ Findable(d.id) /\ <<f, d.id>> \in CallersOf(source, job[x].of) /\ <<f, d.id>> \notin cs
      BY <3>1, Zenon
    <3>3. CASE <<f, d.id>> \notin job[x].callers
      BY <3>2, <3>3, Zenon
    <3>4. CASE f = g /\ d.id = i
      BY <3>2, <3>4
    <3> QED BY <2>1, <3>2, <3>3, <3>4
  <2>5. ASSUME NEW d \in Definitions(source[g]), d.id = i, Findable(i), p = Place(g, d)
        PROVE  \E f \in CodeFiles : \E e \in Definitions(source[f]) :
                 p = Place(f, e) /\ Findable(e.id) /\ <<f, e.id>> \in CallersOf(source, job[x].of) /\ <<f, e.id>> \notin cs
    <3>1. p = Place(g, d) /\ Findable(d.id) /\ <<g, d.id>> \in CallersOf(source, job[x].of) /\ <<g, d.id>> \notin cs
      BY <2>1, <2>3, <2>5
    <3> QED BY <3>1, Zenon
  <2>6. ASSUME NEW f \in CodeFiles, NEW d \in Definitions(source[f]), <<f, d.id>> \notin job[x].callers PROVE <<f, d.id>> \notin cs
    BY <1>4, <2>6
  <2> DEFINE Q(q) == \E f \in CodeFiles : \E d \in Definitions(source[f]) :
                       p = Place(f, d) /\ Findable(d.id) /\ <<f, d.id>> \in CallersOf(source, job[x].of) /\ <<f, d.id>> \notin q
             R == \E d \in Its(source, job[x].of) : p = Place(job[x].of, d)
             N == \E d \in Definitions(source[g]) : d.id = i /\ Findable(i) /\ p = Place(g, d)
  <2>7. p \in Reached(source, job[x].of, cs) <=> R \/ Q(cs)
    BY ReachedIs, Zenon DEF IsReached
  <2>8. p \in Reached(source, job[x].of, job[x].callers) <=> R \/ Q(job[x].callers)
    BY ReachedIs, Zenon DEF IsReached
  <2>9. Q(cs) => Q(job[x].callers) \/ N
    BY <2>4, Zenon
  <2>10. Q(job[x].callers) => Q(cs)
    BY <2>6, Zenon
  <2>11. N => Q(cs)
    BY <2>5, Zenon
  <2>12. (\E d \in found : p = Place(g, d)) <=> N
    BY <2>2, Zenon
  <2> HIDE DEF Q, R, N, found
  <2> QED BY <2>7, <2>8, <2>9, <2>10, <2>11, <2>12, Zenon
<1>10. CASE Becomes(x, [job[x] EXCEPT !.callers = cs]) /\ (x \notin strayed' => found = {})
  <2>1. PICK r : r = [job[x] EXCEPT !.callers = cs]
    OBVIOUS
  <2>2. r \in Jobs /\ r.callers = cs /\ r.at = job[x].at /\ r.kind = job[x].kind /\ r.of = job[x].of /\ r.to = job[x].to /\ r.tx = job[x].tx
        /\ r.places = job[x].places
    BY <1>1, <1>5, <2>1 DEF Jobs
  <2>3. ASSUME x \notin strayed', c \in CallersOf(source, job[x].of) PROVE Reached(source, job[x].of, job[x].callers) = Reached(source, job[x].of, cs)
    <3>1. \A p : p \in Reached(source, job[x].of, cs) <=> p \in Reached(source, job[x].of, job[x].callers)
      BY <1>9, <1>10, <2>3
    <3> QED BY <3>1
  <2>4. Becomes(x, r)
    BY <1>10, <2>1
  <2> QED BY <1>7, <1>8, <2>2, <2>3, <2>4
<1>11. ASSUME NEW d \in Rows(index', g, i), x \notin strayed' => d \in found,
              Becomes(x, [job[x] EXCEPT !.callers = cs, !.places = @ \cup {Place(g, d)}])
       PROVE  RefactorHolds'
  <2>1. PICK ps : ps = job[x].places \cup {Place(g, d)}
    OBVIOUS
  <2>2. PICK r : r = [job[x] EXCEPT !.callers = cs, !.places = ps]
    OBVIOUS
  <2>3. Becomes(x, r)
    <3>1. [job[x] EXCEPT !.callers = cs, !.places = @ \cup {Place(g, d)}] = [job[x] EXCEPT !.callers = cs, !.places = ps]
      BY <1>1, <2>1 DEF Jobs
    <3> QED BY <1>11, <2>2, <3>1
  <2>4. x \notin strayed' => d \in Definitions(source[g]) /\ d.id = i /\ Findable(i)
    BY <1>3, <1>11
  <2>5. ps \in SUBSET PlacesOfFiles /\ job[x].places \subseteq ps /\ IsFiniteSet(ps)
    <3>1. Place(g, d) \in PlacesOfFiles
      BY <1>5a, RowPlaceTyped
    <3> QED BY <1>8, <2>1, <3>1, FS_AddElement
  <2>6. r \in Jobs /\ r.callers = cs /\ r.places = ps /\ r.at = job[x].at /\ r.kind = job[x].kind /\ r.of = job[x].of /\ r.to = job[x].to /\ r.tx = job[x].tx
    BY <1>1, <1>5, <2>2, <2>5 DEF Jobs
  <2>7. ASSUME x \notin strayed' PROVE d \in found /\ \A e \in found : e = d
    <3>1. source[g] \in TokenTexts
      BY <1>1 DEF Sources
    <3>2. \A e \in found : e \in Definitions(source[g]) /\ e.id = d.id
      BY <1>3, <2>4, <2>7
    <3> QED BY <1>11, <2>4, <2>7, <3>1, <3>2, IdsAreUnique
  <2>8. ASSUME x \notin strayed', c \in CallersOf(source, job[x].of), job[x].places = Reached(source, job[x].of, job[x].callers) PROVE ps = Reached(source, job[x].of, cs)
    <3>1. ASSUME NEW p PROVE p \in ps <=> p \in Reached(source, job[x].of, cs)
      <4>1. (\E e \in found : p = Place(g, e)) <=> p = Place(g, d)
        BY <2>7, <2>8
      <4>2. p \in Reached(source, job[x].of, cs) <=> p \in Reached(source, job[x].of, job[x].callers) \/ p = Place(g, d)
        BY <1>9, <2>8, <4>1, Zenon
      <4> QED BY <2>1, <2>8, <4>2
    <3> QED BY <3>1
  <2> QED BY <1>7, <2>3, <2>5, <2>6, <2>8
<1> QED BY <1>6, <1>10, <1>11

\* The clone of a rename, of which the files of left are not yet rewritten.
Rewriting(src, ps, left, n) ==
  [f \in CodeFiles |-> IF f \in FilesOf(ps) \ left THEN Applied(src[f], PlacesIn(ps, f), n) ELSE src[f]]

LEMMA ApplyFollows ==
  ASSUME NEW src, NEW cl, NEW r, r.at = "apply", r.kind = "rename"
  PROVE  Follows(src, cl, r) <=> /\ r.callers = {} /\ r.places = Reached(src, r.of, r.callers) /\ r.left \subseteq FilesOf(r.places)
                                 /\ cl = Rewriting(src, r.places, r.left, r.new)
<1>1. r.at # "find" /\ r.at # "callers" /\ r.at # "build" /\ r.at # "read" /\ r.kind # "move" /\ r.at \in {"apply", "build"}
  OBVIOUS
<1> QED BY <1>1, Zenon DEF Follows, RenameFollows, MoveFollows, Rewriting

LEMMA PlacesFoundStep == ASSUME RefactorHolds, NEW x \in Refactorings, PlacesFound(x) PROVE RefactorHolds'
<1>1. /\ RefactorTyped /\ source \in Sources /\ job[x] \in Jobs /\ JobFits(job[x])
  BY TypesAre DEF RefactorHolds
<1>2. PICK fs : fs = FilesOf(job[x].places)
  OBVIOUS
<1>3. PICK r : r = [job[x] EXCEPT !.at = "apply", !.left = fs]
  OBVIOUS
<1>4. job[x].at = "callers" /\ job[x].callers = {} /\ Becomes(x, r) /\ Unwritten
  BY <1>2, <1>3, Zenon DEF PlacesFound, JobAt, FilesOf
<1>5. fs \in SUBSET CodeFiles
  <2>1. job[x].places \in SUBSET PlacesOfFiles
    BY <1>1 DEF Jobs
  <2> QED BY <1>2, <2>1 DEF FilesOf, PlacesOfFiles
<1>6. /\ r \in Jobs /\ r.at = "apply" /\ r.left = fs /\ r.kind = job[x].kind /\ r.of = job[x].of /\ r.to = job[x].to
      /\ r.tx = job[x].tx /\ r.callers = job[x].callers /\ r.places = job[x].places /\ r.new = job[x].new
  BY <1>1, <1>3, <1>5 DEF Jobs, JobSteps
<1>7. job[x].kind = "rename" /\ JobFits(r)
  BY <1>1, <1>4, <1>6 DEF JobFits
<1>8. ASSUME x \notin strayed PROVE Follows(source, clone[r.tx], r)
  <2>1. clone[job[x].tx] = source /\ job[x].places = Reached(source, job[x].of, job[x].callers)
    BY <1>4, <1>8 DEF RefactorHolds, Follows, RenameFollows
  <2>2. source = Rewriting(source, r.places, r.left, r.new)
    <3>1. \A f : f \notin FilesOf(r.places) \ r.left
      BY <1>2, <1>6
    <3>2. source = [f \in CodeFiles |-> source[f]]
      BY <1>1 DEF Sources
    <3> QED BY <3>1, <3>2 DEF Rewriting
  <2>3. r.callers = {} /\ r.places = Reached(source, r.of, r.callers) /\ r.left \subseteq FilesOf(r.places)
    BY <1>2, <1>4, <1>6, <2>1
  <2>4. clone[r.tx] = source
    BY <1>6, <2>1
  <2> QED BY <1>6, <1>7, <2>2, <2>3, <2>4, ApplyFollows
<1> QED BY <1>4, <1>6, <1>7, <1>8, StepAlone

LEMMA TextIs ==
  ASSUME RefactorTyped, NEW x \in Refactorings, job[x].at # "idle", NEW f \in CodeFiles
  PROVE  /\ TextOf(x, f) \in TokenTexts /\ (TextOf(x, f) # NoSource => TextOf(x, f) \in Text)
         /\ clone[job[x].tx][f] = source[f] => TextOf(x, f) = source[f]
<1>1. source[f] \in TokenTexts /\ clone[job[x].tx][f] \in TokenTexts
  <2>1. source \in Sources /\ clone[job[x].tx] \in Sources
    BY TypesAre
  <2> QED BY <2>1 DEF Sources
<1> QED BY <1>1 DEF TextOf, TokenTexts, Text

LEMMA ApplyFileStep == ASSUME RefactorHolds, NEW x \in Refactorings, NEW f \in CodeFiles, ApplyFile(x, f) PROVE RefactorHolds'
<1>1. /\ RefactorTyped /\ source \in Sources /\ clone \in [TxIds -> Sources] /\ job[x] \in Jobs /\ JobFits(job[x])
  BY TypesAre DEF RefactorHolds
<1>2. PICK fs, t : fs = job[x].left \ {f} /\ t = Applied(TextOf(x, f), PlacesIn(job[x].places, f), job[x].new)
  OBVIOUS
<1>3. PICK r : r = [job[x] EXCEPT !.left = fs]
  OBVIOUS
<1>4. job[x].at = "apply" /\ f \in job[x].left /\ TextOf(x, f) # NoSource /\ Becomes(x, r) /\ Stages(x, f, t)
  <2>1. [job[x] EXCEPT !.left = @ \ {f}] = r
    BY <1>1, <1>2, <1>3 DEF Jobs
  <2> QED BY <1>2, <2>1, Zenon DEF ApplyFile, JobAt, PlacesIn
<1>5. fs \in SUBSET CodeFiles
  BY <1>1, <1>2 DEF Jobs
<1>6. /\ r \in Jobs /\ r.at = "apply" /\ r.left = fs /\ r.kind = job[x].kind /\ r.of = job[x].of /\ r.to = job[x].to
      /\ r.tx = job[x].tx /\ r.callers = job[x].callers /\ r.places = job[x].places /\ r.new = job[x].new
  BY <1>1, <1>3, <1>4, <1>5 DEF Jobs
<1>7. job[x].kind = "rename" /\ JobFits(r)
  BY <1>1, <1>4, <1>6 DEF JobFits
<1>8. t \in Text
  <2>1. TextOf(x, f) \in Text /\ job[x].new \in Text
    BY <1>1, <1>4, TextIs DEF Jobs
  <2>2. job[x].places \in SUBSET PlacesOfFiles /\ IsFiniteSet(job[x].places)
    BY <1>1 DEF Jobs, JobFits
  <2>3. PlacesIn(job[x].places, f) \in SUBSET job[x].places
    BY DEF PlacesIn
  <2>4. IsFiniteSet(PlacesIn(job[x].places, f)) /\ \A p \in PlacesIn(job[x].places, f) : IsSpan(p)
    BY <2>2, <2>3, FS_Subset DEF PlacesOfFiles
  <2> QED BY <1>2, <2>1, <2>4, AppliedTyped
<1>9. ASSUME x \notin strayed PROVE Follows(source, [clone[r.tx] EXCEPT ![f] = t], r)
  <2>1. Follows(source, clone[job[x].tx], job[x])
    BY <1>4, <1>9 DEF RefactorHolds
  <2>2. /\ job[x].callers = {} /\ job[x].places = Reached(source, job[x].of, job[x].callers) /\ job[x].left \subseteq FilesOf(job[x].places)
        /\ clone[job[x].tx] = Rewriting(source, job[x].places, job[x].left, job[x].new)
    BY <1>4, <1>7, <2>1, ApplyFollows
  <2>3. f \in FilesOf(job[x].places) /\ clone[job[x].tx][f] = source[f]
    BY <1>4, <2>2 DEF Rewriting
  <2>4. t = Applied(source[f], PlacesIn(job[x].places, f), job[x].new)
    BY <1>1, <1>2, <1>4, <2>3, TextIs
  <2>5. [clone[job[x].tx] EXCEPT ![f] = t] = Rewriting(source, job[x].places, fs, job[x].new)
    <3>1. \A g \in CodeFiles : g \in FilesOf(job[x].places) \ fs <=> g \in FilesOf(job[x].places) \ job[x].left \/ g = f
      BY <1>2, <1>4, <2>3
    <3> DEFINE A(g) == Applied(source[g], PlacesIn(job[x].places, g), job[x].new)
    <3>2. t = A(f)
      BY <2>4
    <3>3. clone[job[x].tx] = [g \in CodeFiles |-> IF g \in FilesOf(job[x].places) \ job[x].left THEN A(g) ELSE source[g]]
      BY <2>2 DEF Rewriting
    <3>4. Rewriting(source, job[x].places, fs, job[x].new) = [g \in CodeFiles |-> IF g \in FilesOf(job[x].places) \ fs THEN A(g) ELSE source[g]]
      BY DEF Rewriting
    <3> HIDE DEF A
    <3> QED BY <3>1, <3>2, <3>3, <3>4
  <2>6. r.callers = {} /\ r.places = Reached(source, r.of, r.callers) /\ r.left \subseteq FilesOf(r.places)
    BY <1>2, <1>6, <2>2
  <2>7. [clone[r.tx] EXCEPT ![f] = t] = Rewriting(source, r.places, r.left, r.new)
    BY <1>6, <2>5
  <2> QED BY <1>6, <1>7, <2>6, <2>7, ApplyFollows
<1>10. job[x].at # "idle" /\ r.tx = job[x].tx
  BY <1>4, <1>6
<1> QED BY <1>4, <1>6, <1>7, <1>8, <1>9, <1>10, StepStaged

\* The clone of a move that has cut, and of one that has pasted.
CutClone(src, j, d) == [f \in CodeFiles |-> IF f = j.of THEN CutOut(src[f], d) ELSE src[f]]
PastedClone(src, j, d) == [f \in CodeFiles |-> IF f = j.to THEN Glue(Base(src, j, d), j.code) ELSE IF f = j.of THEN CutOut(src[f], d) ELSE src[f]]
Knows(src, j, d) == ItsPlace(src, j, d) /\ j.code = CodeAt(src[j.of], d)

LEMMA MoveIs ==
  ASSUME NEW src, NEW cl, NEW r, r.kind = "move"
  PROVE  /\ r.at = "read" => (Follows(src, cl, r) <=> cl = src /\ \E d \in Its(src, r.of) : ItsPlace(src, r, d))
         /\ r.at = "cut" => (Follows(src, cl, r) <=> \E d \in Its(src, r.of) : Knows(src, r, d) /\ cl = src)
         /\ r.at = "paste" => (Follows(src, cl, r) <=> \E d \in Its(src, r.of) : Knows(src, r, d) /\ cl = CutClone(src, r, d))
         /\ r.at = "done" => (Follows(src, cl, r) <=> \E d \in Its(src, r.of) : Knows(src, r, d) /\ cl = PastedClone(src, r, d))
<1>1. ASSUME r.at \in {"read", "cut", "paste", "done"} PROVE RenameFollows(src, cl, r)
  <2>1. r.at # "find" /\ r.at # "callers" /\ r.at \notin {"apply", "build"} /\ r.at # "build"
    BY <1>1
  <2> QED BY <2>1, Zenon DEF RenameFollows
<1>2. ASSUME r.at = "read" PROVE MoveFollows(src, cl, r) <=> cl = src /\ \E d \in Its(src, r.of) : ItsPlace(src, r, d)
  <2>1. r.at \notin {"cut", "paste", "done"}
    BY <1>2
  <2> QED BY <1>2, <2>1, Zenon DEF MoveFollows
<1>3. ASSUME r.at = "cut" PROVE MoveFollows(src, cl, r) <=> \E d \in Its(src, r.of) : Knows(src, r, d) /\ cl = src
  <2>1. r.at \in {"cut", "paste", "done"} /\ r.at # "read" /\ r.at # "paste" /\ r.at # "done"
    BY <1>3
  <2> QED BY <1>3, <2>1, Zenon DEF MoveFollows, Knows
<1>4. ASSUME r.at = "paste" PROVE MoveFollows(src, cl, r) <=> \E d \in Its(src, r.of) : Knows(src, r, d) /\ cl = CutClone(src, r, d)
  <2>1. r.at \in {"cut", "paste", "done"} /\ r.at # "read" /\ r.at # "cut" /\ r.at # "done"
    BY <1>4
  <2> QED BY <1>4, <2>1, Zenon DEF MoveFollows, Knows, CutClone
<1>5. ASSUME r.at = "done" PROVE MoveFollows(src, cl, r) <=> \E d \in Its(src, r.of) : Knows(src, r, d) /\ cl = PastedClone(src, r, d)
  <2>1. r.at \in {"cut", "paste", "done"} /\ r.at # "read" /\ r.at # "cut" /\ r.at # "paste"
    BY <1>5
  <2> QED BY <1>5, <2>1, Zenon DEF MoveFollows, Knows, PastedClone
<1> QED BY <1>1, <1>2, <1>3, <1>4, <1>5, Zenon DEF Follows

LEMMA PlaceTaken ==
  ASSUME RefactorTyped, NEW x \in Refactorings, job[x].places # {}
  PROVE  /\ ThePlace(x) \in PlacesOfFiles /\ IsSpan(ThePlace(x))
         /\ \A d : ItsPlace(source, job[x], d) => /\ ThePlace(x).from = d.from /\ ThePlace(x).to = d.to
                                                  /\ \A t : CodeAt(t, ThePlace(x)) = CodeAt(t, d) /\ CutOut(t, ThePlace(x)) = CutOut(t, d)
<1>1. job[x].places \in SUBSET PlacesOfFiles
  <2>1. job[x] \in Jobs
    BY TypesAre
  <2> QED BY <2>1 DEF Jobs
<1>2. ThePlace(x) \in job[x].places
  BY DEF ThePlace
<1>3. ThePlace(x) \in PlacesOfFiles /\ IsSpan(ThePlace(x))
  BY <1>1, <1>2 DEF PlacesOfFiles
<1>4. ASSUME NEW d, ItsPlace(source, job[x], d)
      PROVE  /\ ThePlace(x).from = d.from /\ ThePlace(x).to = d.to
             /\ \A t : CodeAt(t, ThePlace(x)) = CodeAt(t, d) /\ CutOut(t, ThePlace(x)) = CutOut(t, d)
  <2>1. ThePlace(x) = Place(job[x].of, d)
    BY <1>2, <1>4 DEF ItsPlace
  <2>2. ThePlace(x).from = d.from /\ ThePlace(x).to = d.to
    BY <2>1 DEF Place
  <2>3. ASSUME NEW t PROVE CodeAt(t, ThePlace(x)) = CodeAt(t, d) /\ CutOut(t, ThePlace(x)) = CutOut(t, d)
    BY <2>2, Zenon DEF CodeAt, CutOut
  <2> QED BY <2>2, <2>3
<1> QED BY <1>3, <1>4

LEMMA ReadSymbolStep == ASSUME RefactorHolds, NEW x \in Refactorings, ReadSymbol(x) PROVE RefactorHolds'
<1>1. /\ RefactorTyped /\ source \in Sources /\ job[x] \in Jobs /\ JobFits(job[x])
      /\ job[x].at # "idle" => job[x].of \in CodeFiles
  BY TypesAre DEF RefactorHolds
<1>2. PICK t, p : t = source[job[x].of] /\ p = ThePlace(x)
  OBVIOUS
<1>3. /\ job[x].at = "read" /\ Unwritten
      /\ IF Fits(t, p) THEN Becomes(x, [job[x] EXCEPT !.at = "cut", !.code = CodeAt(t, p)]) ELSE To(x, "failed")
  BY <1>2, Zenon DEF ReadSymbol, JobAt, CodeAt
<1>4. job[x].kind = "move" /\ job[x].places # {} /\ job[x].at # "idle"
  BY <1>1, <1>3 DEF JobFits
<1>5. CASE ~Fits(t, p)
  BY <1>3, <1>4, <1>5, FailsStep DEF Unwritten
<1>6. CASE Fits(t, p)
  <2>1. PICK c : c = CodeAt(t, p)
    OBVIOUS
  <2>2. c \in Text
    <3>1. t \in Text /\ p.to <= Size(t)
      BY <1>1, <1>2, <1>4, <1>6 DEF Fits, Size, Sources, TokenTexts, Text
    <3>2. IsSpan(p)
      BY <1>1, <1>2, <1>4, PlaceTaken
    <3> QED BY <2>1, <3>1, <3>2, CutOutTyped
  <2>3. PICK r : r = [job[x] EXCEPT !.at = "cut", !.code = c]
    OBVIOUS
  <2>4. Becomes(x, r)
    BY <1>3, <1>6, <2>1, <2>3, Zenon
  <2>5. /\ r \in Jobs /\ r.at = "cut" /\ r.code = c /\ r.kind = job[x].kind /\ r.of = job[x].of /\ r.to = job[x].to
        /\ r.tx = job[x].tx /\ r.places = job[x].places
    BY <1>1, <2>2, <2>3 DEF Jobs, JobSteps
  <2>6. JobFits(r)
    BY <1>1, <1>4, <2>5 DEF JobFits
  <2>7. ASSUME x \notin strayed PROVE Follows(source, clone[r.tx], r)
    <3>1. Follows(source, clone[job[x].tx], job[x])
      BY <1>4, <2>7 DEF RefactorHolds
    <3>2. clone[job[x].tx] = source /\ \E d \in Its(source, job[x].of) : ItsPlace(source, job[x], d)
      BY <1>3, <1>4, <3>1, MoveIs
    <3>3. PICK d \in Its(source, job[x].of) : ItsPlace(source, job[x], d)
      BY <3>2
    <3>4. c = CodeAt(source[job[x].of], d)
      BY <1>1, <1>2, <1>4, <2>1, <3>3, PlaceTaken
    <3>5. d \in Its(source, r.of) /\ Knows(source, r, d)
      BY <2>5, <3>3, <3>4, Zenon DEF Knows, ItsPlace
    <3>6. r.kind = "move" /\ clone[r.tx] = source
      BY <1>4, <2>5, <3>2
    <3> QED BY <2>5, <3>5, <3>6, MoveIs
  <2> QED BY <1>3, <2>4, <2>5, <2>6, <2>7, StepAlone
<1> QED BY <1>5, <1>6

LEMMA CutSymbolStep == ASSUME RefactorHolds, NEW x \in Refactorings, CutSymbol(x) PROVE RefactorHolds'
<1>1. /\ RefactorTyped /\ source \in Sources /\ job[x] \in Jobs /\ JobFits(job[x])
      /\ job[x].at # "idle" => job[x].of \in CodeFiles
  BY TypesAre DEF RefactorHolds
<1>2. PICK t, p : t = TextOf(x, job[x].of) /\ p = ThePlace(x)
  OBVIOUS
<1>3. PICK h : h = CutOut(t, p)
  OBVIOUS
<1>4. /\ job[x].at = "cut" /\ job[x].kind = "move"
      /\ IF Fits(t, p) /\ clone[job[x].tx] # Nowhere THEN To(x, "paste") /\ Stages(x, job[x].of, h) ELSE To(x, "failed") /\ Unwritten
  BY <1>2, <1>3, Zenon DEF CutSymbol, JobAt, CutOut
<1>5. job[x].places # {} /\ job[x].at # "idle" /\ job[x].of \in CodeFiles
  BY <1>1, <1>4 DEF JobFits
<1>6. CASE ~(Fits(t, p) /\ clone[job[x].tx] # Nowhere)
  BY <1>4, <1>5, <1>6, FailsStep DEF Unwritten
<1>7. CASE Fits(t, p) /\ clone[job[x].tx] # Nowhere
  <2>1. PICK r : r = [job[x] EXCEPT !.at = "paste"]
    OBVIOUS
  <2>2. Becomes(x, r) /\ Stages(x, job[x].of, h)
    BY <1>4, <1>7, <2>1 DEF To
  <2>3. h \in Text
    <3>1. t \in Text /\ p.to <= Size(t)
      BY <1>1, <1>2, <1>5, <1>7, TextIs DEF Fits, Size
    <3>2. IsSpan(p)
      BY <1>1, <1>2, <1>5, PlaceTaken
    <3> QED BY <1>3, <3>1, <3>2, CutOutTyped
  <2>4. /\ r \in Jobs /\ r.at = "paste" /\ r.code = job[x].code /\ r.kind = "move" /\ r.of = job[x].of /\ r.to = job[x].to
        /\ r.tx = job[x].tx /\ r.places = job[x].places
    BY <1>1, <1>4, <2>1 DEF Jobs, JobSteps
  <2>5. JobFits(r)
    BY <1>1, <1>5, <2>4 DEF JobFits
  <2>6. ASSUME x \notin strayed PROVE Follows(source, [clone[r.tx] EXCEPT ![job[x].of] = h], r)
    <3>1. Follows(source, clone[job[x].tx], job[x])
      BY <1>5, <2>6 DEF RefactorHolds
    <3>2. PICK d \in Its(source, job[x].of) : Knows(source, job[x], d) /\ clone[job[x].tx] = source
      BY <1>4, <3>1, MoveIs
    <3>3. t = source[job[x].of]
      BY <1>1, <1>2, <1>5, <3>2, TextIs
    <3>4. h = CutOut(source[job[x].of], d)
      BY <1>1, <1>2, <1>3, <1>5, <3>2, <3>3, PlaceTaken DEF Knows
    <3>5. d \in Its(source, r.of) /\ Knows(source, r, d)
      BY <2>4, <3>2, Zenon DEF Knows, ItsPlace
    <3>6. [source EXCEPT ![job[x].of] = h] = CutClone(source, r, d)
      <4>1. source = [f \in CodeFiles |-> source[f]]
        BY <1>1 DEF Sources
      <4> DEFINE A(f) == CutOut(source[f], d)
      <4>2. CutClone(source, r, d) = [f \in CodeFiles |-> IF f = job[x].of THEN A(f) ELSE source[f]]
        BY <2>4 DEF CutClone
      <4>3. h = A(job[x].of)
        BY <3>4
      <4> HIDE DEF A
      <4> QED BY <1>5, <4>1, <4>2, <4>3
    <3>7. [clone[r.tx] EXCEPT ![job[x].of] = h] = CutClone(source, r, d)
      BY <2>4, <3>2, <3>6
    <3> QED BY <2>4, <3>5, <3>7, MoveIs
  <2> QED BY <1>5, <2>2, <2>3, <2>4, <2>5, <2>6, StepStaged
<1> QED BY <1>6, <1>7

LEMMA PasteSymbolStep == ASSUME RefactorHolds, NEW x \in Refactorings, PasteSymbol(x) PROVE RefactorHolds'
<1>1. /\ RefactorTyped /\ source \in Sources /\ job[x] \in Jobs /\ JobFits(job[x])
      /\ job[x].at # "idle" => job[x].of \in CodeFiles /\ job[x].to \in CodeFiles
  BY TypesAre DEF RefactorHolds
<1>2. PICK u : u = IF TextOf(x, job[x].to) = NoSource THEN <<>> ELSE TextOf(x, job[x].to)
  OBVIOUS
<1>3. PICK h : h = Glue(u, job[x].code)
  OBVIOUS
<1>4. PICK r : r = [job[x] EXCEPT !.at = "done"]
  OBVIOUS
<1>5. job[x].at = "paste" /\ Becomes(x, r) /\ Stages(x, job[x].to, h)
  BY <1>2, <1>3, <1>4, Zenon DEF PasteSymbol, JobAt, To, Glue
<1>6. job[x].kind = "move" /\ job[x].at # "idle" /\ job[x].of \in CodeFiles /\ job[x].to \in CodeFiles
  BY <1>1, <1>5 DEF JobFits
<1>7. u \in Text /\ h \in Text
  <2>1. u \in Text
    BY <1>1, <1>2, <1>6, TextIs, NoCodes
  <2>2. job[x].code \in Text
    BY <1>1 DEF Jobs
  <2> QED BY <1>3, <2>1, <2>2, GlueIs
<1>8. /\ r \in Jobs /\ r.at = "done" /\ r.code = job[x].code /\ r.kind = "move" /\ r.of = job[x].of /\ r.to = job[x].to
      /\ r.tx = job[x].tx /\ r.places = job[x].places
  BY <1>1, <1>4, <1>6 DEF Jobs, JobSteps
<1>9. JobFits(r)
  BY <1>1, <1>6, <1>8 DEF JobFits
<1>10. ASSUME x \notin strayed PROVE Follows(source, [clone[r.tx] EXCEPT ![job[x].to] = h], r)
  <2>1. Follows(source, clone[job[x].tx], job[x])
    BY <1>6, <1>10 DEF RefactorHolds
  <2>2. PICK d \in Its(source, job[x].of) : Knows(source, job[x], d) /\ clone[job[x].tx] = CutClone(source, job[x], d)
    BY <1>5, <1>6, <2>1, MoveIs
  <2>3. d \in Its(source, r.of) /\ Knows(source, r, d)
    BY <1>8, <2>2, Zenon DEF Knows, ItsPlace
  <2>4. u = Base(source, r, d)
    <3>1. CASE job[x].to = job[x].of
      <4>1. clone[job[x].tx][job[x].to] = CutOut(source[job[x].of], d)
        BY <1>6, <2>2, <3>1 DEF CutClone
      <4>2. CutOut(source[job[x].of], d) # NoSource
        <5>1. d \in Definitions(source[job[x].of])
          BY DEF Its
        <5>2. source[job[x].of] \in Text /\ IsSpan(d) /\ d.to <= Size(source[job[x].of])
          BY <1>1, <1>6, <5>1, PlaceTyped
        <5>3. CutOut(source[job[x].of], d) \in Text
          BY <5>2, CutOutTyped
        <5> QED BY <5>3, RefactorAssumption DEF Text
      <4>3. u = CutOut(source[job[x].of], d)
        BY <1>2, <4>1, <4>2, Zenon DEF TextOf
      <4> QED BY <1>8, <3>1, <4>3, Zenon DEF Base
    <3>2. CASE job[x].to # job[x].of
      <4>1. clone[job[x].tx][job[x].to] = source[job[x].to]
        BY <1>6, <2>2, <3>2 DEF CutClone
      <4>2. TextOf(x, job[x].to) = source[job[x].to]
        BY <1>1, <1>6, <4>1, TextIs
      <4>3. u = IF source[job[x].to] = NoSource THEN <<>> ELSE source[job[x].to]
        BY <1>2, <4>2, Zenon
      <4> QED BY <1>8, <3>2, <4>3, Zenon DEF Base
    <3> QED BY <3>1, <3>2
  <2>5. [clone[r.tx] EXCEPT ![job[x].to] = h] = PastedClone(source, r, d)
    <3>1. h = Glue(Base(source, r, d), r.code)
      BY <1>3, <1>8, <2>4
    <3> DEFINE A(f) == CutOut(source[f], d)
    <3>2. clone[r.tx] = [f \in CodeFiles |-> IF f = job[x].of THEN A(f) ELSE source[f]]
      BY <1>8, <2>2 DEF CutClone
    <3>3. PICK b : b = Glue(Base(source, r, d), r.code)
      OBVIOUS
    <3>4. PastedClone(source, r, d) = [f \in CodeFiles |-> IF f = job[x].to THEN b ELSE IF f = job[x].of THEN A(f) ELSE source[f]]
      BY <1>8, <3>3, Zenon DEF PastedClone
    <3> HIDE DEF A
    <3>5. h = b
      BY <3>1, <3>3
    <3> QED BY <1>6, <3>2, <3>4, <3>5
  <2> QED BY <1>8, <2>3, <2>5, MoveIs
<1> QED BY <1>5, <1>6, <1>7, <1>8, <1>9, <1>10, StepStaged

LEMMA ExtractStep == ASSUME RefactorHolds, NEW x \in Refactorings, NEW i \in 2..3, ExtractLines(x, i, 3) PROVE RefactorHolds'
<1>1. /\ RefactorTyped /\ source \in Sources /\ job[x] \in Jobs /\ JobFits(job[x])
      /\ job[x].at # "idle" => job[x].of \in CodeFiles
  BY TypesAre DEF RefactorHolds
<1>2. PICK t, n : t = TextOf(x, job[x].of) /\ n = job[x].new
  OBVIOUS
<1>3. PICK h : h = Glue(Glue(Glue(Glue(Glue(Glue(Glue(Cut(t, 1, i - 1), <<"def">>), n), <<";">>), Cut(t, i, 3)), <<"end">>), n), Cut(t, 3 + 1, Size(t)))
  OBVIOUS
<1>4. PICK r : r = [job[x] EXCEPT !.at = "done"]
  OBVIOUS
<1>5. job[x].at = "cut" /\ job[x].kind = "extract" /\ t # NoSource /\ 3 <= Size(t) /\ Becomes(x, r) /\ Stages(x, job[x].of, h)
  BY <1>2, <1>3, <1>4, Zenon DEF ExtractLines, JobAt, To, Glue, Cut, Size
<1>6. job[x].at # "idle" /\ job[x].of \in CodeFiles
  BY <1>1, <1>5
<1>7. h \in Text
  <2>1. t \in Text /\ n \in Text
    BY <1>1, <1>2, <1>5, <1>6, TextIs DEF Jobs
  <2>2. Cut(t, 1, i - 1) \in Text /\ Cut(t, i, 3) \in Text /\ Cut(t, 3 + 1, Size(t)) \in Text
    <3>1. PICK L \in Nat, a \in Nat, b \in Nat, k \in Nat, l \in Nat, m \in Nat : L = Size(t) /\ k = 1 /\ a = i - 1 /\ l = 3 /\ b = 3 + 1 /\ m = i
      <4>1. Size(t) \in Nat /\ i - 1 \in Nat /\ i \in Nat
        BY <2>1, TextSize
      <4> QED BY <4>1
    <3>2. k >= 1 /\ a <= L /\ k <= a + 1 /\ m >= 1 /\ l <= L /\ m <= l + 1 /\ b >= 1 /\ L <= L /\ b <= L + 1
      BY <1>5, <3>1
    <3>3. Cut(t, k, a) \in Text /\ Cut(t, m, l) \in Text /\ Cut(t, b, L) \in Text
      BY <2>1, <3>1, <3>2, CutIs
    <3> QED BY <3>1, <3>3
  <2>3. <<"def">> \in Text /\ <<";">> \in Text /\ <<"end">> \in Text
    <3>1. "def" \in Tokens /\ ";" \in Tokens /\ "end" \in Tokens
      BY DEF Tokens, Marks
    <3> QED BY <3>1, Single DEF Text
  <2>4. \A u, v \in Text : Glue(u, v) \in Text
    BY GlueIs
  <2> QED BY <1>3, <2>1, <2>2, <2>3, <2>4
<1>8. "done" \in JobSteps
  BY DEF JobSteps
<1>9. r \in Jobs /\ r.at = "done" /\ r.kind = "extract" /\ r.tx = job[x].tx /\ JobFits(r)
  BY <1>1, <1>4, <1>5, <1>6, <1>8, StepTo
<1>10. Follows(source, [clone[r.tx] EXCEPT ![job[x].of] = h], r)
  BY <1>9, EndFollows
<1> QED BY <1>5, <1>6, <1>7, <1>9, <1>10, StepStaged

LEMMA RefactorStep == RefactorHolds /\ [RefactorNext]_refactorVars => RefactorHolds'
<1> SUFFICES ASSUME RefactorHolds, [RefactorNext]_refactorVars PROVE RefactorHolds'
  OBVIOUS
<1>1. CASE UNCHANGED refactorVars
  BY <1>1 DEF refactorVars, RefactorHolds, RefactorTyped, RowsTyped
<1>2. CASE \/ \E f \in CodeFiles, t \in CodeTexts : Writes(f, t) \/ AgentEdits(f, t)
           \/ \E t \in TxIds : Commits(t) \/ RollsBack(t)
  BY <1>2, OthersStep
<1>3. CASE AgentBegins
  BY <1>3, AgentBeginsStep
<1>4. ASSUME NEW x \in Refactorings, NEW k \in RefactorKinds, NEW f \in CodeFiles, NEW g \in CodeFiles, NEW n \in NewNames,
             BeginRefactor(x, k, f, n, g)
      PROVE  RefactorHolds'
  BY <1>4, BeginStep
<1>5. ASSUME NEW x \in Refactorings, FindSymbol(x) PROVE RefactorHolds'
  BY <1>5, FindSymbolStep
<1>6. ASSUME NEW x \in Refactorings, SymbolRefused(x) \/ \E f \in CodeFiles : ApplyFails(x, f) PROVE RefactorHolds'
  <2>1. job[x].at # "idle" /\ To(x, "failed") /\ Looks /\ strayed' = strayed /\ (Reindexes \/ index' = index)
    BY <1>6, Zenon DEF SymbolRefused, ApplyFails, JobAt, Unwritten
  <2> QED BY <2>1, FailsStep
<1>7. ASSUME NEW x \in Refactorings, PlacesFound(x) PROVE RefactorHolds'
  BY <1>7, PlacesFoundStep
<1>8. ASSUME NEW x \in Refactorings, StartBuild(x) \/ BuildPasses(x) \/ BuildFails(x) PROVE RefactorHolds'
  BY <1>8, BuildStep
<1>9. ASSUME NEW x \in Refactorings, NEW c \in job[x].callers, FindCaller(x, c) PROVE RefactorHolds'
  BY <1>9, FindCallerStep
<1>10. ASSUME NEW x \in Refactorings, NEW f \in CodeFiles, ApplyFile(x, f) PROVE RefactorHolds'
  BY <1>10, ApplyFileStep
<1>11. ASSUME NEW x \in Refactorings, ReadSymbol(x) PROVE RefactorHolds'
  BY <1>11, ReadSymbolStep
<1>12. ASSUME NEW x \in Refactorings, CutSymbol(x) PROVE RefactorHolds'
  BY <1>12, CutSymbolStep
<1>13. ASSUME NEW x \in Refactorings, PasteSymbol(x) PROVE RefactorHolds'
  BY <1>13, PasteSymbolStep
<1>14. ASSUME NEW x \in Refactorings, NEW i \in 2..3, ExtractLines(x, i, 3) PROVE RefactorHolds'
  BY <1>14, ExtractStep
<1> QED BY <1>1, <1>2, <1>3, <1>4, <1>5, <1>6, <1>7, <1>8, <1>9, <1>10, <1>11, <1>12, <1>13, <1>14 DEF RefactorNext

\* What is reached in a file when no caller is left is what the rename is about.
LEMMA ReachedInFile ==
  ASSUME NEW src \in Sources, NEW o \in CodeFiles, NEW f \in CodeFiles, \A c \in CallersOf(src, o) : Findable(c[2])
  PROVE  PlacesIn(Reached(src, o, {}), f) = PlacesAt(src, o, f)
<1>1. ASSUME NEW d \in Definitions(src[f]) PROVE <<f, d.id>> \in CallersOf(src, o) <=> d \in CallersAt(src, o, f)
  <2>1. <<f, d.id>> \in CallersOf(src, o) <=> \E g \in CodeFiles : \E e \in CallersAt(src, o, g) : <<f, d.id>> = <<g, e.id>>
    BY DEF CallersOf
  <2>2. src[f] \in TokenTexts /\ \A e \in CallersAt(src, o, f) : e \in Definitions(src[f])
    BY DEF Sources, CallersAt
  <2>3. \A e \in CallersAt(src, o, f) : e.id = d.id => e = d
    BY <2>2, IdsAreUnique
  <2> QED BY <2>1, <2>3
<1>2. ASSUME NEW d \in Definitions(src[f]), d \in CallersAt(src, o, f) PROVE Findable(d.id)
  <2>1. <<f, d.id>> \in CallersOf(src, o)
    BY <1>1, <1>2
  <2> QED BY <2>1
<1>3. ASSUME NEW p PROVE p \in PlacesIn(Reached(src, o, {}), f) <=> p \in PlacesAt(src, o, f)
  <2>1. p \in PlacesIn(Reached(src, o, {}), f) <=> p \in Reached(src, o, {}) /\ p.file = f
    BY DEF PlacesIn
  <2>2. p \in Reached(src, o, {}) <=> \/ \E d \in Its(src, o) : p = Place(o, d)
                                      \/ \E g \in CodeFiles : \E d \in Definitions(src[g]) :
                                           p = Place(g, d) /\ Findable(d.id) /\ <<g, d.id>> \in CallersOf(src, o)
    <3>1. PICK none : none = {}
      OBVIOUS
    <3>2. p \in Reached(src, o, none) <=> IsReached(src, o, none, p)
      BY ReachedIs
    <3>3. \A q : q \notin none
      BY <3>1
    <3> QED BY <3>1, <3>2, <3>3, Zenon DEF IsReached
  <2>3. p \in PlacesAt(src, o, f) <=> \E d \in Definitions(src[f]) : p = Place(f, d) /\ (d \in CallersAt(src, o, f) \/ (f = o /\ d.id = Old))
    BY DEF PlacesAt, Meant
  <2>4. \A g, d : Place(g, d).file = g
    BY DEF Place
  <2>5. \A d : d \in Its(src, o) <=> d \in Definitions(src[o]) /\ d.id = Old
    BY DEF Its
  <2>6. p \in PlacesAt(src, o, f) => p.file = f
    BY <2>3, <2>4
  <2>7. ASSUME p.file = f PROVE p \in Reached(src, o, {}) <=> p \in PlacesAt(src, o, f)
    <3>1. (\E d \in Its(src, o) : p = Place(o, d)) <=> f = o /\ \E d \in Definitions(src[f]) : p = Place(f, d) /\ d.id = Old
      BY <2>4, <2>5, <2>7
    <3>2. (\E g \in CodeFiles : \E d \in Definitions(src[g]) : p = Place(g, d) /\ Findable(d.id) /\ <<g, d.id>> \in CallersOf(src, o))
            <=> \E d \in Definitions(src[f]) : p = Place(f, d) /\ d \in CallersAt(src, o, f)
      BY <1>1, <1>2, <2>4, <2>7
    <3> QED BY <2>2, <2>3, <3>1, <3>2
  <2> QED BY <2>1, <2>6, <2>7
<1> QED BY <1>3

LEMMA RenamesAreWhole == RefactorHolds => RenameWhole
<1> SUFFICES ASSUME RefactorHolds, NEW x \in Refactorings, x \notin strayed, job[x].at = "build", AllFindable(x),
                    Apart(x) \/ Len(job[x].new) = 1, NEW f \in CodeFiles
             PROVE  clone[job[x].tx][f] = Renamed(x, f)
  BY DEF RenameWhole, JobAt
<1>1. source \in Sources /\ job[x].of \in CodeFiles /\ job[x].new \in Text
  <2>1. RefactorTyped
    BY DEF RefactorHolds
  <2> QED BY <2>1, TypesAre DEF Jobs
<1>2. RenameFollows(source, clone[job[x].tx], job[x])
  BY DEF RefactorHolds, Follows
<1>3. /\ job[x].callers = {} /\ job[x].places = Reached(source, job[x].of, job[x].callers) /\ job[x].left = {}
      /\ clone[job[x].tx] = [g \in CodeFiles |-> IF g \in FilesOf(job[x].places) \ job[x].left
                                                THEN Applied(source[g], PlacesIn(job[x].places, g), job[x].new) ELSE source[g]]
  BY <1>2 DEF RenameFollows
<1>4. PICK ps : ps = PlacesAt(source, job[x].of, f)
  OBVIOUS
<1>5. PlacesIn(job[x].places, f) = ps
  BY <1>1, <1>3, <1>4, ReachedInFile DEF AllFindable
<1>6. f \in FilesOf(job[x].places) <=> ps # {}
  BY <1>5 DEF FilesOf, PlacesIn
<1>7. clone[job[x].tx][f] = IF ps = {} THEN source[f] ELSE Applied(source[f], ps, job[x].new)
  BY <1>3, <1>5, <1>6
<1>8. Len(job[x].new) = 1 \/ \A p, q \in ps : p = q \/ p.to < q.from \/ q.to < p.from
  <2>1. \A p \in ps : p \in job[x].places /\ p.file = f
    BY <1>5 DEF PlacesIn
  <2> QED BY <2>1 DEF Apart
<1> QED BY <1>1, <1>4, <1>7, <1>8, AppliedIsRenamed

LEMMA MovesKeepSymbols == RefactorHolds => MoveKeepsSymbols
<1> SUFFICES ASSUME RefactorHolds, NEW x \in Refactorings, x \notin strayed, job[x].at = "done", job[x].kind = "move", Outermost(x)
             PROVE  Codes(clone[job[x].tx]) = Codes(source)
  BY DEF MoveKeepsSymbols, JobAt
<1>1. source \in Sources /\ job[x].of \in CodeFiles /\ job[x].to \in CodeFiles
  <2>1. RefactorTyped
    BY DEF RefactorHolds
  <2> QED BY <2>1, TypesAre
<1>2. PICK d \in Its(source, job[x].of) : Knows(source, job[x], d) /\ clone[job[x].tx] = PastedClone(source, job[x], d)
  <2>1. Follows(source, clone[job[x].tx], job[x])
    BY DEF RefactorHolds
  <2> QED BY <2>1, MoveIs
<1>3. d \in Definitions(source[job[x].of])
  BY DEF Its
<1>4. source[job[x].of] \in Text /\ IsSpan(d) /\ d.to <= Size(source[job[x].of])
  BY <1>1, <1>3, PlaceTyped
<1>5. ASSUME NEW e \in Definitions(source[job[x].of]) PROVE ~(e.from < d.from /\ d.to <= e.to)
  <2>1. Place(job[x].of, d) \in job[x].places
    BY <1>2 DEF Knows, ItsPlace
  <2>2. Place(job[x].of, d).file = job[x].of /\ Place(job[x].of, d).from = d.from /\ Place(job[x].of, d).to = d.to
    BY DEF Place
  <2> QED BY <2>1, <2>2 DEF Outermost
<1>6. PICK o, g, c, h, t :
        /\ o \in CodeFiles /\ g \in CodeFiles /\ o = job[x].of /\ g = job[x].to /\ c = CodeAt(source[o], d) /\ h = CutOut(source[o], d) /\ t = Base(source, job[x], d)
  BY <1>1
<1>7. t = (IF g = o THEN h ELSE IF source[g] = NoSource THEN <<>> ELSE source[g]) /\ job[x].code = c
  BY <1>2, <1>6, Zenon DEF Base, Knows
<1>8. t \in Text
  <2>1. h \in Text
    BY <1>4, <1>6, CutOutTyped
  <2>2. source[g] = NoSource \/ source[g] \in Text
    BY <1>1, <1>6 DEF Sources, TokenTexts, Text
  <2> QED BY <1>7, <2>1, <2>2, NoCodes
<1>9. ASSUME NEW f \in CodeFiles PROVE clone[job[x].tx][f] = IF f = g THEN Glue(t, c) ELSE IF f = o THEN h ELSE source[f]
  <2>1. clone[job[x].tx][f] = IF f = job[x].to THEN Glue(Base(source, job[x], d), job[x].code) ELSE IF f = job[x].of THEN CutOut(source[f], d) ELSE source[f]
    BY <1>2 DEF PastedClone
  <2> QED BY <1>6, <1>7, <2>1, Zenon
<1>10. PICK cl : cl = clone[job[x].tx]
  OBVIOUS
<1>11. \A e \in Definitions(source[o]) : ~(e.from < d.from /\ d.to <= e.to)
  BY <1>5, <1>6
<1>12. d \in Definitions(source[o])
  BY <1>3, <1>6
<1>13. \A f \in CodeFiles : cl[f] = IF f = g THEN Glue(t, c) ELSE IF f = o THEN h ELSE source[f]
  BY <1>9, <1>10
<1>14. Codes(cl) = Codes(source)
  BY <1>1, <1>6, <1>7, <1>8, <1>11, <1>12, <1>13, MovedCodes
<1> QED BY <1>10, <1>14

LEMMA RefactorsKeep == RefactorHolds => RefactorKeeps
<1> SUFFICES ASSUME RefactorHolds PROVE RefactorKeeps
  OBVIOUS
<1>1. RefactorTyped
  BY DEF RefactorHolds
<1>2. RefactorTypeOK
  <2>1. named \in 0..MaxClones /\ agent \in 0..MaxClones /\ clones \in 0..MaxClones
    <3>1. MaxClones \in Nat
      BY RefactorAssumption
    <3> QED BY <1>1, <3>1 DEF RefactorTyped
  <2>2. ASSUME NEW x \in Refactorings PROVE job[x].at \in JobSteps /\ job[x].kind \in RefactorKinds \cup {"rename"} /\ job[x].tx \in 0..clones
    <3>1. job[x] \in Jobs /\ job[x].tx \in Nat /\ job[x].tx <= clones /\ clones \in Nat
      BY <1>1, TypesAre
    <3> QED BY <3>1 DEF Jobs
  <2> QED BY <2>1, <2>2 DEF RefactorTypeOK
<1> QED BY <1>2, RenamesAreWhole, MovesKeepSymbols DEF RefactorKeeps

\* Whatever others do in between, and however far the index is behind, a rename that nobody
\* crosses and no row misleads is whole before it is built, and such a move loses no symbol and
\* brings none into being (refactor.rs).
THEOREM RefactorSafe == RefactorSpec => []RefactorKeeps
<1>1. RefactorInit => RefactorHolds
  BY RefactorStarts
<1>2. RefactorHolds /\ [RefactorNext]_refactorVars => RefactorHolds'
  BY RefactorStep
<1>3. RefactorHolds => RefactorKeeps
  BY RefactorsKeep
<1> QED BY <1>1, <1>2, <1>3, PTL DEF RefactorSpec

-----------------------------------------------------------------------------
(* Sessions                                                                *)

USE ContextsAssumption

\* Every context has a process to itself.
Alone == \A c, d \in Contexts : PidOf[c] = PidOf[d] => c = d

-----------------------------------------------------------------------------
(* The inductive invariant.                                                *)

Busy(c) == stands[c] \notin {"down", "up"}

\* One call at a time, made by a live process.
Turns ==
  /\ \A c, d \in Contexts : Busy(c) /\ Busy(d) => c = d
  /\ \A c \in Contexts : stands[c] # "down" => PidOf[c] \in alive

\* The lock names the writer, and nobody takes it while there is one.
Locked ==
  \A c \in Contexts :
    /\ Writer(c) => lock = PidOf[c]
    /\ stands[c] = "stale" => lock \notin alive
    /\ stands[c] \in {"write", "writing"} => \A d \in Contexts : ~Writer(d)
    /\ stands[c] = "unlock" => ~read_only[c]
    /\ stands[c] # "orphaned"

\* Only a writer without a transaction is on its way to begin one.
Begins(c) == stands[c] = "clone" \/ (stands[c] \in {"check", "read", "stale"} /\ goal[c] = "begin")
Asked == \A c \in Contexts : Begins(c) => ~read_only[c] /\ tx[c] = NoTx

\* HEAD is the transaction of the writer.
HeadLeads ==
  /\ head \in dirs \cup {NoTx}
  /\ Reloadable
  /\ \A c \in Contexts : Writer(c) /\ stands[c] \notin {"load", "unlock"} => tx[c] = head

\* What holds while calls do not overlap, ...
Sequential == SessionsTypeOK /\ ~given.racing /\ Turns /\ Locked
\* ... and while, besides, only the writer touches its transaction.
Orderly == Sequential /\ given.polite /\ Asked /\ HeadLeads

IInv ==
  /\ SessionsTypeOK
  /\ ~given.racing => Sequential
  /\ (~given.racing /\ given.polite) => Orderly

LEMMA TypeInit == SessionsInit => SessionsTypeOK
  BY DEF SessionsInit, SessionsTypeOK, SessionPlaces

LEMMA TypeStep == ASSUME SessionsTypeOK, [SessionsNext]_sessionsVars PROVE SessionsTypeOK'
<1>1. ASSUME NEW c \in Contexts, OpenContext(c) PROVE SessionsTypeOK'
  BY <1>1 DEF OpenContext, MoveTo, Free, store, SessionsTypeOK, SessionPlaces
<1>2. ASSUME NEW c \in Contexts, Check(c) PROVE SessionsTypeOK'
  BY <1>2 DEF Check, Unlocked, MoveTo, store, SessionsTypeOK, SessionPlaces
<1>3. ASSUME NEW c \in Contexts, Read(c) PROVE SessionsTypeOK'
  BY <1>3 DEF Read, Unlocked, MoveTo, store, SessionsTypeOK, SessionPlaces
<1>4. ASSUME NEW c \in Contexts, RemoveStale(c) PROVE SessionsTypeOK'
  BY <1>4 DEF RemoveStale, Unlink, store, SessionsTypeOK, SessionPlaces
<1>5. ASSUME NEW c \in Contexts, Truncate(c) PROVE SessionsTypeOK'
  BY <1>5 DEF Truncate, MoveTo, store, SessionsTypeOK, SessionPlaces
<1>6. ASSUME NEW c \in Contexts, WritePid(c) PROVE SessionsTypeOK'
  BY <1>6 DEF WritePid, MoveTo, store, SessionsTypeOK, SessionPlaces
<1>7. ASSUME NEW c \in Contexts, LoadHead(c) PROVE SessionsTypeOK'
  BY <1>7 DEF LoadHead, MoveTo, store, SessionsTypeOK, SessionPlaces
<1>8. ASSUME NEW c \in Contexts, Drop(c) PROVE SessionsTypeOK'
  BY <1>8 DEF Drop, MoveTo, Gone, Ready, Free, store, SessionsTypeOK, SessionPlaces
<1>9. ASSUME NEW c \in Contexts, RemoveLock(c) PROVE SessionsTypeOK'
  BY <1>9 DEF RemoveLock, Unlink, Gone, store, SessionsTypeOK, SessionPlaces
<1>10. ASSUME NEW c \in Contexts, Begin(c) PROVE SessionsTypeOK'
  BY <1>10 DEF Begin, MoveTo, MayUseWorkspace, Ready, Free, store, SessionsTypeOK, SessionPlaces
<1>11. ASSUME NEW c \in Contexts, Clone(c) PROVE SessionsTypeOK'
  BY <1>11 DEF Clone, MoveTo, store, SessionsTypeOK, SessionPlaces
<1>12. ASSUME NEW c \in Contexts, Edit(c) PROVE SessionsTypeOK'
  BY <1>12 DEF Edit, Ready, Free, store, SessionsTypeOK, SessionPlaces
<1>13. ASSUME NEW c \in Contexts, Diff(c) PROVE SessionsTypeOK'
  BY <1>13 DEF Diff, MayUseWorkspace, Ready, Free, store, SessionsTypeOK, SessionPlaces
<1>14. ASSUME NEW c \in Contexts, End(c) PROVE SessionsTypeOK'
  BY <1>14 DEF End, MayUseWorkspace, Ready, Free, store, SessionsTypeOK, SessionPlaces
<1>15. ASSUME NEW p \in Pids, ProcessDies(p) PROVE SessionsTypeOK'
  BY <1>15 DEF ProcessDies, SessionsTypeOK, SessionPlaces
<1>16. ASSUME Exit PROVE SessionsTypeOK'
  BY <1>16 DEF Exit, SessionsTypeOK, SessionPlaces
<1>17. ASSUME UNCHANGED sessionsVars PROVE SessionsTypeOK'
  BY <1>17 DEF sessionsVars, store, SessionsTypeOK, SessionPlaces
<1>18. QED
  BY <1>1, <1>2, <1>3, <1>4, <1>5, <1>6, <1>7, <1>8, <1>9, <1>10, <1>11, <1>12, <1>13, <1>14, <1>15, <1>16, <1>17 DEF SessionsNext, Opening

LEMMA TurnsStep == ASSUME Alone, Sequential, [SessionsNext]_sessionsVars PROVE Turns'
<1>1. ASSUME NEW c \in Contexts, OpenContext(c) PROVE Turns'
  BY <1>1 DEF OpenContext, MoveTo, Free, store, Sequential, SessionsTypeOK, SessionPlaces, Turns, Busy, Locked, Alone
<1>2. ASSUME NEW c \in Contexts, Check(c) PROVE Turns'
  BY <1>2 DEF Check, Unlocked, MoveTo, store, Sequential, SessionsTypeOK, SessionPlaces, Turns, Busy, Locked, Alone
<1>3. ASSUME NEW c \in Contexts, Read(c) PROVE Turns'
  BY <1>3 DEF Read, Unlocked, MoveTo, store, Sequential, SessionsTypeOK, SessionPlaces, Turns, Busy, Locked, Alone
<1>4. ASSUME NEW c \in Contexts, RemoveStale(c) PROVE Turns'
  BY <1>4 DEF RemoveStale, Unlink, store, Sequential, SessionsTypeOK, SessionPlaces, Turns, Busy, Locked, Alone
<1>5. ASSUME NEW c \in Contexts, Truncate(c) PROVE Turns'
  BY <1>5 DEF Truncate, MoveTo, store, Sequential, SessionsTypeOK, SessionPlaces, Turns, Busy, Locked, Alone
<1>6. ASSUME NEW c \in Contexts, WritePid(c) PROVE Turns'
  BY <1>6 DEF WritePid, MoveTo, store, Sequential, SessionsTypeOK, SessionPlaces, Turns, Busy, Locked, Alone
<1>7. ASSUME NEW c \in Contexts, LoadHead(c) PROVE Turns'
  BY <1>7 DEF LoadHead, MoveTo, store, Sequential, SessionsTypeOK, SessionPlaces, Turns, Busy, Locked, Alone
<1>8. ASSUME NEW c \in Contexts, Drop(c) PROVE Turns'
  BY <1>8 DEF Drop, MoveTo, Gone, Ready, Free, store, Sequential, SessionsTypeOK, SessionPlaces, Turns, Busy, Locked, Alone
<1>9. ASSUME NEW c \in Contexts, RemoveLock(c) PROVE Turns'
  BY <1>9 DEF RemoveLock, Unlink, Gone, store, Sequential, SessionsTypeOK, SessionPlaces, Turns, Busy, Locked, Alone
<1>10. ASSUME NEW c \in Contexts, Begin(c) PROVE Turns'
  BY <1>10 DEF Begin, MoveTo, MayUseWorkspace, Ready, Free, store, Sequential, SessionsTypeOK, SessionPlaces, Turns, Busy, Locked, Alone
<1>11. ASSUME NEW c \in Contexts, Clone(c) PROVE Turns'
  BY <1>11 DEF Clone, MoveTo, store, Sequential, SessionsTypeOK, SessionPlaces, Turns, Busy, Locked, Alone
<1>12. ASSUME NEW c \in Contexts, Edit(c) PROVE Turns'
  BY <1>12 DEF Edit, Ready, Free, store, Sequential, SessionsTypeOK, SessionPlaces, Turns, Busy, Locked, Alone
<1>13. ASSUME NEW c \in Contexts, Diff(c) PROVE Turns'
  BY <1>13 DEF Diff, MayUseWorkspace, Ready, Free, store, Sequential, SessionsTypeOK, SessionPlaces, Turns, Busy, Locked, Alone
<1>14. ASSUME NEW c \in Contexts, End(c) PROVE Turns'
  BY <1>14 DEF End, MayUseWorkspace, Ready, Free, store, Sequential, SessionsTypeOK, SessionPlaces, Turns, Busy, Locked, Alone
<1>15. ASSUME NEW p \in Pids, ProcessDies(p) PROVE Turns'
  BY <1>15 DEF ProcessDies, Sequential, SessionsTypeOK, SessionPlaces, Turns, Busy, Locked, Alone
<1>16. ASSUME Exit PROVE Turns'
  BY <1>16 DEF Exit, Sequential, SessionsTypeOK, SessionPlaces, Turns, Busy, Locked, Alone
<1>17. ASSUME UNCHANGED sessionsVars PROVE Turns'
  BY <1>17 DEF sessionsVars, store, Sequential, SessionsTypeOK, SessionPlaces, Turns, Busy, Locked, Alone
<1>18. QED
  BY <1>1, <1>2, <1>3, <1>4, <1>5, <1>6, <1>7, <1>8, <1>9, <1>10, <1>11, <1>12, <1>13, <1>14, <1>15, <1>16, <1>17 DEF SessionsNext, Opening

LEMMA LockedStep == ASSUME Alone, Sequential, [SessionsNext]_sessionsVars PROVE Locked'
<1>1. ASSUME NEW c \in Contexts, OpenContext(c) PROVE Locked'
  BY <1>1 DEF OpenContext, MoveTo, Free, store, Sequential, SessionsTypeOK, SessionPlaces, Turns, Busy, Locked, Writer, Alone
<1>2. ASSUME NEW c \in Contexts, Check(c) PROVE Locked'
  BY <1>2 DEF Check, Unlocked, MoveTo, store, Sequential, SessionsTypeOK, SessionPlaces, Turns, Busy, Locked, Writer, Alone
<1>3. ASSUME NEW c \in Contexts, Read(c) PROVE Locked'
  BY <1>3 DEF Read, Unlocked, MoveTo, store, Sequential, SessionsTypeOK, SessionPlaces, Turns, Busy, Locked, Writer, Alone
<1>4. ASSUME NEW c \in Contexts, RemoveStale(c) PROVE Locked'
  BY <1>4 DEF RemoveStale, Unlink, store, Sequential, SessionsTypeOK, SessionPlaces, Turns, Busy, Locked, Writer, Alone
<1>5. ASSUME NEW c \in Contexts, Truncate(c) PROVE Locked'
  BY <1>5 DEF Truncate, MoveTo, store, Sequential, SessionsTypeOK, SessionPlaces, Turns, Busy, Locked, Writer, Alone
<1>6. ASSUME NEW c \in Contexts, WritePid(c) PROVE Locked'
  BY <1>6 DEF WritePid, MoveTo, store, Sequential, SessionsTypeOK, SessionPlaces, Turns, Busy, Locked, Writer, Alone
<1>7. ASSUME NEW c \in Contexts, LoadHead(c) PROVE Locked'
  BY <1>7 DEF LoadHead, MoveTo, store, Sequential, SessionsTypeOK, SessionPlaces, Turns, Busy, Locked, Writer, Alone
<1>8. ASSUME NEW c \in Contexts, Drop(c) PROVE Locked'
  BY <1>8 DEF Drop, MoveTo, Gone, Ready, Free, store, Sequential, SessionsTypeOK, SessionPlaces, Turns, Busy, Locked, Writer, Alone
<1>9. ASSUME NEW c \in Contexts, RemoveLock(c) PROVE Locked'
  BY <1>9 DEF RemoveLock, Unlink, Gone, store, Sequential, SessionsTypeOK, SessionPlaces, Turns, Busy, Locked, Writer, Alone
<1>10. ASSUME NEW c \in Contexts, Begin(c) PROVE Locked'
  BY <1>10 DEF Begin, MoveTo, MayUseWorkspace, Ready, Free, store, Sequential, SessionsTypeOK, SessionPlaces, Turns, Busy, Locked, Writer, Alone
<1>11. ASSUME NEW c \in Contexts, Clone(c) PROVE Locked'
  BY <1>11 DEF Clone, MoveTo, store, Sequential, SessionsTypeOK, SessionPlaces, Turns, Busy, Locked, Writer, Alone
<1>12. ASSUME NEW c \in Contexts, Edit(c) PROVE Locked'
  BY <1>12 DEF Edit, Ready, Free, store, Sequential, SessionsTypeOK, SessionPlaces, Turns, Busy, Locked, Writer, Alone
<1>13. ASSUME NEW c \in Contexts, Diff(c) PROVE Locked'
  BY <1>13 DEF Diff, MayUseWorkspace, Ready, Free, store, Sequential, SessionsTypeOK, SessionPlaces, Turns, Busy, Locked, Writer, Alone
<1>14. ASSUME NEW c \in Contexts, End(c) PROVE Locked'
  BY <1>14 DEF End, MayUseWorkspace, Ready, Free, store, Sequential, SessionsTypeOK, SessionPlaces, Turns, Busy, Locked, Writer, Alone
<1>15. ASSUME NEW p \in Pids, ProcessDies(p) PROVE Locked'
  BY <1>15 DEF ProcessDies, Sequential, SessionsTypeOK, SessionPlaces, Turns, Busy, Locked, Writer, Alone
<1>16. ASSUME Exit PROVE Locked'
  BY <1>16 DEF Exit, Sequential, SessionsTypeOK, SessionPlaces, Turns, Busy, Locked, Writer, Alone
<1>17. ASSUME UNCHANGED sessionsVars PROVE Locked'
  BY <1>17 DEF sessionsVars, store, Sequential, SessionsTypeOK, SessionPlaces, Turns, Busy, Locked, Writer, Alone
<1>18. QED
  BY <1>1, <1>2, <1>3, <1>4, <1>5, <1>6, <1>7, <1>8, <1>9, <1>10, <1>11, <1>12, <1>13, <1>14, <1>15, <1>16, <1>17 DEF SessionsNext, Opening

LEMMA AskedStep == ASSUME Alone, Orderly, [SessionsNext]_sessionsVars PROVE Asked'
<1>1. ASSUME NEW c \in Contexts, OpenContext(c) PROVE Asked'
  BY <1>1 DEF OpenContext, MoveTo, Free, store, Orderly, Sequential, SessionsTypeOK, SessionPlaces, Turns, Busy, Locked, Writer, Asked, Begins, Alone
<1>2. ASSUME NEW c \in Contexts, Check(c) PROVE Asked'
  BY <1>2 DEF Check, Unlocked, MoveTo, store, Orderly, Sequential, SessionsTypeOK, SessionPlaces, Turns, Busy, Locked, Writer, Asked, Begins, Alone
<1>3. ASSUME NEW c \in Contexts, Read(c) PROVE Asked'
  BY <1>3 DEF Read, Unlocked, MoveTo, store, Orderly, Sequential, SessionsTypeOK, SessionPlaces, Turns, Busy, Locked, Writer, Asked, Begins, Alone
<1>4. ASSUME NEW c \in Contexts, RemoveStale(c) PROVE Asked'
  BY <1>4 DEF RemoveStale, Unlink, store, Orderly, Sequential, SessionsTypeOK, SessionPlaces, Turns, Busy, Locked, Writer, Asked, Begins, Alone
<1>5. ASSUME NEW c \in Contexts, Truncate(c) PROVE Asked'
  BY <1>5 DEF Truncate, MoveTo, store, Orderly, Sequential, SessionsTypeOK, SessionPlaces, Turns, Busy, Locked, Writer, Asked, Begins, Alone
<1>6. ASSUME NEW c \in Contexts, WritePid(c) PROVE Asked'
  BY <1>6 DEF WritePid, MoveTo, store, Orderly, Sequential, SessionsTypeOK, SessionPlaces, Turns, Busy, Locked, Writer, Asked, Begins, Alone
<1>7. ASSUME NEW c \in Contexts, LoadHead(c) PROVE Asked'
  BY <1>7 DEF LoadHead, MoveTo, store, Orderly, Sequential, SessionsTypeOK, SessionPlaces, Turns, Busy, Locked, Writer, Asked, Begins, Alone
<1>8. ASSUME NEW c \in Contexts, Drop(c) PROVE Asked'
  BY <1>8 DEF Drop, MoveTo, Gone, Ready, Free, store, Orderly, Sequential, SessionsTypeOK, SessionPlaces, Turns, Busy, Locked, Writer, Asked, Begins, Alone
<1>9. ASSUME NEW c \in Contexts, RemoveLock(c) PROVE Asked'
  BY <1>9 DEF RemoveLock, Unlink, Gone, store, Orderly, Sequential, SessionsTypeOK, SessionPlaces, Turns, Busy, Locked, Writer, Asked, Begins, Alone
<1>10. ASSUME NEW c \in Contexts, Begin(c) PROVE Asked'
  BY <1>10 DEF Begin, MoveTo, MayUseWorkspace, Ready, Free, store, Orderly, Sequential, SessionsTypeOK, SessionPlaces, Turns, Busy, Locked, Writer, Asked, Begins, Alone
<1>11. ASSUME NEW c \in Contexts, Clone(c) PROVE Asked'
  BY <1>11 DEF Clone, MoveTo, store, Orderly, Sequential, SessionsTypeOK, SessionPlaces, Turns, Busy, Locked, Writer, Asked, Begins, Alone
<1>12. ASSUME NEW c \in Contexts, Edit(c) PROVE Asked'
  BY <1>12 DEF Edit, Ready, Free, store, Orderly, Sequential, SessionsTypeOK, SessionPlaces, Turns, Busy, Locked, Writer, Asked, Begins, Alone
<1>13. ASSUME NEW c \in Contexts, Diff(c) PROVE Asked'
  BY <1>13 DEF Diff, MayUseWorkspace, Ready, Free, store, Orderly, Sequential, SessionsTypeOK, SessionPlaces, Turns, Busy, Locked, Writer, Asked, Begins, Alone
<1>14. ASSUME NEW c \in Contexts, End(c) PROVE Asked'
  BY <1>14 DEF End, MayUseWorkspace, Ready, Free, store, Orderly, Sequential, SessionsTypeOK, SessionPlaces, Turns, Busy, Locked, Writer, Asked, Begins, Alone
<1>15. ASSUME NEW p \in Pids, ProcessDies(p) PROVE Asked'
  BY <1>15 DEF ProcessDies, Orderly, Sequential, SessionsTypeOK, SessionPlaces, Turns, Busy, Locked, Writer, Asked, Begins, Alone
<1>16. ASSUME Exit PROVE Asked'
  BY <1>16 DEF Exit, Orderly, Sequential, SessionsTypeOK, SessionPlaces, Turns, Busy, Locked, Writer, Asked, Begins, Alone
<1>17. ASSUME UNCHANGED sessionsVars PROVE Asked'
  BY <1>17 DEF sessionsVars, store, Orderly, Sequential, SessionsTypeOK, SessionPlaces, Turns, Busy, Locked, Writer, Asked, Begins, Alone
<1>18. QED
  BY <1>1, <1>2, <1>3, <1>4, <1>5, <1>6, <1>7, <1>8, <1>9, <1>10, <1>11, <1>12, <1>13, <1>14, <1>15, <1>16, <1>17 DEF SessionsNext, Opening

LEMMA HeadLeadsStep == ASSUME Alone, Orderly, [SessionsNext]_sessionsVars PROVE HeadLeads'
<1>1. ASSUME NEW c \in Contexts, OpenContext(c) PROVE HeadLeads'
  BY <1>1 DEF OpenContext, MoveTo, Free, store, Orderly, Sequential, SessionsTypeOK, SessionPlaces, Turns, Busy, Locked, Writer, Asked, Begins, HeadLeads, Reloadable, Alone
<1>2. ASSUME NEW c \in Contexts, Check(c) PROVE HeadLeads'
  BY <1>2 DEF Check, Unlocked, MoveTo, store, Orderly, Sequential, SessionsTypeOK, SessionPlaces, Turns, Busy, Locked, Writer, Asked, Begins, HeadLeads, Reloadable, Alone
<1>3. ASSUME NEW c \in Contexts, Read(c) PROVE HeadLeads'
  BY <1>3 DEF Read, Unlocked, MoveTo, store, Orderly, Sequential, SessionsTypeOK, SessionPlaces, Turns, Busy, Locked, Writer, Asked, Begins, HeadLeads, Reloadable, Alone
<1>4. ASSUME NEW c \in Contexts, RemoveStale(c) PROVE HeadLeads'
  BY <1>4 DEF RemoveStale, Unlink, store, Orderly, Sequential, SessionsTypeOK, SessionPlaces, Turns, Busy, Locked, Writer, Asked, Begins, HeadLeads, Reloadable, Alone
<1>5. ASSUME NEW c \in Contexts, Truncate(c) PROVE HeadLeads'
  BY <1>5 DEF Truncate, MoveTo, store, Orderly, Sequential, SessionsTypeOK, SessionPlaces, Turns, Busy, Locked, Writer, Asked, Begins, HeadLeads, Reloadable, Alone
<1>6. ASSUME NEW c \in Contexts, WritePid(c) PROVE HeadLeads'
  BY <1>6 DEF WritePid, MoveTo, store, Orderly, Sequential, SessionsTypeOK, SessionPlaces, Turns, Busy, Locked, Writer, Asked, Begins, HeadLeads, Reloadable, Alone
<1>7. ASSUME NEW c \in Contexts, LoadHead(c) PROVE HeadLeads'
  BY <1>7 DEF LoadHead, MoveTo, store, Orderly, Sequential, SessionsTypeOK, SessionPlaces, Turns, Busy, Locked, Writer, Asked, Begins, HeadLeads, Reloadable, Alone
<1>8. ASSUME NEW c \in Contexts, Drop(c) PROVE HeadLeads'
  BY <1>8 DEF Drop, MoveTo, Gone, Ready, Free, store, Orderly, Sequential, SessionsTypeOK, SessionPlaces, Turns, Busy, Locked, Writer, Asked, Begins, HeadLeads, Reloadable, Alone
<1>9. ASSUME NEW c \in Contexts, RemoveLock(c) PROVE HeadLeads'
  BY <1>9 DEF RemoveLock, Unlink, Gone, store, Orderly, Sequential, SessionsTypeOK, SessionPlaces, Turns, Busy, Locked, Writer, Asked, Begins, HeadLeads, Reloadable, Alone
<1>10. ASSUME NEW c \in Contexts, Begin(c) PROVE HeadLeads'
  BY <1>10 DEF Begin, MoveTo, MayUseWorkspace, Ready, Free, store, Orderly, Sequential, SessionsTypeOK, SessionPlaces, Turns, Busy, Locked, Writer, Asked, Begins, HeadLeads, Reloadable, Alone
<1>11. ASSUME NEW c \in Contexts, Clone(c) PROVE HeadLeads'
  BY <1>11 DEF Clone, MoveTo, store, Orderly, Sequential, SessionsTypeOK, SessionPlaces, Turns, Busy, Locked, Writer, Asked, Begins, HeadLeads, Reloadable, Alone
<1>12. ASSUME NEW c \in Contexts, Edit(c) PROVE HeadLeads'
  BY <1>12 DEF Edit, Ready, Free, store, Orderly, Sequential, SessionsTypeOK, SessionPlaces, Turns, Busy, Locked, Writer, Asked, Begins, HeadLeads, Reloadable, Alone
<1>13. ASSUME NEW c \in Contexts, Diff(c) PROVE HeadLeads'
  BY <1>13 DEF Diff, MayUseWorkspace, Ready, Free, store, Orderly, Sequential, SessionsTypeOK, SessionPlaces, Turns, Busy, Locked, Writer, Asked, Begins, HeadLeads, Reloadable, Alone
<1>14. ASSUME NEW c \in Contexts, End(c) PROVE HeadLeads'
  BY <1>14 DEF End, MayUseWorkspace, Ready, Free, store, Orderly, Sequential, SessionsTypeOK, SessionPlaces, Turns, Busy, Locked, Writer, Asked, Begins, HeadLeads, Reloadable, Alone
<1>15. ASSUME NEW p \in Pids, ProcessDies(p) PROVE HeadLeads'
  BY <1>15 DEF ProcessDies, Orderly, Sequential, SessionsTypeOK, SessionPlaces, Turns, Busy, Locked, Writer, Asked, Begins, HeadLeads, Reloadable, Alone
<1>16. ASSUME Exit PROVE HeadLeads'
  BY <1>16 DEF Exit, Orderly, Sequential, SessionsTypeOK, SessionPlaces, Turns, Busy, Locked, Writer, Asked, Begins, HeadLeads, Reloadable, Alone
<1>17. ASSUME UNCHANGED sessionsVars PROVE HeadLeads'
  BY <1>17 DEF sessionsVars, store, Orderly, Sequential, SessionsTypeOK, SessionPlaces, Turns, Busy, Locked, Writer, Asked, Begins, HeadLeads, Reloadable, Alone
<1>18. QED
  BY <1>1, <1>2, <1>3, <1>4, <1>5, <1>6, <1>7, <1>8, <1>9, <1>10, <1>11, <1>12, <1>13, <1>14, <1>15, <1>16, <1>17 DEF SessionsNext, Opening

-----------------------------------------------------------------------------
LEMMA Inductive == ASSUME Alone PROVE SessionsSpec => []IInv
<1>1. SessionsInit => IInv
  BY TypeInit DEF IInv, Sequential, Orderly, SessionsInit, Turns, Busy, Locked, Writer, Asked, Begins, HeadLeads, Reloadable
<1>2. ASSUME IInv, [SessionsNext]_sessionsVars PROVE IInv'
  <2>1. given' = given
    BY <1>2 DEF SessionsNext, Opening, sessionsVars, OpenContext, Check, Read, RemoveStale, Truncate, WritePid, LoadHead,
       Drop, RemoveLock, Begin, Clone, Edit, Diff, End, ProcessDies, Exit
  <2>2. SessionsTypeOK'
    BY <1>2, TypeStep DEF IInv
  <2>3. ASSUME ~given.racing PROVE Sequential'
    BY <1>2, <2>1, <2>2, <2>3, TurnsStep, LockedStep DEF IInv, Sequential
  <2>4. ASSUME ~given.racing, given.polite PROVE Orderly'
    BY <1>2, <2>1, <2>3, <2>4, AskedStep, HeadLeadsStep DEF IInv, Orderly
  <2>5. QED
    BY <2>1, <2>2, <2>3, <2>4 DEF IInv
<1>3. QED
  BY <1>1, <1>2, PTL DEF SessionsSpec

\* When calls do not overlap, at most one process is past the lock with the
\* right to write, however many come, go and die.
THEOREM SequentialOpensExclude == ASSUME Alone PROVE SessionsSpec => []OneWriter
<1>1. IInv => OneWriter
  BY DEF IInv, Sequential, Locked, OneWriter, NeverTwoWriters
<1>2. QED
  BY <1>1, Inductive, PTL

\* ... and HEAD leads to every acknowledged edit that nobody has committed or
\* rolled back: the next process to open the workspace adopts it.
THEOREM WorkStaysRecoverable == ASSUME Alone PROVE SessionsSpec => []Recoverable
<1>1. IInv => Recoverable
  BY DEF IInv, Orderly, HeadLeads, Recoverable
<1>2. QED
  BY <1>1, Inductive, PTL

\* Lock, HEAD and contexts keep their types, however calls overlap.
THEOREM TypeCorrect == SessionsSpec => []SessionsTypeOK
  BY TypeInit, TypeStep, PTL DEF SessionsSpec

\* Types and recovery together.
THEOREM WorkIsSound == ASSUME Alone PROVE SessionsSpec => []WorkSound
  BY TypeCorrect, WorkStaysRecoverable, PTL DEF WorkSound
=============================================================================
