--------------------------- MODULE Delegation_proofs ---------------------------
(***************************************************************************)
(* Proofs about delegation and what stands beside it.  Graph: whatever the *)
(* symbols, the two builders agree but for what the code leaves to one of  *)
(* them, nesting is a forest, a search finds each node at its distance and *)
(* a cycle is reported exactly when there is one; and of the graph that   *)
(* was saved last no edge is missing on disk but for what is not inserted  *)
(* yet, has failed to be, or was dropped under it.  Policy: a plan is      *)
(* decided by the first of its nodes that settles it, however long the     *)
(* plan is.  Delegation: while calls take turns, the board keeps the       *)
(* leases and the completions, although nodes are claimed over, processes  *)
(* die between the writes of a call and heartbeats run late; and however   *)
(* calls overlap, no node is queued twice, nor again once it is handed     *)
(* out, unless an older copy is written back.                              *)
(***************************************************************************)
EXTENDS MCDelegation, FiniteSetTheorems, SequenceTheorems, WellFoundedInduction, TLAPS

\* A set of numbers has a least: how what is computed step by step is proved without induction.
LEMMA LeastNumber == ASSUME NEW S \in SUBSET Nat, S # {} PROVE \E i \in S : \A j \in S : i <= j
<1>1. PICK i \in S : \A j \in S : ~(<<j, i>> \in OpToRel(<, Nat))
  BY NatLessThanWellFounded, WFMin
<1>2. \A j \in S : ~(j < i)
  BY <1>1 DEF OpToRel
<1> QED BY <1>2

-----------------------------------------------------------------------------
(* Graph: the edges on disk                                                *)

\* Edges that a save still has to insert belong to the graph that deleted last or to those mixed in.
LeftExpected ==
  \A x \in Audits : /\ audit[x].left \subseteq lastsave \cup mixed
                    /\ audit[x].at # "insert" => audit[x].left = {}
AuditType == [at : AuditSteps, graph : SUBSET Pairs, left : SUBSET Pairs]
GraphInv == GraphTypeOK /\ SaveIsWhole /\ LeftExpected /\ audit \in [Audits -> AuditType]

LEMMA GraphStarts == GraphInit => GraphInv
<1> SUFFICES ASSUME GraphInit PROVE GraphInv
  OBVIOUS
<1>1. NoAudit \in AuditType /\ NoAudit.left = {} /\ NoAudit.graph = {} /\ NoAudit.at = "idle"
  BY DEF NoAudit, AuditType, AuditSteps
<1>2. audit \in [Audits -> AuditType] /\ \A x \in Audits : audit[x] = NoAudit
  BY <1>1 DEF GraphInit
<1>3. GraphTypeOK
  <2>1. Len(Built) \in Nat /\ DOMAIN Built = 1..Len(Built) /\ (Len(Built) = 0 => Built = <<>>)
    BY GraphAssumption
  <2>2. 1 \in DOMAIN Built
    BY <2>1, GraphAssumption
  <2> QED BY <1>1, <1>2, <2>2 DEF GraphInit, GraphTypeOK, AuditSteps
<1>4. SaveIsWhole /\ LeftExpected
  BY <1>1, <1>2 DEF GraphInit, SaveIsWhole, LeftExpected
<1> QED BY <1>2, <1>3, <1>4 DEF GraphInv

\* What an audit becomes.
LEMMA AuditBecomes ==
  ASSUME GraphInv, NEW x \in Audits, NEW r \in AuditType, Becomes(x, r)
  PROVE  /\ audit' \in [Audits -> AuditType] /\ audit'[x] = r
         /\ \A y \in Audits \ {x} : audit'[y] = audit[y]
BY DEF GraphInv, Becomes

LEMMA BuiltIsGraph == version \in DOMAIN Built => Built[version] \subseteq Pairs
BY GraphAssumption DEF Pairs

LEMMA SourcesKeep == GraphInv /\ SourcesChange => GraphInv'
<1> SUFFICES ASSUME GraphInv, SourcesChange PROVE GraphInv'
  OBVIOUS
<1>1. version' \in DOMAIN Built
  <2>1. DOMAIN Built = 1..Len(Built) /\ Len(Built) \in Nat
    BY GraphAssumption
  <2> QED BY <2>1 DEF GraphInv, GraphTypeOK, SourcesChange
<1> QED BY <1>1 DEF GraphInv, GraphTypeOK, SourcesChange, SaveIsWhole, LeftExpected, Unsaved1, disk

LEMMA CommitsKeep == ASSUME GraphInv, NEW H \in SUBSET GraphNodes, IndexCommits(H) PROVE GraphInv'
<1>1. /\ dbedges' = Refreshed1(dbedges, H) /\ lastsave' = Refreshed1(lastsave, H) /\ mixed' = mixed \cup Unsaved1
      /\ lost' = {e \in lost : e[1] \notin H /\ e[2] \notin H} /\ indexed' = TRUE /\ UNCHANGED <<version, audit>>
  BY DEF IndexCommits
<1>2. dbedges' \subseteq Pairs
  BY <1>1, BuiltIsGraph DEF GraphInv, GraphTypeOK, Refreshed1
<1>3. SaveIsWhole'
  BY <1>1 DEF GraphInv, SaveIsWhole, Refreshed1, Unsaved1
<1>4. LeftExpected'
  BY <1>1 DEF GraphInv, LeftExpected, Unsaved1
<1> QED BY <1>1, <1>2, <1>3, <1>4 DEF GraphInv, GraphTypeOK

\* What saves have left to insert is expected still when it is all that is mixed in.
LEMMA MixedIsLeft ==
  ASSUME GraphInv, UNCHANGED audit, mixed' = Unsaved1 PROVE LeftExpected'
BY DEF GraphInv, LeftExpected, Unsaved1

\* A drop takes the edges, and what its symbols have lost with them is written down.
LEMMA DropsKeep == GraphInv /\ (DropsSymbols \/ DropsEdges \/ LeavesEdges) => GraphInv'
<1> SUFFICES ASSUME GraphInv, DropsSymbols \/ DropsEdges \/ LeavesEdges PROVE GraphInv'
  OBVIOUS
<1>1. indexed \in BOOLEAN /\ UNCHANGED <<audit, version>> /\ indexed' \in BOOLEAN
  BY DEF DropsSymbols, DropsEdges, LeavesEdges, GraphInv, GraphTypeOK
<1>2. \/ dbedges' = {} /\ mixed' = Unsaved1 /\ (lost' = lastsave' \/ lastsave' = {})
      \/ UNCHANGED disk
  BY DEF DropsSymbols, DropsEdges, LeavesEdges
<1>3. CASE dbedges' = {} /\ mixed' = Unsaved1 /\ (lost' = lastsave' \/ lastsave' = {})
  <2>1. LeftExpected'
    BY <1>1, <1>3, MixedIsLeft
  <2>2. SaveIsWhole'
    BY <1>3 DEF SaveIsWhole
  <2> QED BY <1>1, <1>3, <2>1, <2>2 DEF GraphInv, GraphTypeOK
<1>4. CASE UNCHANGED disk
  BY <1>1, <1>4 DEF GraphInv, GraphTypeOK, SaveIsWhole, LeftExpected, Unsaved1, disk
<1> QED BY <1>2, <1>3, <1>4

\* Steps that concern one audit and nothing on disk: what they set has nothing left to insert.
LEMMA StepsAside ==
  ASSUME GraphInv, NEW x \in Audits, NEW r \in AuditType, Becomes(x, r), r.left = {}, audit[x].left = {},
         UNCHANGED <<disk, version, indexed>>
  PROVE  GraphInv'
<1>1. /\ audit' \in [Audits -> AuditType] /\ audit'[x] = r
      /\ \A y \in Audits \ {x} : audit'[y] = audit[y]
  BY AuditBecomes
<1>2. Unsaved1' = Unsaved1
  BY <1>1 DEF Unsaved1
<1>3. \A y \in Audits : audit'[y].left = audit[y].left
  BY <1>1
<1>4. GraphTypeOK'
  BY <1>1 DEF GraphInv, GraphTypeOK, AuditType, disk
<1>5. SaveIsWhole'
  BY <1>2 DEF GraphInv, SaveIsWhole, disk
<1>6. LeftExpected'
  BY <1>1, <1>3 DEF GraphInv, LeftExpected, disk
<1> QED BY <1>1, <1>4, <1>5, <1>6 DEF GraphInv

LEMMA GoesOnKeeps ==
  ASSUME GraphInv, NEW x \in Audits, NEW at \in AuditSteps, audit[x].left = {}, GoesTo(x, at)
  PROVE  GraphInv'
<1> DEFINE r == [audit[x] EXCEPT !.at = at]
<1>1. r \in AuditType /\ r.left = {}
  BY DEF AuditType, GraphInv
<1>2. Becomes(x, r) /\ UNCHANGED <<disk, version, indexed>>
  BY DEF GoesTo
<1> HIDE DEF r
<1> QED BY <1>1, <1>2, StepsAside

LEMMA AuditStepsKeep ==
  ASSUME GraphInv, NEW x \in Audits,
         \/ BeginGraph(x, TRUE) \/ BeginGraph(x, FALSE) \/ EnsuresIndex(x, "ensure") \/ EnsuresIndex(x, "cached")
         \/ FoundCached(x) \/ BuildsFresh(x) \/ SaveRefused(x) \/ SaveEnds(x) \/ AnswersGraph(x)
  PROVE  GraphInv'
<1>1. NoAudit \in AuditType /\ NoAudit.left = {} /\ audit[x] \in AuditType /\ (audit[x].at # "insert" => audit[x].left = {})
  BY DEF NoAudit, AuditType, AuditSteps, GraphInv, LeftExpected
<1>2. \A fresh \in BOOLEAN : BeginGraph(x, fresh) => GraphInv'
  <2> SUFFICES ASSUME NEW fresh \in BOOLEAN, BeginGraph(x, fresh) PROVE GraphInv'
    OBVIOUS
  <2> DEFINE r == [NoAudit EXCEPT !.at = IF fresh THEN "ensure" ELSE IF indexed THEN "answer" ELSE "cached"]
  <2>1. r \in AuditType /\ r.left = {}
    BY <1>1 DEF AuditType, AuditSteps
  <2>2. Becomes(x, r) /\ AtStep(x, "idle") /\ UNCHANGED <<disk, version, indexed>>
    BY DEF BeginGraph
  <2> HIDE DEF r
  <2> QED BY <1>1, <2>1, <2>2, StepsAside DEF AtStep
<1>3. \A at \in {"ensure", "cached"} : EnsuresIndex(x, at) => GraphInv'
  <2> SUFFICES ASSUME NEW at \in {"ensure", "cached"}, EnsuresIndex(x, at) PROVE GraphInv'
    OBVIOUS
  <2>1. PICK to \in AuditSteps : GoesTo(x, to)
    BY DEF EnsuresIndex, AuditSteps
  <2>2. audit[x].left = {}
    BY <1>1 DEF EnsuresIndex, AtStep
  <2> QED BY <2>1, <2>2, GoesOnKeeps
<1>4. BuildsFresh(x) => GraphInv'
  <2> SUFFICES ASSUME BuildsFresh(x) PROVE GraphInv'
    OBVIOUS
  <2>1. PICK g \in {Built[version]} \cup (IF drops = 0 THEN {} ELSE {{}}) :
          Becomes(x, [at |-> "delete", graph |-> g, left |-> {}])
    BY DEF BuildsFresh
  <2> DEFINE r == [at |-> "delete", graph |-> g, left |-> {}]
  <2>2. g \subseteq Pairs
    BY <2>1, BuiltIsGraph DEF GraphInv, GraphTypeOK
  <2>3. r \in AuditType /\ r.left = {}
    BY <1>1, <2>2 DEF AuditType, AuditSteps
  <2>4. Becomes(x, r) /\ audit[x].left = {} /\ UNCHANGED <<disk, version, indexed>>
    BY <1>1, <2>1 DEF BuildsFresh, AtStep
  <2> HIDE DEF r
  <2> QED BY <2>3, <2>4, StepsAside
<1>5. FoundCached(x) \/ SaveRefused(x) \/ SaveEnds(x) => GraphInv'
  <2> SUFFICES ASSUME FoundCached(x) \/ SaveRefused(x) \/ SaveEnds(x) PROVE GraphInv'
    OBVIOUS
  <2>1. GoesTo(x, "answer") /\ audit[x].left = {}
    BY <1>1 DEF FoundCached, SaveRefused, SaveEnds, AtStep
  <2>2. "answer" \in AuditSteps
    BY DEF AuditSteps
  <2> QED BY <2>1, <2>2, GoesOnKeeps
<1>6. AnswersGraph(x) => GraphInv'
  <2> SUFFICES ASSUME AnswersGraph(x) PROVE GraphInv'
    OBVIOUS
  <2>1. Becomes(x, NoAudit) /\ audit[x].left = {} /\ UNCHANGED <<disk, version, indexed>>
    BY <1>1 DEF AnswersGraph, AtStep
  <2> QED BY <1>1, <2>1, StepsAside
<1> QED BY <1>2, <1>3, <1>4, <1>5, <1>6

\* The edges may stay, for all that was to be deleted, or be gone, with none inserted.
LEMMA DeletesKeep == ASSUME GraphInv, NEW x \in Audits, SaveDeletes(x) PROVE GraphInv'
<1>1. /\ audit[x].at = "delete" /\ dbedges' \in {{}, dbedges} /\ lastsave' = audit[x].graph
      /\ mixed' = Unsaved1 \cup dbedges' /\ UNCHANGED <<version, indexed>>
  BY DEF SaveDeletes, AtStep
<1>2. PICK r \in AuditType :
        /\ Becomes(x, r) /\ r.graph = audit[x].graph
        /\ \/ r.at = "insert" /\ r.left = audit[x].graph
           \/ r.left = {} /\ lost' = lastsave'
  <2> DEFINE s == [audit[x] EXCEPT !.at = "insert", !.left = audit[x].graph]
             d == [audit[x] EXCEPT !.at = "answer"]
  <2>1. audit[x] \in AuditType /\ audit[x].left = {}
    BY <1>1 DEF GraphInv, LeftExpected
  <2>2. s \in AuditType /\ s.left = audit[x].graph /\ s.graph = audit[x].graph /\ s.at = "insert"
    BY <2>1 DEF AuditType, AuditSteps
  <2>3. d \in AuditType /\ d.left = {} /\ d.graph = audit[x].graph
    BY <2>1 DEF AuditType, AuditSteps
  <2>4. Becomes(x, s) \/ (Becomes(x, d) /\ lost' = lastsave')
    BY DEF SaveDeletes
  <2> HIDE DEF s, d
  <2> QED BY <2>2, <2>3, <2>4
<1>3. audit' \in [Audits -> AuditType] /\ audit'[x] = r /\ \A y \in Audits \ {x} : audit'[y] = audit[y]
  BY <1>2, AuditBecomes
<1>4. GraphTypeOK'
  <2>1. dbedges' \subseteq Pairs
    BY <1>1 DEF GraphInv, GraphTypeOK
  <2>2. \A y \in Audits : audit'[y].left \subseteq audit'[y].graph
    BY <1>2, <1>3 DEF GraphInv, GraphTypeOK
  <2> QED BY <1>1, <1>3, <2>1, <2>2 DEF GraphInv, GraphTypeOK, AuditType
<1>5. lastsave' \subseteq Unsaved1' \cup lost'
  BY <1>1, <1>2, <1>3 DEF Unsaved1
<1>6. SaveIsWhole'
  BY <1>1, <1>5 DEF SaveIsWhole
<1>7. LeftExpected'
  <2>1. \A y \in Audits \ {x} : audit'[y].left \subseteq mixed'
    BY <1>1, <1>3 DEF Unsaved1
  <2>2. audit'[x].left \subseteq lastsave' /\ (audit'[x].at # "insert" => audit'[x].left = {})
    BY <1>1, <1>2, <1>3
  <2> QED BY <1>3, <2>1, <2>2 DEF GraphInv, LeftExpected
<1> QED BY <1>3, <1>4, <1>6, <1>7 DEF GraphInv

\* Edges that a save no longer has to insert are in the table or written down as lost.
LEMMA FewerLeftKeep ==
  ASSUME GraphInv, NEW x \in Audits, NEW r \in AuditType, Becomes(x, r),
         r.left \subseteq audit[x].left, r.left \subseteq r.graph, r.at # "insert" => r.left = {},
         dbedges \subseteq dbedges', dbedges' \subseteq dbedges \cup audit[x].left,
         lost \ dbedges' \subseteq lost', audit[x].left \ r.left \subseteq dbedges' \cup lost',
         UNCHANGED <<version, indexed, lastsave, mixed>>
  PROVE  GraphInv'
<1>1. audit' \in [Audits -> AuditType] /\ audit'[x] = r /\ \A y \in Audits \ {x} : audit'[y] = audit[y]
  BY AuditBecomes
<1>2. audit[x].left \subseteq Pairs /\ audit[x].left \subseteq lastsave \cup mixed
  BY DEF GraphInv, LeftExpected, AuditType
<1>3. GraphTypeOK'
  BY <1>1, <1>2 DEF GraphInv, GraphTypeOK, AuditType
<1>4. Unsaved1 \subseteq Unsaved1' \cup dbedges' \cup lost'
  BY <1>1 DEF Unsaved1
<1>5. SaveIsWhole'
  BY <1>2, <1>4 DEF GraphInv, SaveIsWhole
<1>6. LeftExpected'
  BY <1>1, <1>2 DEF GraphInv, LeftExpected
<1> QED BY <1>1, <1>3, <1>5, <1>6 DEF GraphInv

LEMMA InsertsKeep ==
  ASSUME GraphInv, NEW x \in Audits, SaveInserts(x) \/ InsertFails(x) \/ AuditDies(x) PROVE GraphInv'
<1>1. audit[x] \in AuditType /\ audit[x].left \subseteq audit[x].graph
  BY DEF GraphInv, GraphTypeOK
<1>2. CASE SaveInserts(x) \/ InsertFails(x)
  <2>1. PICK e \in audit[x].left :
          /\ Becomes(x, [audit[x] EXCEPT !.left = @ \ {e}])
          /\ \/ dbedges' = dbedges \cup {e} /\ lost' = lost \ {e}
             \/ dbedges' = dbedges /\ lost' = lost \cup {e}
    BY <1>2 DEF SaveInserts, InsertFails
  <2> DEFINE r == [audit[x] EXCEPT !.left = @ \ {e}]
  <2>2. audit[x].at = "insert" /\ UNCHANGED <<version, indexed, lastsave, mixed>>
    BY <1>2 DEF SaveInserts, InsertFails, AtStep
  <2>3. r \in AuditType /\ r.left = audit[x].left \ {e} /\ r.graph = audit[x].graph /\ r.at = "insert"
    BY <1>1, <2>2 DEF AuditType
  <2>4. Becomes(x, r)
    BY <2>1
  <2> HIDE DEF r
  <2> QED BY <1>1, <2>1, <2>2, <2>3, <2>4, FewerLeftKeep
<1>3. CASE AuditDies(x)
  <2>1. Becomes(x, NoAudit) /\ lost' = lost \cup audit[x].left /\ UNCHANGED <<dbedges, version, indexed, lastsave, mixed>>
    BY <1>3 DEF AuditDies
  <2>2. NoAudit \in AuditType /\ NoAudit.left = {} /\ NoAudit.at # "insert"
    BY DEF NoAudit, AuditType, AuditSteps
  <2> QED BY <2>1, <2>2, FewerLeftKeep
<1> QED BY <1>2, <1>3

LEMMA GraphSteps == ASSUME GraphInv, [GraphNext]_graphVars PROVE GraphInv'
<1>1. CASE UNCHANGED graphVars
  BY <1>1 DEF graphVars, GraphInv, GraphTypeOK, SaveIsWhole, LeftExpected, Unsaved1
<1>2. CASE GraphNext
  BY <1>2, SourcesKeep, DropsKeep, CommitsKeep, AuditStepsKeep, DeletesKeep, InsertsKeep DEF GraphNext
<1> QED BY <1>1, <1>2

-----------------------------------------------------------------------------
(* Graph: the two builders                                                 *)

\* Neither tells aliases apart where there are none: they call the same.
LEMMA SameTargets ==
  ASSUME NEW t, \A s \in In(t) : ~s.at, NEW s, NEW c
  PROVE  FreshTargets(t, s, c) = IndexedTargets(t, s, c)
<1>1. \A d \in In(t) : FreshScore(c, s, d) = Score(c, s, d)
  <2> SUFFICES ASSUME NEW d \in In(t) PROVE FreshScore(c, s, d) = Score(c, s, d)
    OBVIOUS
  <2>1. Score(c, s, d) \in Nat
    BY DEF Score, Bool
  <2>2. Bool(d.at, 50) = 0
    BY DEF Bool
  <2> QED BY <2>1, <2>2 DEF FreshScore
<1>2. Named(t, c) \subseteq In(t)
  BY DEF Named
<1> QED BY <1>1, <1>2 DEF FreshTargets, IndexedTargets, BestOf

\* The parent of a symbol: the shortest that encloses it, of equally short ones the first.
Before(t, c, j, k) ==
  \/ t[j].to - t[j].from < t[k].to - t[k].from
  \/ t[j].to - t[j].from = t[k].to - t[k].from /\ j <= k
Innermost(t, c, j) == Encloses(t[j], c) /\ \A k \in DOMAIN t : Encloses(t[k], c) => Before(t, c, j, k)

LEMMA Parents == ASSUME NEW t, NEW c, NEW p \in ParentOf(t, c) PROVE \E i \in DOMAIN t : p = t[i] /\ Innermost(t, c, i)
BY DEF ParentOf, Innermost, Before

LEMMA ContainedPairs ==
  ASSUME NEW t, NEW e \in Contained(t)
  PROVE  \E c \in In(t), i \in DOMAIN t : e = <<t[i], c>> /\ e[1] = t[i] /\ e[2] = c /\ e[1] \in In(t) /\ Innermost(t, c, i)
<1>1. PICK c \in In(t) : e \in ParentOf(t, c) \X {c}
  BY DEF Contained
<1>2. PICK p \in ParentOf(t, c) : e = <<p, c>>
  BY <1>1
<1>3. PICK i \in DOMAIN t : p = t[i] /\ Innermost(t, c, i)
  BY <1>2, Parents
<1>4. t[i] \in In(t)
  BY DEF In
<1> QED BY <1>2, <1>3, <1>4

LEMMA BuildersMeet == BuildersAgree
<1> SUFFICES ASSUME NEW t \in Tables \cup CallTables, \A s \in In(t) : ~s.at /\ s.of = "" /\ s.realizes = <<>>
             PROVE  /\ IndexedEdges(t, FilesOf(t), {}, Ids(t)) = FreshEdges(t, FilesOf(t))
                    /\ IndexedEdges(t, {}, {}, Ids(t)) \subseteq FreshEdges(t, {})
  BY DEF BuildersAgree
<1>1. {s \in In(t) : s.id \in Ids(t)} = In(t)
  BY DEF Ids
<1>2. \A d \in In(t) : Primary(t, d) = {d}
  BY DEF Primary
<1>3. UNION {Fan(s, Realized(t, s), "realizes") : s \in In(t)} = {}
  <2>1. \A s \in In(t) : Realized(t, s) = {}
    BY DEF Realized
  <2> QED BY <2>1 DEF Fan
<1>4. \A s, c : FreshTargets(t, s, c) = IndexedTargets(t, s, c)
  BY SameTargets
<1>5. \A s, c : IndexedTargets(t, s, c) \subseteq In(t)
  BY DEF IndexedTargets, BestOf, Named
<1>6. \A s : UNION {Primary(t, d) : d \in UNION {FreshTargets(t, s, c) : c \in s.calls}} = UNION {IndexedTargets(t, s, c) : c \in s.calls}
  <2> SUFFICES ASSUME NEW s
               PROVE  UNION {Primary(t, d) : d \in UNION {FreshTargets(t, s, c) : c \in s.calls}} = UNION {IndexedTargets(t, s, c) : c \in s.calls}
    OBVIOUS
  <2> DEFINE D == UNION {FreshTargets(t, s, c) : c \in s.calls}
  <2>1. D = UNION {IndexedTargets(t, s, c) : c \in s.calls}
    BY <1>4
  <2> HIDE DEF D
  <2>2. \A d \in D : d \in In(t)
    BY <1>5, <2>1
  <2>3. \A d \in D : Primary(t, d) = {d}
    BY <1>2, <2>2
  <2>4. {Primary(t, d) : d \in D} = {{d} : d \in D}
    BY <2>3
  <2>5. UNION {{d} : d \in D} = D
    OBVIOUS
  <2> QED BY <2>1, <2>4, <2>5 DEF D
<1>7. Readable(t, FilesOf(t)) = In(t) /\ Readable(t, {}) = {}
  BY DEF Readable, FilesOf
<1>8. \A e \in Contained(t) : e[1] \in In(t)
  BY ContainedPairs
<1>9. {e \in Contained(t) : e[1].file \in FilesOf(t)} = Contained(t) /\ {e \in Contained(t) : e[1].file \in {}} = {}
  BY <1>8 DEF FilesOf
<1> DEFINE Calls1(S) == UNION {Fan(s, UNION {IndexedTargets(t, s, c) : c \in s.calls}, "calls") : s \in S}
<1>11. \A S : UNION {Fan(s, UNION {Primary(t, d) : d \in UNION {FreshTargets(t, s, c) : c \in s.calls}}, "calls") : s \in S}
            = Calls1(S)
  <2> DEFINE A(s) == UNION {Primary(t, d) : d \in UNION {FreshTargets(t, s, c) : c \in s.calls}}
             B(s) == UNION {IndexedTargets(t, s, c) : c \in s.calls}
  <2>1. \A s : A(s) = B(s)
    BY <1>6
  <2> HIDE DEF A, B
  <2>2. \A s : Fan(s, A(s), "calls") = Fan(s, B(s), "calls")
    BY <2>1
  <2> SUFFICES ASSUME NEW S PROVE UNION {Fan(s, A(s), "calls") : s \in S} = UNION {Fan(s, B(s), "calls") : s \in S}
    BY DEF A, B
  <2>3. {Fan(s, A(s), "calls") : s \in S} = {Fan(s, B(s), "calls") : s \in S}
    BY <2>2
  <2> QED BY <2>3
<1>12. \A R : FreshEdges(t, R) = NoLoops(StubEdges(t, In(t)) \cup Nesting(Contained(t)) \cup ImportEdges(t, Readable(t, R))
                                      \cup BridgeEdges(t, In(t)) \cup Calls1(Readable(t, R)))
  <2> SUFFICES ASSUME NEW R
               PROVE  FreshEdges(t, R) = NoLoops(StubEdges(t, In(t)) \cup Nesting(Contained(t)) \cup ImportEdges(t, Readable(t, R))
                                                 \cup BridgeEdges(t, In(t)) \cup Calls1(Readable(t, R)))
    OBVIOUS
  <2> DEFINE X == StubEdges(t, In(t)) \cup Nesting(Contained(t)) \cup ImportEdges(t, Readable(t, R)) \cup BridgeEdges(t, In(t))
             Z == UNION {Fan(s, Realized(t, s), "realizes") : s \in In(t)}
             U == UNION {Fan(s, UNION {Primary(t, d) : d \in UNION {FreshTargets(t, s, c) : c \in s.calls}}, "calls") : s \in Readable(t, R)}
  <2>1. FreshEdges(t, R) = NoLoops(X \cup Z \cup U)
    BY Zenon DEF FreshEdges
  <2>2. Z = {} /\ U = Calls1(Readable(t, R))
    BY <1>3, <1>11, Zenon
  <2> SUFFICES FreshEdges(t, R) = NoLoops(X \cup Calls1(Readable(t, R)))
    BY Zenon
  <2> HIDE DEF X, Z, U, Calls1
  <2>3. X \cup Z \cup U = X \cup Calls1(Readable(t, R))
    BY <2>2
  <2> QED BY <2>1, <2>3
<1>13. /\ FreshEdges(t, FilesOf(t)) = NoLoops(StubEdges(t, In(t)) \cup Nesting(Contained(t)) \cup ImportEdges(t, In(t))
                                      \cup BridgeEdges(t, In(t)) \cup Calls1(In(t)))
       /\ FreshEdges(t, {}) = NoLoops(StubEdges(t, In(t)) \cup Nesting(Contained(t)) \cup ImportEdges(t, {})
                                      \cup BridgeEdges(t, In(t)) \cup Calls1({}))
  <2> HIDE DEF Calls1
  <2> QED BY <1>7, <1>12
<1>14. IndexedEdges(t, FilesOf(t), {}, Ids(t)) = NoLoops(StubEdges(t, In(t)) \cup Nesting(Contained(t)) \cup ImportEdges(t, In(t))
                                      \cup BridgeEdges(t, In(t)) \cup Calls1(In(t)))
  BY <1>1, <1>7, <1>9 DEF IndexedEdges
<1>15. IndexedEdges(t, {}, {}, Ids(t)) = NoLoops(StubEdges(t, In(t)) \cup Nesting({}) \cup ImportEdges(t, {})
                                      \cup BridgeEdges(t, In(t)) \cup Calls1({}))
  BY <1>1, <1>7, <1>9 DEF IndexedEdges
<1>16. Nesting({}) = {}
  BY DEF Nesting, Declared, Owned, Typed
<1> HIDE DEF Calls1
<1>17. IndexedEdges(t, {}, {}, Ids(t)) \subseteq FreshEdges(t, {})
  BY <1>13, <1>15, <1>16 DEF NoLoops
<1> QED BY <1>13, <1>14, <1>17

\* The edges that start at a symbol are found symbol by symbol.
Starting(t, S) ==
  StubEdges(t, S) \cup ImportEdges(t, S) \cup BridgeEdges(t, S)
  \cup UNION {Fan(s, UNION {IndexedTargets(t, s, c) : c \in s.calls}, "calls") : s \in S}

LEMMA FromOne == ASSUME NEW s, NEW D, NEW k, NEW e \in Fan(s, D, k) PROVE e[1] = s.id
BY DEF Fan

StubFrom(t, s, e) == e \in StubEdges(t, {s}) /\ e[1] = s.id
ImportFrom(t, s, e) == e \in ImportEdges(t, {s}) /\ e[1] = s.id
BridgeFrom(t, s, e) == e \in BridgeEdges(t, {s}) /\ e[1] = s.id
From(t, s, e) == e \in Starting(t, {s}) /\ e[1] = s.id

LEMMA StubsApart ==
  ASSUME NEW t, NEW S, NEW e PROVE e \in StubEdges(t, S) <=> \E s \in S : StubFrom(t, s, e)
<1> DEFINE Mine(s) == IF ByLink(t, s) # {} THEN Fan(s, ByLink(t, s), "universal_link") ELSE Fan(s, ByName(t, s), "universal_name")
<1>1. \A s : e \in Mine(s) => e[1] = s.id
  BY FromOne
<1>2. \A R : e \in StubEdges(t, R) <=> \E s \in R : s.role = "stub" /\ e \in Mine(s)
  BY DEF StubEdges
<1> HIDE DEF Mine
<1>3. \A s : e \in StubEdges(t, {s}) <=> s.role = "stub" /\ e \in Mine(s)
  BY <1>2
<1> QED BY <1>1, <1>2, <1>3 DEF StubFrom

LEMMA ImportsApart ==
  ASSUME NEW t, NEW S, NEW e PROVE e \in ImportEdges(t, S) <=> \E s \in S : ImportFrom(t, s, e)
<1> DEFINE Mine(s) == Fan(s, UNION {Named(t, c) : c \in s.imports}, "imports")
<1>1. \A s : e \in Mine(s) => e[1] = s.id
  BY FromOne
<1>2. \A R : e \in ImportEdges(t, R) <=> \E s \in R : Def(s) /\ e \in Mine(s)
  BY DEF ImportEdges
<1> HIDE DEF Mine
<1>3. \A s : e \in ImportEdges(t, {s}) <=> Def(s) /\ e \in Mine(s)
  BY <1>2
<1> QED BY <1>1, <1>2, <1>3 DEF ImportFrom

LEMMA BridgesApart ==
  ASSUME NEW t, NEW S, NEW e PROVE e \in BridgeEdges(t, S) <=> \E s \in S : BridgeFrom(t, s, e)
<1> DEFINE Mine(s) == Fan(s, {d \in In(t) : d.name = s.name /\ d.core}, "bridge")
<1>1. \A s : e \in Mine(s) => e[1] = s.id
  BY FromOne
<1>2. \A R : e \in BridgeEdges(t, R) <=> \E s \in R : s.wrapper /\ e \in Mine(s)
  BY DEF BridgeEdges
<1> HIDE DEF Mine
<1>3. \A s : e \in BridgeEdges(t, {s}) <=> s.wrapper /\ e \in Mine(s)
  BY <1>2
<1> QED BY <1>1, <1>2, <1>3 DEF BridgeFrom

LEMMA StartingApart ==
  ASSUME NEW t, NEW S, NEW e PROVE e \in Starting(t, S) <=> \E s \in S : From(t, s, e)
<1> DEFINE Mine(s) == Fan(s, UNION {IndexedTargets(t, s, c) : c \in s.calls}, "calls")
           Calls1(R) == UNION {Mine(s) : s \in R}
<1>1. \A s : e \in Mine(s) => e[1] = s.id
  BY FromOne
<1>2. \A R : e \in Starting(t, R) <=> e \in StubEdges(t, R) \/ e \in ImportEdges(t, R) \/ e \in BridgeEdges(t, R) \/ e \in Calls1(R)
  BY DEF Starting
<1> HIDE DEF Mine
<1>4. \A R : e \in Calls1(R) <=> \E s \in R : e \in Mine(s)
  OBVIOUS
<1>3. e \in Calls1(S) <=> \E s \in S : e \in Calls1({s}) /\ e[1] = s.id
  <2> HIDE DEF Calls1
  <2> QED BY <1>1, <1>4
<1> HIDE DEF Calls1
<1> DEFINE CallFrom(s) == e \in Calls1({s}) /\ e[1] = s.id
<1>5. \A s : From(t, s, e) <=> StubFrom(t, s, e) \/ ImportFrom(t, s, e) \/ BridgeFrom(t, s, e) \/ CallFrom(s)
  BY <1>2 DEF From, StubFrom, ImportFrom, BridgeFrom
<1>6. e \in Calls1(S) <=> \E s \in S : CallFrom(s)
  BY <1>3
<1> HIDE DEF CallFrom
<1> QED BY <1>2, <1>5, <1>6, StubsApart, ImportsApart, BridgesApart

\* The edges of an index run are those that start at what it touched and those between the others,
\* and nesting.
LEMMA IndexedApart ==
  ASSUME NEW t, NEW E, NEW hit
  PROVE  IndexedEdges(t, FilesOf(t), E, hit) =
           {e \in E : e[1] \notin hit /\ e[2] \notin hit}
           \cup NoLoops(Starting(t, {s \in In(t) : s.id \in hit}) \cup Nesting(Contained(t)))
<1> DEFINE H == {s \in In(t) : s.id \in hit}
<1>1. H \cap Readable(t, FilesOf(t)) = H
  BY DEF Readable, FilesOf
<1>2. {e \in Contained(t) : e[1].file \in FilesOf(t)} = Contained(t)
  BY ContainedPairs DEF FilesOf
<1> HIDE DEF H
<1> SUFFICES IndexedEdges(t, FilesOf(t), E, hit) = {e \in E : e[1] \notin hit /\ e[2] \notin hit}
                                                    \cup NoLoops(Starting(t, H) \cup Nesting(Contained(t)))
  BY DEF H
<1>3. IndexedEdges(t, FilesOf(t), E, hit) = 
        {e \in E : e[1] \notin hit /\ e[2] \notin hit}
        \cup NoLoops(StubEdges(t, H) \cup Nesting(Contained(t)) \cup ImportEdges(t, H)
             \cup BridgeEdges(t, H)
             \cup UNION {Fan(s, UNION {IndexedTargets(t, s, c) : c \in s.calls}, "calls") : s \in H})
  BY <1>1, <1>2 DEF IndexedEdges, H
<1> QED BY <1>3 DEF Starting

LEMMA NestingNoLoops == ASSUME NEW t PROVE \A e \in Nesting(Contained(t)) : e[1] # e[2]
<1> SUFFICES ASSUME NEW e \in Nesting(Contained(t)) PROVE e[1] # e[2]
  OBVIOUS
<1>1. \A C, k : e \in Typed(C, k) => \E p \in C : e = <<p[1].id, p[2].id, k>>
  BY DEF Typed
<1>2. Declared(Contained(t)) \subseteq Contained(t) /\ Owned(Contained(t)) \subseteq Contained(t)
  BY DEF Declared, Owned
<1>3. PICK p \in Contained(t), k \in {"contains", "declares", "owns_member"} : e = <<p[1].id, p[2].id, k>>
  BY <1>1, <1>2 DEF Nesting
<1>4. p[1].id # p[2].id
  BY ContainedPairs DEF Innermost, Encloses
<1> QED BY <1>3, <1>4

LEMMA RefreshCostsThat == RefreshCosts
<1> SUFFICES ASSUME NEW t \in CallTables, NEW f \in FilesOf(t), NEW E, E = IndexedEdges(t, FilesOf(t), {}, Ids(t)),
                    NEW H, H = Impacted1(t, f)
             PROVE  IndexedEdges(t, FilesOf(t), E, H) = {e \in E : e[1] \in H \/ e[2] \notin H} \cup Nesting(Contained(t))
  BY DEF RefreshCosts
<1> DEFINE N == Nesting(Contained(t))
           All == Starting(t, In(t))
           Some == Starting(t, {s \in In(t) : s.id \in H})
<1>1. NoLoops(N) = N /\ \A A, B : NoLoops(A \cup B) = NoLoops(A) \cup NoLoops(B)
  BY NestingNoLoops DEF NoLoops
<1>2. E = NoLoops(All) \cup N
  <2>1. {s \in In(t) : s.id \in Ids(t)} = In(t)
    BY DEF Ids
  <2>2. IndexedEdges(t, FilesOf(t), {}, Ids(t)) = {e \in {} : e[1] \notin Ids(t) /\ e[2] \notin Ids(t)} \cup NoLoops(All \cup N)
    <3>1. IndexedEdges(t, FilesOf(t), {}, Ids(t)) = {e \in {} : e[1] \notin Ids(t) /\ e[2] \notin Ids(t)}
              \cup NoLoops(Starting(t, {s \in In(t) : s.id \in Ids(t)}) \cup N)
      BY ONLY IndexedApart, Zenon
    <3> QED BY <2>1, <3>1, Zenon
  <2> HIDE DEF All, N
  <2> QED BY <1>1, <2>2
<1>3. IndexedEdges(t, FilesOf(t), E, H) = {e \in E : e[1] \notin H /\ e[2] \notin H} \cup NoLoops(Some) \cup N
  <2>1. IndexedEdges(t, FilesOf(t), E, H) = {e \in E : e[1] \notin H /\ e[2] \notin H} \cup NoLoops(Some \cup N)
    BY ONLY IndexedApart, Zenon
  <2> HIDE DEF Some, N
  <2> QED BY <1>1, <2>1
<1>4. \A e : e \in Some <=> e \in All /\ e[1] \in H
  <2> SUFFICES ASSUME NEW e PROVE e \in Some <=> e \in All /\ e[1] \in H
    OBVIOUS
  <2>1. e \in All <=> \E s \in In(t) : From(t, s, e)
    BY StartingApart
  <2>2. e \in Some <=> \E s \in {x \in In(t) : x.id \in H} : From(t, s, e)
    BY StartingApart
  <2>3. \A s : From(t, s, e) => e[1] = s.id
    BY DEF From
  <2> QED BY <2>1, <2>2, <2>3
<1> HIDE DEF N, All, Some
<1>5. NoLoops(Some) = {e \in NoLoops(All) : e[1] \in H}
  BY <1>4 DEF NoLoops
<1> QED BY <1>2, <1>3, <1>5 DEF N

LEMMA SurestIsBest == BestIsSurest
<1> SUFFICES ASSUME NEW t \in CallTables, NEW s \in In(t), NEW c \in s.calls, NEW d \in IndexedTargets(t, s, c), NEW x \in Named(t, c),
                    ~d.at, ~x.at
             PROVE  CallConfidence(c, s, x, TRUE) <= CallConfidence(c, s, d, TRUE)
  BY DEF BestIsSurest
<1>1. Score(c, s, x) <= Score(c, s, d)
  BY DEF IndexedTargets, BestOf
<1> DEFINE Sum(y) == 58 + Bool(y.file = s.file, 18) + Bool(y.dir = s.dir, 7) + Bool(y.ext = s.ext, 4) + Bool(y.at, 3)
             + Bool(c.scope # "", 8) + Bool(Qualified(c, y), 5) + (IF TRUE THEN 8 ELSE -10)
<1>2. PICK k \in {0, 8} : k = Bool(c.scope # "", 8)
  BY DEF Bool
<1>3. \A y \in {x, d} : \E f1, f2, f3, f4 \in {0, 1} :
        Score(c, s, y) = 100 * f1 + 20 * f2 + 10 * f3 + 15 * f4 /\ Sum(y) = 58 + 18 * f1 + 7 * f2 + 4 * f3 + k + 5 * f4 + 8
  <2> SUFFICES ASSUME NEW y \in {x, d}
               PROVE  \E f1, f2, f3, f4 \in {0, 1} :
                        Score(c, s, y) = 100 * f1 + 20 * f2 + 10 * f3 + 15 * f4 /\ Sum(y) = 58 + 18 * f1 + 7 * f2 + 4 * f3 + k + 5 * f4 + 8
    OBVIOUS
  <2>1. PICK f1 \in {0, 1} : Bool(y.file = s.file, 18) = 18 * f1 /\ Bool(y.file = s.file, 100) = 100 * f1
    BY DEF Bool
  <2>2. PICK f2 \in {0, 1} : Bool(y.dir = s.dir, 7) = 7 * f2 /\ Bool(y.dir = s.dir, 20) = 20 * f2
    BY DEF Bool
  <2>3. PICK f3 \in {0, 1} : Bool(y.ext = s.ext, 4) = 4 * f3 /\ Bool(y.ext = s.ext, 10) = 10 * f3
    BY DEF Bool
  <2>4. PICK f4 \in {0, 1} : Bool(Qualified(c, y), 5) = 5 * f4 /\ Bool(Qualified(c, y), 15) = 15 * f4
    BY DEF Bool
  <2>5. Bool(y.at, 3) = 0
    BY DEF Bool
  <2>6. Score(c, s, y) = 100 * f1 + 20 * f2 + 10 * f3 + 15 * f4
    BY <2>1, <2>2, <2>3, <2>4 DEF Score
  <2>8. Sum(y) = 58 + 18 * f1 + 7 * f2 + 4 * f3 + 0 + k + 5 * f4 + (IF TRUE THEN 8 ELSE -10)
    <3> HIDE DEF Sum
    <3>1. Sum(y) = 58 + Bool(y.file = s.file, 18) + Bool(y.dir = s.dir, 7) + Bool(y.ext = s.ext, 4) + Bool(y.at, 3)
             + Bool(c.scope # "", 8) + Bool(Qualified(c, y), 5) + (IF TRUE THEN 8 ELSE -10)
      BY Zenon DEF Sum
    <3> QED BY <1>2, <2>1, <2>2, <2>3, <2>4, <2>5, <3>1, Zenon
  <2> HIDE DEF Sum
  <2>7. Sum(y) = 58 + 18 * f1 + 7 * f2 + 4 * f3 + k + 5 * f4 + 8
    BY <2>8, f1 \in {0, 1}, f2 \in {0, 1}, f3 \in {0, 1}, f4 \in {0, 1}, k \in {0, 8}
  <2> QED BY <2>6, <2>7
<1> HIDE DEF Sum
<1>4. Sum(x) \in Int /\ Sum(d) \in Int /\ Sum(x) <= Sum(d)
  <2>1. PICK f1, f2, f3, f4 \in {0, 1} : 
        Score(c, s, x) = 100 * f1 + 20 * f2 + 10 * f3 + 15 * f4 /\ Sum(x) = 58 + 18 * f1 + 7 * f2 + 4 * f3 + k + 5 * f4 + 8
    BY <1>3
  <2>2. PICK g1, g2, g3, g4 \in {0, 1} : 
        Score(c, s, d) = 100 * g1 + 20 * g2 + 10 * g3 + 15 * g4 /\ Sum(d) = 58 + 18 * g1 + 7 * g2 + 4 * g3 + k + 5 * g4 + 8
    BY <1>3
  <2>3. 100 * f1 + 20 * f2 + 10 * f3 + 15 * f4 <= 100 * g1 + 20 * g2 + 10 * g3 + 15 * g4
    BY <1>1, <2>1, <2>2
  <2>4. 18 * f1 + 7 * f2 + 4 * f3 + 5 * f4 <= 18 * g1 + 7 * g2 + 4 * g3 + 5 * g4
    BY ONLY <2>3, f1 \in {0, 1}, f2 \in {0, 1}, f3 \in {0, 1}, f4 \in {0, 1}, g1 \in {0, 1}, g2 \in {0, 1}, g3 \in {0, 1}, g4 \in {0, 1}
  <2> QED BY <2>1, <2>2, <2>4
<1>5. \A n \in Int : Max({35, n}) = IF n > 35 THEN n ELSE 35
  BY DEF Max
<1>6. \A n \in Int : Min({92, n}) = IF n < 92 THEN n ELSE 92
  BY DEF Min
<1>7. \A y \in {x, d} : CallConfidence(c, s, y, TRUE) = Min({92, Max({35, Sum(y)})})
  BY DEF CallConfidence, Sum
<1>15. \A n \in Int : Min({92, Max({35, n})}) = IF n < 35 THEN 35 ELSE IF n > 92 THEN 92 ELSE n
  <2> SUFFICES ASSUME NEW n \in Int PROVE Min({92, Max({35, n})}) = IF n < 35 THEN 35 ELSE IF n > 92 THEN 92 ELSE n
    OBVIOUS
  <2>1. PICK m \in Int : m = Max({35, n}) /\ m = IF n > 35 THEN n ELSE 35
    BY <1>5
  <2>2. Min({92, m}) = IF m < 92 THEN m ELSE 92
    BY <1>6
  <2> QED BY <2>1, <2>2
<1>8. PICK p \in Int : p = Sum(x)
  BY <1>4
<1>9. PICK q \in Int : q = Sum(d)
  BY <1>4
<1>10. CallConfidence(c, s, x, TRUE) = IF p < 35 THEN 35 ELSE IF p > 92 THEN 92 ELSE p
  BY <1>15, <1>7, <1>8
<1>11. CallConfidence(c, s, d, TRUE) = IF q < 35 THEN 35 ELSE IF q > 92 THEN 92 ELSE q
  BY <1>15, <1>7, <1>9
<1>12. p <= q
  BY <1>4, <1>8, <1>9
<1> DEFINE Capped(n) == IF n < 35 THEN 35 ELSE IF n > 92 THEN 92 ELSE n
<1>13. Capped(p) <= Capped(q)
  BY <1>12
<1>14. CallConfidence(c, s, x, TRUE) = Capped(p) /\ CallConfidence(c, s, d, TRUE) = Capped(q)
  BY <1>10, <1>11
<1> HIDE DEF Capped
<1> QED BY <1>13, <1>14, Zenon
-----------------------------------------------------------------------------
(* Graph: the levels of a search.  G is the graph in the direction of the   *)
(* search.                                                                  *)

Onward(G, N) == {m \in GraphNodes : \E x \in N : <<x, m>> \in G}
Sooner(f, k) == UNION {f[j] : j \in 0..k - 1}
LevelAt(E, n, dir, f, k) == IF k = 0 THEN {n} ELSE NextTo(E, dir, f[k - 1]) \ UNION {f[j] : j \in 0..k - 1}
IsLevels(E, n, dir, d, f) == f = [k \in 0..d |-> LevelAt(E, n, dir, f, k)]

LEMMA LevelsExist == ASSUME NEW E, NEW n, NEW dir, NEW d \in Nat PROVE \E f : IsLevels(E, n, dir, d, f)
<1> DEFINE Bad == {m \in Nat : ~\E f : IsLevels(E, n, dir, m, f)}
<1> SUFFICES ASSUME Bad # {} PROVE FALSE
  OBVIOUS
<1>1. PICK m \in Bad : \A j \in Bad : m <= j
  <2>1. Bad \in SUBSET Nat
    OBVIOUS
  <2> HIDE DEF Bad
  <2> QED BY <2>1, LeastNumber
<1>2. m \in Nat /\ ~\E f : IsLevels(E, n, dir, m, f)
  OBVIOUS
<1>3. CASE m = 0
  <2> DEFINE f == [k \in 0..0 |-> {n}]
  <2>1. \A k \in 0..0 : LevelAt(E, n, dir, f, k) = {n}
    BY DEF LevelAt
  <2>2. f = [k \in 0..0 |-> LevelAt(E, n, dir, f, k)]
    BY <2>1
  <2> QED BY <1>2, <1>3, <2>2 DEF IsLevels
<1>4. CASE m # 0
  <2>1. m - 1 \in Nat /\ ~(m <= m - 1)
    BY <1>2, <1>4
  <2>2. PICK f : IsLevels(E, n, dir, m - 1, f)
    BY <1>1, <2>1
  <2> DEFINE g == [k \in 0..m |-> LevelAt(E, n, dir, f, k)]
  <2>3. \A k \in 0..m : g[k] = LevelAt(E, n, dir, f, k)
    OBVIOUS
  <2>4. \A k \in 0..m - 1 : f[k] = g[k]
    <3>1. \A k \in 0..m - 1 : f[k] = LevelAt(E, n, dir, f, k) /\ k \in 0..m
      BY <1>2, <2>1, <2>2 DEF IsLevels
    <3> QED BY <2>3, <3>1
  <2>5. ASSUME NEW k \in 0..m PROVE LevelAt(E, n, dir, f, k) = LevelAt(E, n, dir, g, k)
    <3> HIDE DEF g
    <3>1. CASE k = 0
      BY <3>1 DEF LevelAt
    <3>2. CASE k # 0
      <4>1. k - 1 \in 0..m - 1 /\ \A j \in 0..k - 1 : j \in 0..m - 1
        BY <1>2, <2>1, <3>2
      <4>2. f[k - 1] = g[k - 1] /\ {f[j] : j \in 0..k - 1} = {g[j] : j \in 0..k - 1}
        BY <2>4, <4>1
      <4> QED BY <3>2, <4>2 DEF LevelAt
    <3> QED BY <3>1, <3>2
  <2>6. g = [k \in 0..m |-> LevelAt(E, n, dir, g, k)]
    BY <2>5
  <2> QED BY <1>2, <2>6 DEF IsLevels
<1> QED BY <1>3, <1>4

LEMMA LevelsAre == ASSUME NEW E, NEW n, NEW dir, NEW d \in Nat PROVE IsLevels(E, n, dir, d, Levels(E, n, dir, d))
<1> DEFINE lv == CHOOSE f : f = [k \in 0..d |-> LevelAt(E, n, dir, f, k)]
<1>1. lv = [k \in 0..d |-> LevelAt(E, n, dir, lv, k)]
  BY LevelsExist DEF IsLevels
<1>2. Levels(E, n, dir, d) = lv
  BY DEF Levels, LevelAt
<1> HIDE DEF lv
<1> QED BY <1>1, <1>2 DEF IsLevels

\* The graph that a search goes along: arcs of G are those of E, turned if the search goes up.
Along(E, dir, G) == \A x, y : <<x, y>> \in G <=> IF dir = "up" THEN <<y, x>> \in E ELSE <<x, y>> \in E
LEMMA TurnedAlong == ASSUME NEW E, NEW dir, dir = "up" => E \subseteq Pairs PROVE Along(E, dir, Turned(E, dir))
<1>1. CASE dir = "up"
  <2>1. ASSUME NEW x, NEW y PROVE <<x, y>> \in Turned(E, dir) <=> <<y, x>> \in E
    <3>1. \A e \in E : e = <<e[1], e[2]>>
      BY <1>1 DEF Pairs
    <3>2. <<x, y>> \in Turned(E, dir) <=> \E e \in E : <<x, y>> = <<e[2], e[1]>>
      BY <1>1 DEF Turned
    <3>3. ASSUME NEW e \in E, <<x, y>> = <<e[2], e[1]>> PROVE <<y, x>> \in E
      BY <3>1, <3>3
    <3>4. ASSUME <<y, x>> \in E PROVE \E e \in E : <<x, y>> = <<e[2], e[1]>>
      <4>1. <<x, y>> = <<(<<y, x>>)[2], (<<y, x>>)[1]>>
        OBVIOUS
      <4> QED BY <3>4, <4>1
    <3> QED BY <3>2, <3>3, <3>4
  <2> QED BY <1>1, <2>1 DEF Along
<1>2. CASE dir # "up"
  BY <1>2 DEF Along, Turned
<1> QED BY <1>1, <1>2

LEMMA NextIsOnward == ASSUME NEW E, NEW dir, NEW G, Along(E, dir, G), NEW N PROVE NextTo(E, dir, N) = Onward(G, N)
<1> DEFINE Near(x) == IF dir = "up" THEN Callers(E, x) ELSE Callees(E, x)
<1>1. \A x, m : m \in Near(x) <=> m \in GraphNodes /\ <<x, m>> \in G
  BY DEF Callers, Callees, Along
<1>2. NextTo(E, dir, N) = UNION {Near(x) : x \in N}
  BY DEF NextTo
<1> HIDE DEF Near
<1>3. \A m : m \in UNION {Near(x) : x \in N} <=> \E x \in N : m \in Near(x)
  OBVIOUS
<1>4. \A m : m \in Onward(G, N) <=> m \in GraphNodes /\ \E x \in N : <<x, m>> \in G
  BY DEF Onward
<1> QED BY <1>1, <1>2, <1>3, <1>4

\* What the levels of a search are, by the graph that it goes along.
LEMMA LevelsBy ==
  ASSUME NEW E, NEW dir, NEW G, Along(E, dir, G), NEW n, NEW d \in Nat, NEW lv, lv = Levels(E, n, dir, d)
  PROVE  /\ DOMAIN lv = 0..d /\ lv[0] = {n}
         /\ \A k \in 0..d : k # 0 => lv[k] = Onward(G, lv[k - 1]) \ Sooner(lv, k)
<1>1. lv = [k \in 0..d |-> LevelAt(E, n, dir, lv, k)]
  BY LevelsAre DEF IsLevels
<1>2. \A k \in 0..d : lv[k] = LevelAt(E, n, dir, lv, k)
  BY <1>1
<1>3. \A k : k # 0 => LevelAt(E, n, dir, lv, k) = Onward(G, lv[k - 1]) \ Sooner(lv, k)
  BY NextIsOnward DEF LevelAt, Sooner
<1>4. LevelAt(E, n, dir, lv, 0) = {n} /\ 0 \in 0..d
  BY DEF LevelAt
<1> QED BY <1>1, <1>2, <1>3, <1>4

LEMMA WalksStart == ASSUME NEW G, NEW n \in GraphNodes PROVE Walks(G, n, 0) = {n}
<1>1. \A w : w[0] = n /\ w[0] \in GraphNodes => n \in GraphNodes
  OBVIOUS
<1>2. ASSUME NEW m \in Walks(G, n, 0) PROVE m = n
  BY DEF Walks
<1>3. n \in Walks(G, n, 0)
  <2> DEFINE w == [k \in 0..0 |-> n]
  <2>1. w \in [0..0 -> GraphNodes] /\ w[0] = n /\ \A k \in 1..0 : <<w[k - 1], w[k]>> \in G
    OBVIOUS
  <2> QED BY <2>1 DEF Walks
<1> QED BY <1>2, <1>3

LEMMA WalksGoOn == ASSUME NEW G, NEW n, NEW k \in Nat PROVE Walks(G, n, k + 1) = Onward(G, Walks(G, n, k))
<1>1. ASSUME NEW m \in Walks(G, n, k + 1) PROVE m \in Onward(G, Walks(G, n, k))
  <2>1. PICK w \in [0..k + 1 -> GraphNodes] : w[0] = n /\ w[k + 1] = m /\ \A i \in 1..k + 1 : <<w[i - 1], w[i]>> \in G
    BY DEF Walks
  <2>2. m \in GraphNodes
    BY DEF Walks
  <2> DEFINE v == [i \in 0..k |-> w[i]]
  <2>3. v \in [0..k -> GraphNodes] /\ \A i \in 0..k : v[i] = w[i]
    OBVIOUS
  <2> HIDE DEF v
  <2>4. v[0] = n /\ v[k] = w[k] /\ w[k] \in GraphNodes
    BY <2>1, <2>3
  <2>5. \A i \in 1..k : <<v[i - 1], v[i]>> \in G
    <3>1. \A i \in 1..k : i - 1 \in 0..k /\ i \in 0..k /\ i \in 1..k + 1
      OBVIOUS
    <3> QED BY <2>1, <2>3, <3>1
  <2>6. w[k] \in Walks(G, n, k)
    BY <2>3, <2>4, <2>5 DEF Walks
  <2>7. <<w[k], m>> \in G
    <3>1. k + 1 \in 1..k + 1 /\ (k + 1) - 1 = k
      OBVIOUS
    <3> QED BY <2>1, <3>1
  <2> QED BY <2>2, <2>6, <2>7 DEF Onward
<1>2. ASSUME NEW m \in Onward(G, Walks(G, n, k)) PROVE m \in Walks(G, n, k + 1)
  <2>1. PICK x \in Walks(G, n, k) : <<x, m>> \in G /\ m \in GraphNodes
    BY DEF Onward
  <2>2. PICK w \in [0..k -> GraphNodes] : w[0] = n /\ w[k] = x /\ \A i \in 1..k : <<w[i - 1], w[i]>> \in G
    BY DEF Walks
  <2> DEFINE v == [i \in 0..k + 1 |-> IF i = k + 1 THEN m ELSE w[i]]
  <2>3. v \in [0..k + 1 -> GraphNodes]
    BY <2>1
  <2>4. v[k + 1] = m /\ \A i \in 0..k : v[i] = w[i]
    OBVIOUS
  <2> HIDE DEF v
  <2>5. \A i \in 1..k + 1 : <<v[i - 1], v[i]>> \in G
    <3> SUFFICES ASSUME NEW i \in 1..k + 1 PROVE <<v[i - 1], v[i]>> \in G
      OBVIOUS
    <3>1. CASE i = k + 1
      <4>1. i - 1 = k /\ k \in 0..k
        BY <3>1
      <4> QED BY <2>1, <2>2, <2>4, <3>1, <4>1
    <3>2. CASE i # k + 1
      <4>1. i - 1 \in 0..k /\ i \in 0..k /\ i \in 1..k
        BY <3>2
      <4> QED BY <2>2, <2>4, <4>1
    <3> QED BY <3>1, <3>2
  <2>6. v[0] = n
    BY <2>2, <2>4
  <2> QED BY <2>1, <2>3, <2>4, <2>5, <2>6 DEF Walks
<1> QED BY <1>1, <1>2

Nearer(G, n, k) == UNION {Walks(G, n, i) : i \in 0..k - 1}
AtLevel(G, n, k) == Walks(G, n, k) \ Nearer(G, n, k)

LEMMA Nearest ==
  ASSUME NEW G, NEW n, NEW i \in Nat, NEW m \in Walks(G, n, i) PROVE \E j \in 0..i : m \in AtLevel(G, n, j)
<1> DEFINE S == {j \in Nat : m \in Walks(G, n, j)}
<1>1. S \in SUBSET Nat /\ i \in S
  OBVIOUS
<1>2. PICK j \in S : \A l \in S : j <= l
  <2> HIDE DEF S
  <2> QED BY <1>1, LeastNumber
<1>3. j \in 0..i /\ j \in Nat /\ m \in Walks(G, n, j)
  BY <1>1, <1>2
<1>4. ASSUME NEW l \in 0..j - 1, m \in Walks(G, n, l) PROVE FALSE
  <2>1. l \in Nat /\ ~(j <= l)
    BY <1>3
  <2> QED BY <1>2, <1>4, <2>1
<1>5. m \notin Nearer(G, n, j)
  BY <1>4 DEF Nearer
<1> QED BY <1>3, <1>5 DEF AtLevel

\* A level holds what is that far away and no nearer.
LEMMA LevelsHold ==
  ASSUME NEW E, NEW dir, NEW G, Along(E, dir, G), NEW n \in GraphNodes, NEW d \in Nat, NEW lv, lv = Levels(E, n, dir, d)
  PROVE  \A k \in 0..d : lv[k] = AtLevel(G, n, k)
<1>1. /\ lv[0] = {n}
      /\ \A k \in 0..d : k # 0 => lv[k] = Onward(G, lv[k - 1]) \ Sooner(lv, k)
  BY LevelsBy
<1> DEFINE Bad == {k \in Nat : k \in 0..d /\ lv[k] # AtLevel(G, n, k)}
<1> SUFFICES ASSUME Bad # {} PROVE FALSE
  OBVIOUS
<1>2. PICK k \in Bad : \A j \in Bad : k <= j
  <2>1. Bad \in SUBSET Nat
    OBVIOUS
  <2> HIDE DEF Bad
  <2> QED BY <2>1, LeastNumber
<1>3. k \in Nat /\ k \in 0..d /\ lv[k] # AtLevel(G, n, k)
  OBVIOUS
<1>4. \A j \in 0..k - 1 : lv[j] = AtLevel(G, n, j)
  <2>1. \A j \in 0..k - 1 : j \in Nat /\ j \in 0..d /\ ~(k <= j)
    BY <1>3
  <2> QED BY <1>2, <2>1
<1> HIDE DEF Bad
<1>5. Sooner(lv, k) = Nearer(G, n, k)
  <2>1. ASSUME NEW m \in Sooner(lv, k) PROVE m \in Nearer(G, n, k)
    BY <1>4 DEF Sooner, Nearer, AtLevel
  <2>2. ASSUME NEW m \in Nearer(G, n, k) PROVE m \in Sooner(lv, k)
    <3>1. PICK i \in 0..k - 1 : m \in Walks(G, n, i)
      BY DEF Nearer
    <3>2. PICK j \in 0..i : m \in AtLevel(G, n, j)
      BY <3>1, Nearest
    <3>3. j \in 0..k - 1
      BY <1>3
    <3> QED BY <1>4, <3>2, <3>3 DEF Sooner
  <2> QED BY <2>1, <2>2
<1>6. CASE k = 0
  <2>1. Walks(G, n, 0) = {n} /\ Nearer(G, n, 0) = {}
    BY WalksStart DEF Nearer
  <2> QED BY <1>1, <1>3, <1>6, <2>1 DEF AtLevel
<1>7. CASE k # 0
  <2>1. k - 1 \in Nat /\ k - 1 \in 0..k - 1 /\ (k - 1) + 1 = k
    BY <1>3, <1>7
  <2>2. lv[k] = Onward(G, AtLevel(G, n, k - 1)) \ Nearer(G, n, k)
    BY <1>1, <1>3, <1>4, <1>5, <1>7, <2>1
  <2>3. Walks(G, n, k) = Onward(G, Walks(G, n, k - 1))
    BY <2>1, WalksGoOn
  <2>4. \A m \in lv[k] : m \in AtLevel(G, n, k)
    BY <2>2, <2>3 DEF Onward, AtLevel
  <2>5. ASSUME NEW m \in AtLevel(G, n, k) PROVE m \in lv[k]
    <3>1. m \in GraphNodes /\ m \notin Nearer(G, n, k)
      BY DEF AtLevel, Walks
    <3>2. PICK x \in Walks(G, n, k - 1) : <<x, m>> \in G
      BY <2>3 DEF AtLevel, Onward
    <3>3. x \notin Nearer(G, n, k - 1)
      <4> SUFFICES ASSUME NEW i \in 0..(k - 1) - 1, x \in Walks(G, n, i) PROVE FALSE
        BY DEF Nearer
      <4>1. i \in Nat /\ i + 1 \in 0..k - 1
        BY <2>1
      <4>2. m \in Walks(G, n, i + 1)
        BY <3>1, <3>2, <4>1, WalksGoOn DEF Onward
      <4> QED BY <3>1, <4>1, <4>2 DEF Nearer
    <3>4. x \in AtLevel(G, n, k - 1)
      BY <3>2, <3>3 DEF AtLevel
    <3> QED BY <2>2, <3>1, <3>2, <3>4 DEF Onward
  <2> QED BY <1>3, <2>4, <2>5
<1> QED BY <1>6, <1>7

\* After an empty level there is no other.
LEMMA EmptyStays ==
  ASSUME NEW E, NEW dir, NEW G, Along(E, dir, G), NEW n, NEW d \in Nat, NEW lv, lv = Levels(E, n, dir, d),
         NEW a \in 0..d, lv[a] = {}
  PROVE  \A b \in a..d : lv[b] = {}
<1> DEFINE Bad == {b \in Nat : b \in a..d /\ lv[b] # {}}
<1> SUFFICES ASSUME Bad # {} PROVE FALSE
  OBVIOUS
<1>1. PICK b \in Bad : \A j \in Bad : b <= j
  <2>1. Bad \in SUBSET Nat
    OBVIOUS
  <2> HIDE DEF Bad
  <2> QED BY <2>1, LeastNumber
<1>2. b \in Nat /\ b \in a..d /\ lv[b] # {}
  OBVIOUS
<1>3. b # a
  BY <1>2
<1>4. b - 1 \in Nat /\ b - 1 \in a..d /\ ~(b <= b - 1) /\ b \in 0..d /\ b # 0
  BY <1>2, <1>3
<1>5. lv[b - 1] = {}
  BY <1>1, <1>4
<1>6. lv[b] = Onward(G, lv[b - 1]) \ Sooner(lv, b)
  BY <1>4, LevelsBy
<1> QED BY <1>2, <1>5, <1>6 DEF Onward

\* A set of numbers that holds every number below one of its own counts as far as it goes.
LEMMA PrefixCounts ==
  ASSUME NEW d \in Nat, NEW S \in SUBSET (1..d), \A k \in S : \A j \in 1..k : j \in S
  PROVE  Cardinality(S) \in 0..d /\ \A k \in 1..d : k \in S <=> k <= Cardinality(S)
<1>1. CASE S = 1..d
  <2>1. Cardinality(1..d) = d
    BY FS_Interval
  <2> QED BY <1>1, <2>1
<1>2. CASE S # 1..d
  <2> DEFINE T == (1..d) \ S
  <2>1. T \in SUBSET Nat /\ T # {}
    <3>1. S \subseteq 1..d
      OBVIOUS
    <3>2. \E k \in 1..d : k \notin S
      BY <1>2, <3>1, Zenon
    <3>3. T \subseteq 1..d /\ 1..d \subseteq Nat
      OBVIOUS
    <3>4. T # {}
      BY <3>2
    <3> HIDE DEF T
    <3> QED BY <3>3, <3>4
  <2>2. PICK i \in T : \A j \in T : i <= j
    <3> HIDE DEF T
    <3> QED BY <2>1, LeastNumber
  <2>3. i \in 1..d /\ i \notin S
    OBVIOUS
  <2>4. \A j \in 1..d : j < i => j \in S
    BY <2>2
  <2>5. \A j \in S : j < i
    <3> SUFFICES ASSUME NEW j \in S, ~(j < i) PROVE FALSE
      OBVIOUS
    <3>1. i \in 1..j
      BY <2>3
    <3> QED BY <2>3, <3>1
  <2>6. S = 1..(i - 1)
    <3>1. \A j \in S : j \in 1..(i - 1)
      BY <2>3, <2>5
    <3>2. \A j \in 1..(i - 1) : j \in S
      BY <2>3, <2>4
    <3> QED BY <3>1, <3>2
  <2>7. i - 1 \in Int /\ 1 \in Int /\ i - 1 >= 0
    BY <2>3
  <2>8. Cardinality(1..(i - 1)) = IF 1 > i - 1 THEN 0 ELSE (i - 1) - 1 + 1
    BY <2>7, FS_Interval
  <2>9. Cardinality(S) = i - 1
    BY <2>6, <2>7, <2>8
  <2> QED BY <2>3, <2>6, <2>9
<1> QED BY <1>1, <1>2

\* bfs_levels: the levels up to the last that is not empty, or one further.
LEMMA BfsIs ==
  ASSUME NEW E, NEW dir, NEW G, Along(E, dir, G), NEW n \in GraphNodes, NEW d \in Nat
  PROVE  /\ \A k \in DOMAIN BfsLevels(E, n, dir, d) : k \in 1..d /\ BfsLevels(E, n, dir, d)[k] = AtLevel(G, n, k)
         /\ \A k \in 1..d : AtLevel(G, n, k) # {} => k \in DOMAIN BfsLevels(E, n, dir, d)
<1> DEFINE lv == Levels(E, n, dir, d)
           S == {k \in 1..d : lv[k - 1] # {}}
           many == Cardinality(S)
<1>1. BfsLevels(E, n, dir, d) = [k \in 1..many |-> lv[k]]
  BY DEF BfsLevels
<1> HIDE DEF lv
<1>2. lv = Levels(E, n, dir, d)
  BY DEF lv
<1>3. \A k \in 0..d : lv[k] = AtLevel(G, n, k)
  BY <1>2, LevelsHold
<1>4. \A k \in S : \A j \in 1..k : j \in S
  <2> SUFFICES ASSUME NEW k \in S, NEW j \in 1..k, lv[j - 1] = {} PROVE FALSE
    OBVIOUS
  <2>1. k \in 1..d /\ lv[k - 1] # {} /\ j - 1 \in 0..d /\ k - 1 \in (j - 1)..d
    OBVIOUS
  <2> QED BY <1>2, <2>1, EmptyStays
<1>5. S \in SUBSET (1..d)
  OBVIOUS
<1>6. many \in 0..d /\ \A k \in 1..d : k \in S <=> k <= many
  <2> HIDE DEF S
  <2> QED BY <1>4, <1>5, PrefixCounts
<1>7. ASSUME NEW k \in 1..d, AtLevel(G, n, k) # {} PROVE k \in 1..many
  <2>1. k - 1 \in 0..d /\ k \in (k - 1)..d /\ k \in 0..d
    OBVIOUS
  <2>2. lv[k] # {}
    BY <1>3, <1>7, <2>1
  <2>3. lv[k - 1] # {}
    BY <1>2, <2>1, <2>2, EmptyStays
  <2>4. k \in S
    BY <2>3
  <2> HIDE DEF S
  <2> QED BY <1>6, <2>4
<1> HIDE DEF S, many
<1>8. ASSUME NEW k \in 1..many PROVE k \in 1..d /\ lv[k] = AtLevel(G, n, k)
  BY <1>3, <1>6
<1> QED BY <1>1, <1>7, <1>8

Within(G, n, d) == UNION {Walks(G, n, i) : i \in 0..d}
\* What a search finds is what is within its depth.
LEMMA BfsCovers ==
  ASSUME NEW E, NEW dir, NEW G, Along(E, dir, G), NEW n \in GraphNodes, NEW d \in Nat
  PROVE  {n} \cup (UNION In(BfsLevels(E, n, dir, d))) = Within(G, n, d)
<1> DEFINE lv == BfsLevels(E, n, dir, d)
<1>1. /\ \A k \in DOMAIN lv : k \in 1..d /\ lv[k] = AtLevel(G, n, k)
      /\ \A k \in 1..d : AtLevel(G, n, k) # {} => k \in DOMAIN lv
  BY BfsIs
<1> HIDE DEF lv
<1>2. Walks(G, n, 0) = {n}
  BY WalksStart
<1>3. ASSUME NEW m \in {n} \cup (UNION In(lv)) PROVE m \in Within(G, n, d)
  <2>1. CASE m = n
    <3>1. 0 \in 0..d
      OBVIOUS
    <3> QED BY <1>2, <2>1, <3>1 DEF Within
  <2>2. CASE m # n
    <3>1. PICK k \in DOMAIN lv : m \in lv[k]
      BY <2>2 DEF In
    <3>2. k \in 0..d /\ m \in Walks(G, n, k)
      BY <1>1, <3>1 DEF AtLevel
    <3> QED BY <3>2 DEF Within
  <2> QED BY <2>1, <2>2
<1>4. ASSUME NEW m \in Within(G, n, d) PROVE m \in {n} \cup (UNION In(lv))
  <2>1. PICK i \in 0..d : m \in Walks(G, n, i)
    BY DEF Within
  <2>2. PICK j \in 0..i : m \in AtLevel(G, n, j)
    BY <2>1, Nearest
  <2>3. CASE j = 0
    BY <1>2, <2>2, <2>3 DEF AtLevel
  <2>4. CASE j # 0
    <3>1. j \in 1..d
      BY <2>4
    <3>2. j \in DOMAIN lv /\ m \in lv[j]
      BY <1>1, <2>2, <3>1
    <3> QED BY <3>2 DEF In
  <2> QED BY <2>3, <2>4
<1> QED BY <1>3, <1>4 DEF lv

\* What is shown of a graph around a root keeps every walk within its depth.
LEMMA ShownWalks ==
  ASSUME NEW G, NEW n \in GraphNodes, NEW d \in Nat, NEW H,
         \A x, y : <<x, y>> \in H <=> <<x, y>> \in G /\ x \in Within(G, n, d) /\ y \in Within(G, n, d)
  PROVE  Within(H, n, d) = Within(G, n, d)
<1> DEFINE Bad == {i \in Nat : i \in 0..d /\ Walks(H, n, i) # Walks(G, n, i)}
<1>1. Bad = {}
  <2> SUFFICES ASSUME Bad # {} PROVE FALSE
    OBVIOUS
  <2>1. PICK i \in Bad : \A j \in Bad : i <= j
    <3>1. Bad \in SUBSET Nat
      OBVIOUS
    <3> HIDE DEF Bad
    <3> QED BY <3>1, LeastNumber
  <2>2. i \in Nat /\ i \in 0..d /\ Walks(H, n, i) # Walks(G, n, i)
    OBVIOUS
  <2>3. i # 0
    BY <2>2, WalksStart
  <2>4. i - 1 \in Nat /\ i - 1 \in 0..d /\ ~(i <= i - 1) /\ (i - 1) + 1 = i
    BY <2>2, <2>3
  <2>5. Walks(H, n, i - 1) = Walks(G, n, i - 1)
    BY <2>1, <2>4
  <2> HIDE DEF Bad
  <2>6. Walks(H, n, i) = Onward(H, Walks(G, n, i - 1)) /\ Walks(G, n, i) = Onward(G, Walks(G, n, i - 1))
    BY <2>4, <2>5, WalksGoOn
  <2>7. \A x \in Walks(G, n, i - 1) : x \in Within(G, n, d)
    BY <2>4 DEF Within
  <2>8. \A x \in Walks(G, n, i) : x \in Within(G, n, d)
    BY <2>2 DEF Within
  <2>9. \A m \in Walks(H, n, i) : m \in Walks(G, n, i)
    BY <2>6 DEF Onward
  <2>10. \A m \in Walks(G, n, i) : m \in Walks(H, n, i)
    <3> SUFFICES ASSUME NEW m \in Walks(G, n, i) PROVE m \in Walks(H, n, i)
      OBVIOUS
    <3>1. PICK x \in Walks(G, n, i - 1) : <<x, m>> \in G /\ m \in GraphNodes
      BY <2>6 DEF Onward
    <3>2. <<x, m>> \in H
      BY <2>7, <2>8, <3>1
    <3> QED BY <2>6, <3>1, <3>2 DEF Onward
  <2> QED BY <2>2, <2>9, <2>10
<1>2. \A i \in 0..d : Walks(H, n, i) = Walks(G, n, i)
  BY <1>1
<1> HIDE DEF Bad
<1> QED BY <1>2 DEF Within

LEMMA NoDepth == ASSUME NEW E, NEW dir, NEW n \in GraphNodes PROVE In(BfsLevels(E, n, dir, 0)) = {}
<1> DEFINE many == Cardinality({k \in 1..0 : Levels(E, n, dir, 0)[k - 1] # {}})
<1>1. {k \in 1..0 : Levels(E, n, dir, 0)[k - 1] # {}} = {}
  OBVIOUS
<1>2. many = 0
  BY <1>1, FS_EmptySet
<1>3. BfsLevels(E, n, dir, 0) = [k \in 1..many |-> Levels(E, n, dir, 0)[k]]
  BY DEF BfsLevels
<1> HIDE DEF many
<1>4. DOMAIN BfsLevels(E, n, dir, 0) = {}
  BY <1>2, <1>3
<1> QED BY <1>4 DEF In

LEMMA DistancesAt ==
  ASSUME NEW E \in SUBSET {p \in Pairs : p[1] # p[2]}, NEW n \in GraphNodes, NEW dir \in {"up", "down"}, NEW d \in Depths
  PROVE  LET lv == BfsLevels(E, n, dir, d)
             G == Turned(E, dir)
             shown == EdgesInClosure(E, {n}, IF dir = "up" THEN d ELSE 0, IF dir = "up" THEN 0 ELSE d)
         IN  /\ {n} \cup (UNION In(lv)) = Within(G, n, d)
             /\ \A k \in DOMAIN lv : lv[k] = AtLevel(G, n, k)
             /\ Within(G, n, d) = Within(Turned(shown, dir), n, d)
<1> DEFINE lv == BfsLevels(E, n, dir, d)
           G == Turned(E, dir)
           near == Within(G, n, d)
           shown == EdgesInClosure(E, {n}, IF dir = "up" THEN d ELSE 0, IF dir = "up" THEN 0 ELSE d)
<1> SUFFICES /\ {n} \cup (UNION In(lv)) = near
             /\ \A k \in DOMAIN lv : lv[k] = AtLevel(G, n, k)
             /\ near = Within(Turned(shown, dir), n, d)
  BY Zenon
<1>0. lv = BfsLevels(E, n, dir, d) /\ G = Turned(E, dir) /\ near = Within(G, n, d)
      /\ shown = EdgesInClosure(E, {n}, IF dir = "up" THEN d ELSE 0, IF dir = "up" THEN 0 ELSE d)
  BY Zenon
<1> HIDE DEF lv, G, near, shown
<1>1. d \in Nat
  BY GraphAssumption
<1>2. E \subseteq Pairs /\ Along(E, dir, G)
  <2>1. E \subseteq Pairs
    OBVIOUS
  <2> QED BY <1>0, <2>1, TurnedAlong
<1>3. {n} \cup (UNION In(lv)) = near
  BY <1>0, <1>1, <1>2, BfsCovers
<1>4. \A k \in DOMAIN lv : lv[k] = AtLevel(G, n, k)
  BY <1>0, <1>1, <1>2, BfsIs
<1> DEFINE up == IF dir = "up" THEN d ELSE 0
           down == IF dir = "up" THEN 0 ELSE d
<1>5. Around(E, {n}, up, down) = near
  <2>1. Around(E, {n}, up, down) = {n} \cup (UNION (In(BfsLevels(E, n, "up", up)) \cup In(BfsLevels(E, n, "down", down))))
    <3>1. \A T : UNION {T} = T
      OBVIOUS
    <3> DEFINE Found(r) == UNION (In(BfsLevels(E, r, "up", up)) \cup In(BfsLevels(E, r, "down", down)))
    <3>2. Around(E, {n}, up, down) = {n} \cup (UNION {Found(r) : r \in {n}})
      BY DEF Around
    <3> HIDE DEF Found
    <3>3. {Found(r) : r \in {n}} = {Found(n)}
      OBVIOUS
    <3>4. Around(E, {n}, up, down) = {n} \cup Found(n)
      BY <3>1, <3>2, <3>3
    <3> QED BY <3>4 DEF Found
  <2>2. CASE dir = "up"
    <3>1. up = d /\ In(BfsLevels(E, n, "down", down)) = {}
      BY <2>2, NoDepth
    <3> HIDE DEF up, down
    <3> QED BY <1>0, <1>3, <2>1, <2>2, <3>1
  <2>3. CASE dir = "down"
    <3>1. down = d /\ In(BfsLevels(E, n, "up", up)) = {}
      BY <2>3, NoDepth
    <3> HIDE DEF up, down
    <3> QED BY <1>0, <1>3, <2>1, <2>3, <3>1
  <2> QED BY <2>2, <2>3
<1>6. shown = {e \in E : e[1] \in near /\ e[2] \in near}
  <2>1. shown = EdgesInClosure(E, {n}, up, down)
    BY <1>0
  <2> HIDE DEF up, down
  <2> QED BY <1>5, <2>1 DEF EdgesInClosure
<1> HIDE DEF up, down
<1>7. Along(shown, dir, Turned(shown, dir))
  <2>1. shown \subseteq Pairs
    BY <1>2, <1>6
  <2> QED BY <2>1, TurnedAlong
<1>8. \A x, y : <<x, y>> \in Turned(shown, dir) <=> <<x, y>> \in G /\ x \in near /\ y \in near
  <2> SUFFICES ASSUME NEW x, NEW y PROVE <<x, y>> \in Turned(shown, dir) <=> <<x, y>> \in G /\ x \in near /\ y \in near
    OBVIOUS
  <2>1. <<x, y>> \in shown <=> <<x, y>> \in E /\ x \in near /\ y \in near
    BY <1>6
  <2>2. <<y, x>> \in shown <=> <<y, x>> \in E /\ x \in near /\ y \in near
    BY <1>6
  <2> QED BY <1>2, <1>7, <2>1, <2>2 DEF Along
<1>9. near = Within(Turned(shown, dir), n, d)
  BY <1>0, <1>1, <1>8, ShownWalks
<1> QED BY <1>3, <1>4, <1>9

LEMMA DistancesHold == LevelsAreDistances
BY DistancesAt, Zenon DEF LevelsAreDistances, Within, AtLevel, Nearer

-----------------------------------------------------------------------------
(* Graph: cycles                                                           *)

LEMMA GoesDown == ASSUME NEW E PROVE Along(E, "down", E)
BY DEF Along

\* Nodes put in order along the edges: a walk goes up in it.
LEMMA WalksGoUp ==
  ASSUME NEW E, NEW r, \A a \in GraphNodes : r[a] \in Int, \A a, b \in GraphNodes : <<a, b>> \in E => r[a] < r[b],
         NEW n \in GraphNodes
  PROVE  \A k \in Nat : \A m \in Walks(E, n, k) : m \in GraphNodes /\ (k = 0 => m = n) /\ (k # 0 => r[n] < r[m])
<1> DEFINE Bad == {k \in Nat : \E m \in Walks(E, n, k) : ~(m \in GraphNodes /\ (k = 0 => m = n) /\ (k # 0 => r[n] < r[m]))}
<1> SUFFICES ASSUME Bad # {} PROVE FALSE
  OBVIOUS
<1>1. PICK k \in Bad : \A j \in Bad : k <= j
  <2>1. Bad \in SUBSET Nat
    OBVIOUS
  <2> HIDE DEF Bad
  <2> QED BY <2>1, LeastNumber
<1>2. PICK m \in Walks(E, n, k) : ~(m \in GraphNodes /\ (k = 0 => m = n) /\ (k # 0 => r[n] < r[m]))
  OBVIOUS
<1>3. k \in Nat
  OBVIOUS
<1>4. m \in GraphNodes
  BY DEF Walks
<1>5. k # 0
  BY <1>2, <1>4, WalksStart
<1>6. k - 1 \in Nat /\ ~(k <= k - 1) /\ (k - 1) + 1 = k
  BY <1>3, <1>5
<1>7. \A x \in Walks(E, n, k - 1) : x \in GraphNodes /\ (k - 1 = 0 => x = n) /\ (k - 1 # 0 => r[n] < r[x])
  BY <1>1, <1>6
<1> HIDE DEF Bad
<1>8. PICK x \in Walks(E, n, k - 1) : <<x, m>> \in E
  BY <1>6, WalksGoOn DEF Onward
<1>9. r[x] < r[m] /\ x \in GraphNodes /\ (x = n \/ r[n] < r[x])
  BY <1>4, <1>7, <1>8
<1>10. r[x] \in Int /\ r[m] \in Int /\ r[n] \in Int
  BY <1>4, <1>9
<1>11. r[n] < r[m]
  BY <1>9, <1>10
<1> QED BY <1>2, <1>4, <1>5, <1>11

Together(E, n) == {n} \cup {m \in Reaches(E, n) : n \in Reaches(E, m)}
LEMMA ReachesIs ==
  ASSUME NEW E, NEW n \in GraphNodes
  PROVE  /\ {n} \cup Reaches(E, n) = Within(E, n, Cardinality(GraphNodes))
         /\ \A m \in Reaches(E, n) : m \in GraphNodes /\ \E k \in Nat \ {0} : m \in Walks(E, n, k)
<1>1. Cardinality(GraphNodes) \in Nat
  BY GraphAssumption, FS_CardinalityType
<1>2. {n} \cup Reaches(E, n) = Within(E, n, Cardinality(GraphNodes))
  BY <1>1, BfsCovers, GoesDown DEF Reaches
<1>3. ASSUME NEW m \in Reaches(E, n) PROVE m \in GraphNodes /\ \E k \in Nat \ {0} : m \in Walks(E, n, k)
  <2> DEFINE lv == BfsLevels(E, n, "down", Cardinality(GraphNodes))
  <2>1. PICK k \in DOMAIN lv : m \in lv[k]
    BY DEF Reaches, In
  <2>2. k \in 1..Cardinality(GraphNodes) /\ lv[k] = AtLevel(E, n, k)
    BY <1>1, BfsIs, GoesDown
  <2> HIDE DEF lv
  <2>3. k \in Nat \ {0} /\ m \in Walks(E, n, k)
    BY <1>1, <2>1, <2>2 DEF AtLevel
  <2> QED BY <2>3 DEF Walks
<1> QED BY <1>2, <1>3

LEMMA CyclesAre == ASSUME NEW E PROVE FindCycles(E) = {} <=> \A n \in GraphNodes : ~(Cardinality(Together(E, n)) > 1)
BY DEF FindCycles, Together

\* Where the nodes can be put in order there is no cycle.
LEMMA OrderedNoCycles ==
  ASSUME NEW E, NEW r, \A a \in GraphNodes : r[a] \in Int, \A a, b \in GraphNodes : <<a, b>> \in E => r[a] < r[b]
  PROVE  FindCycles(E) = {}
<1> SUFFICES ASSUME NEW n \in GraphNodes PROVE ~(Cardinality(Together(E, n)) > 1)
  BY CyclesAre
<1>1. ASSUME NEW m \in Reaches(E, n), n \in Reaches(E, m) PROVE FALSE
  <2>1. PICK k \in Nat \ {0} : m \in GraphNodes /\ m \in Walks(E, n, k)
    BY ReachesIs
  <2>2. PICK l \in Nat \ {0} : n \in Walks(E, m, l)
    BY <1>1, <2>1, ReachesIs
  <2>3. r[n] < r[m]
    BY <2>1, WalksGoUp
  <2>4. r[m] < r[n]
    BY <2>1, <2>2, WalksGoUp
  <2>5. r[n] \in Int /\ r[m] \in Int
    BY <2>1
  <2> QED BY <2>3, <2>4, <2>5
<1>2. Together(E, n) = {n}
  BY <1>1 DEF Together
<1>3. Cardinality(Together(E, n)) = 1
  BY <1>2, FS_Singleton
<1> QED BY <1>3

\* No walk has to be longer than there are nodes: the levels up to where it ends are apart and not empty.
LEMMA FarEnough ==
  ASSUME NEW E, NEW n \in GraphNodes, NEW i \in Nat, NEW m \in Walks(E, n, i)
  PROVE  m \in Within(E, n, Cardinality(GraphNodes))
<1> DEFINE N == Cardinality(GraphNodes)
<1>1. N \in Nat
  BY GraphAssumption, FS_CardinalityType
<1>2. PICK j \in 0..i : m \in AtLevel(E, n, j)
  BY Nearest
<1>3. CASE j <= N
  <2>1. j \in 0..N
    BY <1>3
  <2> QED BY <1>2, <2>1 DEF Within, AtLevel
<1>4. CASE ~(j <= N)
  <2> HIDE DEF N
  <2> DEFINE lv == Levels(E, n, "down", j)
             f == [k \in 0..N |-> CHOOSE x \in AtLevel(E, n, k) : TRUE]
  <2>1. j \in Nat
    OBVIOUS
  <2>2. \A k \in 0..j : lv[k] = AtLevel(E, n, k)
    BY <2>1, GoesDown, LevelsHold
  <2>3. \A k \in 0..j : lv[k] # {}
    <3> SUFFICES ASSUME NEW k \in 0..j, lv[k] = {} PROVE FALSE
      OBVIOUS
    <3>1. j \in k..j /\ j \in 0..j
      OBVIOUS
    <3>2. lv[j] = {}
      BY <2>1, <3>1, GoesDown, EmptyStays
    <3> QED BY <1>2, <2>2, <3>1, <3>2
  <2> HIDE DEF lv
  <2>4. \A k \in 0..N : f[k] \in AtLevel(E, n, k)
    <3>1. \A k \in 0..N : k \in 0..j
      BY <1>1, <1>4
    <3>2. \A k \in 0..N : AtLevel(E, n, k) # {}
      BY <2>2, <2>3, <3>1
    <3> QED BY <3>2
  <2>5. f \in [0..N -> GraphNodes]
    BY <2>4 DEF AtLevel, Walks
  <2> HIDE DEF f
  <2>6. IsFiniteSet(0..N) /\ Cardinality(0..N) = N + 1
    BY <1>1, FS_Interval
  <2>7. N < Cardinality(0..N)
    BY <1>1, <2>6
  <2>8. PICK k \in 0..N, l \in 0..N : k # l /\ f[k] = f[l]
    BY <2>5, <2>6, <2>7, GraphAssumption, FS_PigeonHole DEF N
  <2>9. ASSUME NEW a \in 0..N, NEW b \in 0..N, a < b, f[a] = f[b] PROVE FALSE
    <3>1. f[b] \notin Nearer(E, n, b) /\ f[a] \in Walks(E, n, a)
      BY <2>4 DEF AtLevel
    <3>2. a \in 0..b - 1
      BY <1>1, <2>9
    <3> QED BY <2>9, <3>1, <3>2 DEF Nearer
  <2> QED BY <1>1, <2>8, <2>9
<1> QED BY <1>3, <1>4

\* Where from a node can be reached.
Ancestors(E, n) == {m \in GraphNodes : \E i \in Nat : n \in Walks(E, m, i)}

LEMMA AncestorsReach ==
  ASSUME NEW E, NEW n \in GraphNodes, NEW m \in Ancestors(E, n), m # n PROVE n \in Reaches(E, m)
<1>1. PICK i \in Nat : n \in Walks(E, m, i)
  BY DEF Ancestors
<1>2. m \in GraphNodes
  BY DEF Ancestors
<1>3. n \in Within(E, m, Cardinality(GraphNodes))
  BY <1>1, <1>2, FarEnough
<1> QED BY <1>2, <1>3, ReachesIs

LEMMA CyclesAreLoops == CyclesFindLoops
<1> SUFFICES ASSUME NEW E \in SUBSET {p \in Pairs : p[1] # p[2]}
             PROVE  (FindCycles(E) = {}) <=> \E r \in [GraphNodes -> 1..Cardinality(GraphNodes)] : \A e \in E : r[e[1]] < r[e[2]]
  BY DEF CyclesFindLoops
<1>1. IsFiniteSet(GraphNodes) /\ Cardinality(GraphNodes) \in Nat
  BY GraphAssumption, FS_CardinalityType
<1>2. ASSUME NEW r \in [GraphNodes -> 1..Cardinality(GraphNodes)], \A e \in E : r[e[1]] < r[e[2]] PROVE FindCycles(E) = {}
  <2>1. \A a \in GraphNodes : r[a] \in Int
    BY <1>1
  <2>2. ASSUME NEW a \in GraphNodes, NEW b \in GraphNodes, <<a, b>> \in E PROVE r[a] < r[b]
    <3>1. (<<a, b>>)[1] = a /\ (<<a, b>>)[2] = b
      OBVIOUS
    <3> QED BY <1>2, <2>2, <3>1
  <2> QED BY <2>1, <2>2, OrderedNoCycles
<1>3. ASSUME FindCycles(E) = {}
      PROVE  \E r \in [GraphNodes -> 1..Cardinality(GraphNodes)] : \A e \in E : r[e[1]] < r[e[2]]
  <2> DEFINE r == [n \in GraphNodes |-> Cardinality(Ancestors(E, n))]
  <2>1. \A n \in GraphNodes : IsFiniteSet(Ancestors(E, n)) /\ Cardinality(Ancestors(E, n)) \in Nat
                              /\ Cardinality(Ancestors(E, n)) <= Cardinality(GraphNodes) /\ n \in Ancestors(E, n)
    <3> SUFFICES ASSUME NEW n \in GraphNodes
                 PROVE  IsFiniteSet(Ancestors(E, n)) /\ Cardinality(Ancestors(E, n)) \in Nat
                        /\ Cardinality(Ancestors(E, n)) <= Cardinality(GraphNodes) /\ n \in Ancestors(E, n)
      OBVIOUS
    <3>1. Ancestors(E, n) \in SUBSET GraphNodes
      BY DEF Ancestors
    <3>2. IsFiniteSet(Ancestors(E, n)) /\ Cardinality(Ancestors(E, n)) <= Cardinality(GraphNodes)
      BY <1>1, <3>1, FS_Subset
    <3>3. n \in Walks(E, n, 0)
      BY WalksStart
    <3>4. n \in Ancestors(E, n)
      BY <3>3 DEF Ancestors
    <3> QED BY <3>2, <3>4, FS_CardinalityType
  <2>2. \A n \in GraphNodes : Cardinality(Ancestors(E, n)) # 0
    BY <2>1, FS_EmptySet
  <2>3. r \in [GraphNodes -> 1..Cardinality(GraphNodes)]
    <3> SUFFICES ASSUME NEW n \in GraphNodes PROVE Cardinality(Ancestors(E, n)) \in 1..Cardinality(GraphNodes)
      OBVIOUS
    <3> QED BY <1>1, <2>1, <2>2
  <2>4. ASSUME NEW e \in E PROVE r[e[1]] < r[e[2]]
    <3> DEFINE a == e[1]
               b == e[2]
    <3>1. a \in GraphNodes /\ b \in GraphNodes /\ a # b /\ e = <<a, b>>
      BY DEF Pairs
    <3> HIDE DEF a, b
    <3>2. <<a, b>> \in E
      BY <3>1
    <3>3. ASSUME NEW m \in GraphNodes, NEW i \in Nat, a \in Walks(E, m, i) PROVE b \in Walks(E, m, i + 1)
      BY <3>1, <3>2, <3>3, WalksGoOn DEF Onward
    <3>4. Ancestors(E, a) \subseteq Ancestors(E, b)
      <4> SUFFICES ASSUME NEW m \in Ancestors(E, a) PROVE m \in Ancestors(E, b)
        OBVIOUS
      <4>1. PICK i \in Nat : m \in GraphNodes /\ a \in Walks(E, m, i)
        BY DEF Ancestors
      <4>2. b \in Walks(E, m, i + 1) /\ i + 1 \in Nat
        BY <3>3, <4>1
      <4> QED BY <4>1, <4>2 DEF Ancestors
    <3>5. b \notin Ancestors(E, a)
      <4> SUFFICES ASSUME b \in Ancestors(E, a) PROVE FALSE
        OBVIOUS
      <4>1. a \in Reaches(E, b)
        BY <3>1, AncestorsReach
      <4>2. a \in Ancestors(E, b)
        BY <2>1, <3>1, <3>4
      <4>3. b \in Reaches(E, a)
        BY <3>1, <4>2, AncestorsReach
      <4>4. {a, b} \subseteq Together(E, a)
        BY <4>1, <4>3 DEF Together
      <4>5. Together(E, a) \in SUBSET GraphNodes
        BY <3>1, ReachesIs DEF Together
      <4>6. IsFiniteSet(Together(E, a)) /\ Cardinality(Together(E, a)) \in Nat
        BY <1>1, <4>5, FS_Subset, FS_CardinalityType
      <4>7. Cardinality(Together(E, a)) # 0
        BY <4>4, <4>6, FS_EmptySet
      <4>8. Cardinality(Together(E, a)) # 1
        BY <3>1, <4>4, <4>6, FS_Singleton
      <4>9. Cardinality(Together(E, a)) > 1
        BY <4>6, <4>7, <4>8
      <4> QED BY <1>3, <3>1, <4>9, CyclesAre
    <3>6. b \in Ancestors(E, b)
      BY <2>1, <3>1
    <3>7. Cardinality(Ancestors(E, a)) <= Cardinality(Ancestors(E, b))
          /\ (Cardinality(Ancestors(E, b)) = Cardinality(Ancestors(E, a)) => Ancestors(E, b) = Ancestors(E, a))
      BY <2>1, <3>1, <3>4, FS_Subset
    <3>8. Cardinality(Ancestors(E, a)) < Cardinality(Ancestors(E, b))
      BY <2>1, <3>1, <3>5, <3>6, <3>7
    <3>9. r[a] = Cardinality(Ancestors(E, a)) /\ r[b] = Cardinality(Ancestors(E, b))
      BY <3>1
    <3> HIDE DEF r
    <3>10. r[a] < r[b]
      BY <3>8, <3>9
    <3> QED BY <3>10 DEF a, b
  <2> HIDE DEF r
  <2> QED BY <2>3, <2>4
<1> QED BY <1>2, <1>3

\* Where a symbol starts puts the symbols of a file in order of nesting.
LEMMA TableRows ==
  ASSUME NEW t \in Tables \cup CallTables
  PROVE  /\ \A s \in In(t) : s.from \in Nat /\ s.to \in Nat
         /\ \A s, d \in In(t) : s.id = d.id => s = d
<1>1. \A i, j \in DOMAIN t : t[i].from \in Nat /\ t[i].to \in Nat /\ (t[i].id = t[j].id => i = j)
  BY TablesAssumption, Zenon
<1>2. \A s \in In(t) : \E i \in DOMAIN t : s = t[i]
  BY DEF In
<1> QED BY <1>1, <1>2

LEMMA ForestHolds == NestingIsForest
<1> SUFFICES ASSUME NEW t \in Tables
             PROVE  /\ FindCycles({<<e[1].id, e[2].id>> : e \in Contained(t)}) = {}
                    /\ \A e, d \in Contained(t) : e[2] = d[2] => e = d
                    /\ \A e \in Contained(t) : \A p \in In(t) : ~(Encloses(e[1], p) /\ Encloses(p, e[2]) /\ p.to - p.from < e[1].to - e[1].from)
  BY DEF NestingIsForest
<1>1. /\ \A s \in In(t) : s.from \in Nat /\ s.to \in Nat
      /\ \A s, d \in In(t) : s.id = d.id => s = d
  BY TableRows
<1>2. FindCycles({<<e[1].id, e[2].id>> : e \in Contained(t)}) = {}
  <2> DEFINE E == {<<e[1].id, e[2].id>> : e \in Contained(t)}
             r == [n \in GraphNodes |-> IF \E s \in In(t) : s.id = n THEN (CHOOSE s \in In(t) : s.id = n).from ELSE 0]
  <2>1. \A s \in In(t) : s.id \in GraphNodes => r[s.id] = s.from
    <3> SUFFICES ASSUME NEW s \in In(t), s.id \in GraphNodes PROVE r[s.id] = s.from
      OBVIOUS
    <3>1. PICK d : d = CHOOSE x \in In(t) : x.id = s.id
      OBVIOUS
    <3>2. d \in In(t) /\ d.id = s.id
      BY <3>1
    <3>3. d = s
      BY <1>1, <3>2
    <3> QED BY <3>1, <3>3
  <2>2. \A a \in GraphNodes : r[a] \in Int
    <3> SUFFICES ASSUME NEW a \in GraphNodes PROVE r[a] \in Int
      OBVIOUS
    <3>1. CASE \E s \in In(t) : s.id = a
      <4>1. PICK s \in In(t) : s.id = a
        BY <3>1
      <4>2. r[a] = s.from
        BY <2>1, <4>1
      <4> HIDE DEF r
      <4> QED BY <1>1, <4>2
    <3>2. CASE ~\E s \in In(t) : s.id = a
      BY <3>2
    <3> QED BY <3>1, <3>2
  <2> HIDE DEF r
  <2>3. ASSUME NEW a \in GraphNodes, NEW b \in GraphNodes, <<a, b>> \in E PROVE r[a] < r[b]
    <3>1. PICK e \in Contained(t) : <<a, b>> = <<e[1].id, e[2].id>>
      BY <2>3
    <3>2. e[1] \in In(t) /\ e[2] \in In(t) /\ Encloses(e[1], e[2])
      BY ContainedPairs DEF Innermost
    <3>3. a = e[1].id /\ b = e[2].id
      BY <3>1
    <3>4. r[a] = e[1].from /\ r[b] = e[2].from
      BY <2>1, <3>2, <3>3
    <3>5. e[2].from > e[1].from
      BY <3>2 DEF Encloses
    <3>6. PICK x \in Nat, y \in Nat : x = e[1].from /\ y = e[2].from
      BY <1>1, <3>2
    <3> QED BY <3>4, <3>5, <3>6
  <2> HIDE DEF E
  <2>4. FindCycles(E) = {}
    BY <2>2, <2>3, OrderedNoCycles
  <2> QED BY <2>4 DEF E
<1>3. ASSUME NEW e \in Contained(t), NEW d \in Contained(t), e[2] = d[2] PROVE e = d
  <2>1. PICK c \in In(t), i \in DOMAIN t : e = <<t[i], c>> /\ Innermost(t, c, i)
    BY ContainedPairs
  <2>2. PICK c2 \in In(t), j \in DOMAIN t : d = <<t[j], c2>> /\ Innermost(t, c2, j)
    BY ContainedPairs
  <2>3. c = c2
    BY <1>3, <2>1, <2>2
  <2>4. Before(t, c, i, j) /\ Before(t, c, j, i)
    BY <2>1, <2>2, <2>3 DEF Innermost
  <2>5. t[i] \in In(t) /\ t[j] \in In(t)
    BY DEF In
  <2>6. PICK x \in Int, y \in Int : x = t[i].to - t[i].from /\ y = t[j].to - t[j].from
    BY <1>1, <2>5
  <2>7. DOMAIN t = 1..Len(t) /\ Len(t) \in Nat
    BY TablesAssumption
  <2>8. i \in Int /\ j \in Int
    BY <2>7
  <2>9. i = j
    BY <2>4, <2>6, <2>8 DEF Before
  <2> QED BY <2>1, <2>2, <2>3, <2>9
<1>4. ASSUME NEW e \in Contained(t), NEW p \in In(t), Encloses(e[1], p), Encloses(p, e[2]), p.to - p.from < e[1].to - e[1].from PROVE FALSE
  <2>1. PICK c \in In(t), i \in DOMAIN t : e = <<t[i], c>> /\ e[1] = t[i] /\ e[2] = c /\ Innermost(t, c, i)
    BY ContainedPairs
  <2>2. PICK j \in DOMAIN t : p = t[j]
    BY DEF In
  <2>3. Before(t, c, i, j)
    BY <1>4, <2>1, <2>2 DEF Innermost
  <2>4. t[i] \in In(t) /\ t[j] \in In(t)
    BY DEF In
  <2>5. PICK x \in Int, y \in Int : x = t[i].to - t[i].from /\ y = t[j].to - t[j].from
    BY <1>1, <2>4
  <2>6. y < x
    BY <1>4, <2>1, <2>2, <2>5
  <2> QED BY <2>3, <2>5, <2>6 DEF Before
<1> QED BY <1>2, <1>3, <1>4
-----------------------------------------------------------------------------
(* Policy: what a call and a plan are decided to be.                       *)

Decisions == {"deny", "audit", "allow"}

\* A call is denied, audited or allowed.
LEMMA Decided ==
  ASSUME NEW cfg \in Settings, NEW c, NEW human \in BOOLEAN PROVE Evaluate(cfg, c, human) \in Decisions
BY DEF Evaluate, Fallback, Decisions, Settings

\* What an agent may do, a person may, whatever the call.
LEMMA PersonAtLeast ==
  ASSUME NEW cfg \in Settings, NEW c
  PROVE  Evaluate(cfg, c, FALSE) = "deny" \/ Evaluate(cfg, c, FALSE) = Evaluate(cfg, c, TRUE)
BY DEF Evaluate

LEMMA OperationAtLeast ==
  ASSUME NEW cfg \in Settings, NEW c, NEW lite \in BOOLEAN, NEW p
  PROVE  /\ \/ EvaluateOperation(cfg, c, FALSE, lite, p) = "deny"
            \/ EvaluateOperation(cfg, c, FALSE, lite, p) = EvaluateOperation(cfg, c, TRUE, lite, p)
         /\ \/ EvaluateOperation(cfg, c, FALSE, lite, p) = "deny"
            \/ EvaluateOperation(cfg, c, FALSE, lite, p) = EvaluateOperation(cfg, c, FALSE, FALSE, <<>>)
BY PersonAtLeast DEF EvaluateOperation

LEMMA OperationDecided ==
  ASSUME NEW cfg \in Settings, NEW c, NEW human \in BOOLEAN, NEW lite \in BOOLEAN, NEW p
  PROVE  EvaluateOperation(cfg, c, human, lite, p) \in Decisions
BY Decided DEF EvaluateOperation, Decisions

LEMMA Ranks == /\ \A d \in Decisions : Rank(d) \in 0..2 /\ Rank("deny") <= Rank(d)
BY DEF Rank, Decisions

LEMMA PeopleMay == PeopleMayMore
<1> SUFFICES ASSUME NEW cfg \in Settings, NEW c \in PolicyCalls, NEW lite \in BOOLEAN, NEW p \in Profiles
             PROVE  /\ Rank(ValidateCall(cfg, c, FALSE, lite, p)) <= Rank(ValidateCall(cfg, c, TRUE, lite, p))
                    /\ Rank(ValidateCall(cfg, c, FALSE, lite, p)) <= Rank(ValidateCall(cfg, c, FALSE, FALSE, <<>>))
  BY DEF PeopleMayMore
<1> DEFINE a == ValidateCall(cfg, c, FALSE, lite, p)
           b == ValidateCall(cfg, c, TRUE, lite, p)
           d == ValidateCall(cfg, c, FALSE, FALSE, <<>>)
<1>1. a \in Decisions /\ b \in Decisions /\ d \in Decisions
  BY OperationDecided DEF ValidateCall, Decisions
<1>2. Offered(FALSE, c)
  BY DEF Offered
<1>3. (a = "deny" \/ a = b) /\ (a = "deny" \/ a = d)
  BY ONLY <1>2, OperationAtLeast, cfg \in Settings, lite \in BOOLEAN DEF ValidateCall
<1> HIDE DEF a, b, d
<1>4. Rank(a) <= Rank(b) /\ Rank(a) <= Rank(d)
  BY <1>1, <1>3, Ranks
<1> QED BY <1>4 DEF a, b, d

\* The lite ceiling passes calls that read, and no other.
LEMMA LiteReads == LiteOnlyReads
<1> SUFFICES ASSUME NEW cfg \in Settings, NEW c \in PolicyCalls, NEW human \in BOOLEAN, NEW p \in Profiles,
                    ValidateCall(cfg, c, human, TRUE, p) # "deny"
             PROVE  c.tool \in {"search", "read", "graph"} \/ (c.tool = "workspace" /\ c.action \in {"status", "list", "dependencies"})
  BY DEF LiteOnlyReads
<1>1. Offered(TRUE, c) /\ CanonicalOp(c.tool) \in LiteOps
  BY DEF ValidateCall, EvaluateOperation
<1>2. CanonicalOp("edit") = "change" /\ "change" \notin LiteOps
  BY DEF CanonicalOp, LiteOps
<1>3. c.tool # "edit"
  BY <1>1, <1>2
<1> QED BY <1>1, <1>3 DEF Offered

LEMMA BlockedPaths == BlockedIsDenied
BY DEF BlockedIsDenied, Evaluate

LEMMA StrictLists == StrictNeedsAList
BY DEF StrictNeedsAList, Evaluate, Fallback

-----------------------------------------------------------------------------
LEMMA LeastNode == ASSUME NEW S \in SUBSET Nat, S # {} PROVE \E i \in S : \A j \in S : i <= j
<1>1. PICK i \in S : \A j \in S : ~(<<j, i>> \in OpToRel(<, Nat))
  BY NatLessThanWellFounded, WFMin
<1>2. \A j \in S : ~(j < i)
  BY <1>1 DEF OpToRel
<1> QED BY <1>2

\* A plan of any length, whatever its nodes: it is allowed when it is short enough and no node
\* settles it, and audited only when an audited node comes before every node that is denied.
THEOREM PlansDecided ==
  ASSUME NEW cfg, NEW plan, Len(plan) \in Nat, DOMAIN plan = 1..Len(plan), NEW human \in BOOLEAN
  PROVE  LET bad == {i \in DOMAIN plan : NodeDenied(cfg, plan, i, human)}
             audited == {i \in DOMAIN plan : Evaluate(cfg, plan[i].call, human) = "audit"}
         IN  /\ ValidatePlan(cfg, plan, human) = "allow" <=> Len(plan) <= MaxPlanNodes /\ bad = {} /\ audited = {}
             /\ ValidatePlan(cfg, plan, human) = "audit" => \E i \in audited : \A j \in bad : i < j
<1> DEFINE settles == Settles(cfg, plan, human)
           bad == {i \in DOMAIN plan : NodeDenied(cfg, plan, i, human)}
           audited == {i \in DOMAIN plan : Evaluate(cfg, plan[i].call, human) = "audit"}
           decision == ValidatePlan(cfg, plan, human)
           first == CHOOSE k \in settles : \A j \in settles : k <= j
<1>1. settles = bad \cup audited /\ settles \in SUBSET Nat
  BY DEF Settles
<1>2. settles # {} => first \in settles /\ \A j \in settles : first <= j
  BY <1>1, LeastNode
<1>3. decision = IF Len(plan) > MaxPlanNodes THEN "deny" ELSE IF settles = {} THEN "allow"
                 ELSE IF NodeDenied(cfg, plan, first, human) THEN "deny" ELSE "audit"
  BY DEF ValidatePlan
<1>4. MaxPlanNodes \in Nat
  BY PolicyAssumption
<1>5. first \in settles => (NodeDenied(cfg, plan, first, human) <=> first \in bad)
  BY <1>1
<1> HIDE DEF settles, bad, audited, decision, first
<1>6. decision = "allow" <=> Len(plan) <= MaxPlanNodes /\ bad = {} /\ audited = {}
  BY <1>1, <1>3, <1>4
<1>7. ASSUME decision = "audit" PROVE \E i \in audited : \A j \in bad : i < j
  <2>1. settles # {} /\ ~NodeDenied(cfg, plan, first, human)
    BY <1>3, <1>7
  <2>2. first \in audited /\ first \notin bad
    BY <1>1, <1>2, <1>5, <2>1
  <2>3. \A j \in bad : first <= j /\ first # j /\ j \in Nat /\ first \in Nat
    BY <1>1, <1>2, <2>1, <2>2
  <2> QED BY <2>2, <2>3
<1> QED BY <1>6, <1>7 DEF bad, audited, decision

LEMMA PlansWhole == PlansAreWhole
<1> SUFFICES ASSUME NEW cfg \in Settings, NEW plan \in ShortPlans, NEW human \in BOOLEAN
             PROVE  LET bad == {i \in DOMAIN plan : NodeDenied(cfg, plan, i, human)}
                        audited == {i \in DOMAIN plan : Evaluate(cfg, plan[i].call, human) = "audit"}
                    IN  /\ ValidatePlan(cfg, plan, human) = "allow" <=> Len(plan) <= MaxPlanNodes /\ bad = {} /\ audited = {}
                        /\ ValidatePlan(cfg, plan, human) = "audit" => \E i \in audited : \A j \in bad : i < j
  BY DEF PlansAreWhole
<1>1. (\E m, n : plan = <<m, n>>) \/ (\E m, n, o : plan = <<m, n, o>>)
  BY DEF ShortPlans
<1>2. Len(plan) \in Nat /\ DOMAIN plan = 1..Len(plan)
  BY <1>1
<1> QED BY <1>2, PlansDecided

\* Decisions on calls and plans, for any tools, actions and limits: no list, mode or person lets a
\* blocked path pass, an agent may no more than a person, and the lite ceiling, strict mode and the
\* nodes of a plan bind whoever asks (policy.rs:162-483).
THEOREM DecisionsAreSound == PolicyKeeps
BY BlockedPaths, PeopleMay, LiteReads, StrictLists, PlansWhole DEF PolicyKeeps
-----------------------------------------------------------------------------
(* Delegation                                                              *)

USE OptionsAssumption

\* The types the argument needs; the frontier is not part of it.
BoardTyped ==
  /\ board \in Boards
  /\ \A w \in Workers : call[w] # None =>
       call[w].kind \in Kinds /\ call[w].node \in Nodes /\ call[w].board \in Boards
  /\ DOMAIN call = Workers /\ leases \in [Workers -> SUBSET Nodes] /\ done \subseteq Nodes
  /\ seized \subseteq Nodes

\* One call is under way at a time.
AtMostOne == \A v, w \in Workers : call[v] # None /\ call[w] # None => v = w

\* A board that a call has read differs from the file only in what time does.
SameBut(b) == \A n \in Nodes : b[n].status = board[n].status /\ b[n].by = board[n].by
CopyIsTrue(w) ==
  /\ call[w].kind \notin FrontierCalls /\ ~call[w].half => SameBut(call[w].board)
  /\ call[w].half => \A n \in Assigned(call[w]) \cap Nodes :
                       board[n].status = "claimed" /\ board[n].by = w
  /\ call[w].half => call[w].kind = "auto_assign"

\* Handlers go on only after their checks.
Checked(w) ==
  /\ call[w].kind = "claim" => call[w].board[call[w].node].status \in {"pending", "claimed"}
  /\ call[w].kind = "heartbeat" => /\ call[w].board[call[w].node].status = "claimed"
                                   /\ call[w].board[call[w].node].by = w
  /\ call[w].kind = "complete" /\ call[w].board[call[w].node].status = "claimed"
       => call[w].board[call[w].node].by = w

\* What workers were told is on the board, unless the node was seized.  The
\* claimed nodes are those that name a worker.
BoardIsTrue ==
  /\ \A n \in Nodes : board[n].status = "claimed" <=> board[n].by # None
  /\ \A w \in Workers : \A n \in leases[w] \ seized :
       board[n].status = "claimed" /\ board[n].by = w
  /\ \A n \in done : board[n].status = "completed"

Truth == /\ BoardTyped /\ AtMostOne /\ BoardIsTrue
         /\ \A w \in Workers : call[w] # None => CopyIsTrue(w) /\ Checked(w)

IInv == overlaps \in Nat /\ (overlaps = 0 => Truth)

LEMMA NodeStates ==
  /\ Absent \in NodeState /\ Pending \in NodeState /\ Completed \in NodeState
  /\ \A w \in Workers : ClaimedBy(w) \in NodeState
BY DEF Absent, Pending, Completed, ClaimedBy, NodeState

LEMMA InitHolds == Init => IInv
BY NodeStates DEF Init, IInv, Truth, BoardTyped, AtMostOne, BoardIsTrue, Blank, Boards, Absent

LEMMA LoadStep ==
  ASSUME Truth, NEW w \in Workers, Load(w), \A v \in Workers : call[v] = None
  PROVE  Truth'
<1>1. PICK k \in Kinds, n \in Nodes :
        /\ Accepts(w, k, n)
        /\ call' = [call EXCEPT ![w] =
             [kind |-> k, node |-> n, half |-> FALSE, knew |-> IF k \in BoardCalls THEN {} ELSE given \ undone,
              board |-> IF k \in FrontierCalls THEN Blank ELSE board,
              frontier |-> IF k \in BoardCalls THEN Empty ELSE frontier]]
  BY DEF Load
<1>2. \A v \in Workers : call[v] = None
  OBVIOUS
<1>3. /\ call'[w].kind = k /\ call'[w].node = n /\ call'[w].half = FALSE
      /\ call'[w].board = IF k \in FrontierCalls THEN Blank ELSE board
      /\ \A v \in Workers : v # w => call'[v] = None
      /\ DOMAIN call' = Workers
  BY <1>1, <1>2 DEF Truth, BoardTyped
<1>4. UNCHANGED <<board, frontier, leases, done, seized>>
  BY DEF Load
<1>5. BoardTyped'
  <2>1. Blank \in Boards
    BY NodeStates DEF Blank, Boards
  <2>. QED BY <1>3, <1>4, <2>1 DEF Truth, BoardTyped
<1>6. AtMostOne'
  BY <1>3 DEF AtMostOne
<1>7. CopyIsTrue(w)'
  BY <1>3, <1>4 DEF CopyIsTrue, SameBut
<1>8. Checked(w)'
  <2>1. k \in {"claim", "heartbeat", "complete"} => k \notin FrontierCalls
    BY DEF FrontierCalls
  <2>. QED BY <1>1, <1>3, <2>1 DEF Checked, Accepts
<1>. QED BY <1>3, <1>4, <1>5, <1>6, <1>7, <1>8 DEF Truth, BoardIsTrue

\* A call that ends leaves nothing to be true of copies.
LEMMA ReturnStep ==
  ASSUME Truth, NEW w \in Workers, call[w] # None, Return(w),
         board' \in Boards, leases' \in [Workers -> SUBSET Nodes], done' \subseteq Nodes, seized' \subseteq Nodes, BoardIsTrue'
  PROVE  Truth'
<1>1. \A v \in Workers : call'[v] = None
  BY DEF Return, Truth, BoardTyped, AtMostOne
<1>2. BoardTyped' /\ AtMostOne'
  BY <1>1 DEF Return, Truth, BoardTyped, AtMostOne
<1>. QED BY <1>1, <1>2 DEF Truth

\* A handler that saves one node of its board, and the board is still true.
LEMMA SaveNodeStep ==
  ASSUME Truth, NEW w \in Workers, call[w] # None,
         call[w].kind \in {"claim", "heartbeat", "complete"},
         NEW state \in NodeState, SaveNode(w, state)
  PROVE  /\ board' \in Boards /\ board'[call[w].node] = state /\ call[w].node \in Nodes
         /\ \A n \in Nodes \ {call[w].node} :
              board'[n].status = board[n].status /\ board'[n].by = board[n].by
         /\ call[w].board[call[w].node].status = board[call[w].node].status
         /\ call[w].board[call[w].node].by = board[call[w].node].by
<1>1. call[w].board \in Boards /\ call[w].node \in Nodes /\ CopyIsTrue(w)
  BY DEF Truth, BoardTyped
<1>2. call[w].kind \notin FrontierCalls /\ call[w].kind # "auto_assign"
  BY DEF FrontierCalls
<1>3. ~call[w].half
  BY <1>1, <1>2 DEF CopyIsTrue
<1>4. SameBut(call[w].board)
  BY <1>1, <1>2, <1>3 DEF CopyIsTrue
<1>. QED BY <1>1, <1>4 DEF SaveNode, SameBut, Boards

LEMMA ClaimStep ==
  ASSUME Truth, NEW w \in Workers, Claim(w) PROVE Truth'
<1>1. call[w] # None /\ call[w].kind = "claim" /\ SaveNode(w, ClaimedBy(w))
  BY DEF Claim, Calls
<1>2. /\ board' \in Boards /\ board'[call[w].node] = ClaimedBy(w) /\ call[w].node \in Nodes
      /\ \A n \in Nodes \ {call[w].node} :
           board'[n].status = board[n].status /\ board'[n].by = board[n].by
      /\ board[call[w].node].status \in {"pending", "claimed"}
      /\ call[w].board[call[w].node].by = board[call[w].node].by
  BY <1>1, SaveNodeStep, NodeStates DEF Truth, Checked
<1>3. /\ leases' = [leases EXCEPT ![w] = @ \cup {call[w].node}] /\ UNCHANGED done
      /\ seized' = IF board[call[w].node].by \notin {None, w}
                   THEN seized \cup {call[w].node} ELSE seized
  BY <1>2 DEF Claim
<1>4. BoardIsTrue'
  <2>1. \A n \in Nodes : board'[n].status = "claimed" <=> board'[n].by # None
    BY <1>2, WorkersAssumption DEF BoardIsTrue, ClaimedBy, Truth
  <2>2. ASSUME NEW v \in Workers, NEW n \in leases'[v] \ seized'
        PROVE  board'[n].status = "claimed" /\ board'[n].by = v
    <3>1. CASE n = call[w].node /\ v # w
      <4>1. n \in leases[v] \ seized
        BY <1>3, <2>2, <3>1 DEF Truth, BoardTyped
      <4>2. board[n].by = v /\ v # None
        BY <4>1, WorkersAssumption DEF BoardIsTrue, Truth
      <4>. QED BY <1>3, <2>2, <3>1, <4>2
    <3>2. CASE n = call[w].node /\ v = w
      BY <1>2, <3>2 DEF ClaimedBy
    <3>3. CASE n # call[w].node
      <4>1. n \in leases[v] \ seized
        BY <1>3, <2>2, <3>3 DEF Truth, BoardTyped
      <4>2. n \in Nodes
        BY <4>1 DEF Truth, BoardTyped
      <4>. QED BY <1>2, <3>3, <4>1, <4>2 DEF BoardIsTrue, Truth
    <3>. QED BY <3>1, <3>2, <3>3
  <2>3. \A n \in done : board'[n].status = "completed"
    BY <1>2 DEF BoardIsTrue, Truth, BoardTyped
  <2>. QED BY <1>3, <2>1, <2>2, <2>3 DEF BoardIsTrue
<1>5. seized' \subseteq Nodes
  BY <1>2, <1>3 DEF Truth, BoardTyped
<1>. QED BY <1>1, <1>2, <1>3, <1>4, <1>5, ReturnStep DEF Claim, Truth, BoardTyped

LEMMA HeartbeatStep ==
  ASSUME Truth, NEW w \in Workers, Heartbeat(w) PROVE Truth'
<1>1. call[w] # None /\ call[w].kind = "heartbeat" /\ SaveNode(w, ClaimedBy(w))
  BY DEF Heartbeat, Calls
<1>2. /\ board' \in Boards /\ board'[call[w].node] = ClaimedBy(w) /\ call[w].node \in Nodes
      /\ \A n \in Nodes \ {call[w].node} :
           board'[n].status = board[n].status /\ board'[n].by = board[n].by
      /\ board[call[w].node].status = "claimed" /\ board[call[w].node].by = w
  BY <1>1, SaveNodeStep, NodeStates DEF Truth, Checked
<1>3. UNCHANGED <<leases, done, seized>>
  BY DEF Heartbeat
<1>4. BoardIsTrue'
  BY <1>2, <1>3 DEF BoardIsTrue, ClaimedBy, Truth, BoardTyped
<1>. QED BY <1>1, <1>2, <1>3, <1>4, ReturnStep DEF Heartbeat, Truth, BoardTyped

LEMMA CompleteStep ==
  ASSUME Truth, NEW w \in Workers, Complete(w) PROVE Truth'
<1>1. call[w] # None /\ call[w].kind = "complete" /\ SaveNode(w, Completed)
  BY DEF Complete, Calls
<1>2. /\ board' \in Boards /\ board'[call[w].node] = Completed /\ call[w].node \in Nodes
      /\ \A n \in Nodes \ {call[w].node} :
           board'[n].status = board[n].status /\ board'[n].by = board[n].by
      /\ board[call[w].node].status = "claimed" => board[call[w].node].by = w
  BY <1>1, SaveNodeStep, NodeStates DEF Truth, Checked
<1>3. /\ leases' = [leases EXCEPT ![w] = @ \ {call[w].node}]
      /\ done' = done \cup {call[w].node} /\ UNCHANGED seized
  BY DEF Complete
<1>4. BoardIsTrue'
  BY <1>2, <1>3 DEF BoardIsTrue, Completed, Truth, BoardTyped
<1>. QED BY <1>1, <1>2, <1>3, <1>4, ReturnStep DEF Complete, Truth, BoardTyped

LEMMA CreateStep ==
  ASSUME Truth, NEW w \in Workers, Create(w) PROVE Truth'
<1>1. /\ call[w] # None /\ Return(w) /\ leases' = [v \in Workers |-> {}] /\ done' = {}
      /\ seized' = {} /\ board' \in Boards
  BY NodeStates DEF Create, Calls, Boards
<1>2. \A n \in Nodes : board'[n] \in {Pending, Absent}
  BY DEF Create
<1>3. BoardIsTrue'
  BY <1>1, <1>2 DEF BoardIsTrue, Pending, Absent
<1>. QED BY <1>1, <1>3, ReturnStep

LEMMA StatusStep ==
  ASSUME Truth, NEW w \in Workers, Status(w) PROVE Truth'
<1> DEFINE stale == Stale(call[w].board)
<1>1. /\ call[w] # None /\ call[w].kind = "status" /\ Return(w) /\ UNCHANGED <<done, seized>>
      /\ leases' = [v \in Workers |-> leases[v] \ stale]
      /\ IF stale = {} THEN UNCHANGED board
         ELSE board' = [n \in Nodes |-> IF n \in stale THEN Pending ELSE call[w].board[n]]
  BY DEF Status, Calls
<1>2. call[w].board \in Boards /\ SameBut(call[w].board)
  BY <1>1 DEF Truth, BoardTyped, CopyIsTrue, FrontierCalls
<1>3. board' \in Boards
  BY <1>1, <1>2, NodeStates DEF Truth, BoardTyped, Boards
<1>4. \A n \in Nodes \ stale : board'[n].status = board[n].status /\ board'[n].by = board[n].by
  BY <1>1, <1>2 DEF SameBut
<1>5. \A n \in stale : board[n].status = "claimed"
  BY <1>2 DEF SameBut, Stale
<1>6. BoardIsTrue'
  <2>1. stale # {} => \A n \in stale : board'[n] = Pending
    BY <1>1 DEF Stale
  <2>. QED BY <1>1, <1>4, <1>5, <2>1 DEF BoardIsTrue, Pending, Truth, BoardTyped
<1>7. leases' \in [Workers -> SUBSET Nodes] /\ done' \subseteq Nodes /\ seized' \subseteq Nodes
  BY <1>1 DEF Truth, BoardTyped
<1>. QED BY <1>1, <1>3, <1>6, <1>7, ReturnStep

LEMMA AssignedPending ==
  ASSUME NEW c PROVE \A n \in Assigned(c) : n \in Nodes /\ c.board[n].status = "pending"
BY DEF Assigned

LEMMA AssignBoardStep ==
  ASSUME Truth, NEW w \in Workers, AssignBoard(w) PROVE Truth'
<1> DEFINE taken == Assigned(call[w])
<1>1. /\ call[w] # None /\ call[w].kind = "auto_assign" /\ ~call[w].half
      /\ board' = [n \in Nodes |-> IF n \in taken THEN ClaimedBy(w) ELSE call[w].board[n]]
      /\ call' = [call EXCEPT ![w].half = TRUE] /\ UNCHANGED <<leases, done, seized>>
  BY DEF AssignBoard, Calls
<1>2. call[w].board \in Boards /\ SameBut(call[w].board)
  BY <1>1 DEF Truth, BoardTyped, CopyIsTrue, FrontierCalls
<1>3. \A n \in taken : n \in Nodes /\ board[n].status = "pending"
  BY <1>2, AssignedPending DEF SameBut
<1>4. BoardIsTrue'
  BY <1>1, <1>2, <1>3, WorkersAssumption DEF BoardIsTrue, SameBut, ClaimedBy, Truth, BoardTyped
<1>5. board' \in Boards
  BY <1>1, <1>2, NodeStates DEF Boards
<1>6. /\ call'[w] = [call[w] EXCEPT !.half = TRUE]
      /\ \A v \in Workers : v # w => call'[v] = None
      /\ DOMAIN call' = Workers
  BY <1>1 DEF Truth, BoardTyped, AtMostOne
<1>7. BoardTyped' /\ AtMostOne'
  <2>1. /\ call'[w].kind = call[w].kind /\ call'[w].node = call[w].node
        /\ call'[w].board = call[w].board
    BY <1>6
  <2>. QED BY <1>1, <1>5, <1>6, <2>1 DEF Truth, BoardTyped, AtMostOne
<1>8. Assigned(call'[w]) = taken
  BY <1>6 DEF Assigned
<1>9. CopyIsTrue(w)'
  BY <1>1, <1>3, <1>6, <1>8 DEF CopyIsTrue, ClaimedBy
<1>10. Checked(w)'
  BY <1>1, <1>6 DEF Checked
<1>. QED BY <1>4, <1>6, <1>7, <1>9, <1>10 DEF Truth

LEMMA AssignFrontierStep ==
  ASSUME Truth, NEW w \in Workers, AssignFrontier(w) PROVE Truth'
<1> DEFINE taken == Assigned(call[w])
<1>1. /\ call[w] # None /\ call[w].half /\ Return(w) /\ UNCHANGED <<board, done, seized>>
      /\ leases' = [leases EXCEPT ![w] = @ \cup taken]
  BY DEF AssignFrontier, Calls
<1>2. \A n \in taken : n \in Nodes /\ board[n].status = "claimed" /\ board[n].by = w
  BY <1>1, AssignedPending DEF Truth, CopyIsTrue
<1>3. BoardIsTrue' /\ leases' \in [Workers -> SUBSET Nodes]
  BY <1>1, <1>2 DEF BoardIsTrue, Truth, BoardTyped
<1>. QED BY <1>1, <1>3, ReturnStep DEF Truth, BoardTyped

LEMMA AgeStep ==
  ASSUME Truth, NEW n \in Nodes, Age(n) PROVE Truth'
<1>1. /\ board' \in Boards /\ UNCHANGED <<call, leases, done, seized>>
      /\ \A m \in Nodes : board'[m].status = board[m].status /\ board'[m].by = board[m].by
  <2>1. board' = [board EXCEPT ![n].fresh = FALSE] /\ UNCHANGED <<call, leases, done, seized>>
    BY DEF Age
  <2>2. board \in Boards
    BY DEF Truth, BoardTyped
  <2> QED BY <2>1, <2>2 DEF Boards, NodeState
<1>2. BoardIsTrue'
  BY <1>1 DEF BoardIsTrue, Truth, BoardTyped
<1>3. ASSUME NEW w \in Workers, call[w] # None PROVE CopyIsTrue(w)'
  BY <1>1, <1>3 DEF Truth, CopyIsTrue, SameBut
<1>. QED BY <1>1, <1>2, <1>3 DEF Truth, BoardTyped, AtMostOne, Checked

\* Calls that overlap are counted for good.
LEMMA Counts ==
  ASSUME overlaps \in Nat, [Next]_vars
  PROVE  overlaps' \in Nat /\ (overlaps' = 0 => overlaps = 0)
<1>1. ASSUME NEW w \in Workers, Load(w) PROVE overlaps' \in {overlaps, overlaps + 1}
  BY <1>1 DEF Load
<1>2. ASSUME NEW w \in Workers, Finish(w) \/ Crash(w) PROVE overlaps' = overlaps
  BY <1>2 DEF Finish, Create, Claim, Heartbeat, Complete, AssignBoard, AssignFrontier, Status,
              Seed, Pop, Reset, Crash
<1>3. ASSUME NEW n \in Nodes, Age(n) PROVE overlaps' = overlaps
  BY <1>3 DEF Age
<1>. QED BY <1>1, <1>2, <1>3 DEF Next, vars

LEMMA Inductive == IInv /\ [Next]_vars => IInv'
<1>. SUFFICES ASSUME IInv, [Next]_vars, overlaps' = 0 PROVE Truth'
  BY Counts DEF IInv
<1>0. Truth /\ overlaps = 0
  BY Counts DEF IInv
<1>1. ASSUME NEW w \in Workers, Load(w) PROVE Truth'
  <2>1. \A v \in Workers : call[v] = None
    BY <1>0, <1>1 DEF Load
  <2>. QED BY <1>0, <1>1, <2>1, LoadStep
<1>2. ASSUME NEW w \in Workers,
             \/ Create(w) \/ Claim(w) \/ Heartbeat(w) \/ Complete(w)
             \/ AssignBoard(w) \/ AssignFrontier(w) \/ Status(w)
      PROVE  Truth'
  BY <1>0, <1>2, CreateStep, ClaimStep, HeartbeatStep, CompleteStep, AssignBoardStep,
     AssignFrontierStep, StatusStep
<1>3. ASSUME NEW w \in Workers, Seed(w) \/ Pop(w) \/ Reset(w) \/ Crash(w) PROVE Truth'
  <2>1. call[w] # None /\ Return(w) /\ UNCHANGED <<board, leases, done, seized>>
    BY <1>3 DEF Seed, Pop, Reset, Crash, Calls
  <2>. QED BY <1>0, <2>1, ReturnStep DEF Truth, BoardTyped, BoardIsTrue
<1>4. ASSUME NEW n \in Nodes, Age(n) PROVE Truth'
  BY <1>0, <1>4, AgeStep
<1>5. CASE UNCHANGED vars
  BY <1>0, <1>5 DEF vars, handed, Truth, BoardTyped, AtMostOne, BoardIsTrue, CopyIsTrue, SameBut, Checked
<1>. QED BY <1>1, <1>2, <1>3, <1>4, <1>5 DEF Next, Finish

\* While calls take turns, no node has two owners unless one was told to take it
\* from the other.
THEOREM LeasesAreExclusive == Spec => []OneOwner
<1>1. IInv => OneOwner
  BY DEF IInv, Truth, BoardTyped, BoardIsTrue, OneOwner
<1>. QED BY InitHolds, Inductive, <1>1, PTL DEF Spec

\* And a completion that was acknowledged stays.
THEOREM CompletionsStay == Spec => []CompletedStays
<1>1. IInv => CompletedStays
  BY DEF IInv, Truth, BoardIsTrue, CompletedStays
<1>. QED BY InitHolds, Inductive, <1>1, PTL DEF Spec

-----------------------------------------------------------------------------
(* Delegation's frontier: what the loop of auto_assign leaves of a queue is *)
(* found by going up to the first place where it would be anything else.    *)

\* The loop's queues, up to each place: they exist, and hold what was queued and not taken.
LeftUpTo(f, q, taken, n) ==
  f = [i \in 0..n |-> IF i = 0 THEN <<>> ELSE IF q[i] \in taken THEN f[i - 1] ELSE Append(f[i - 1], q[i])]
Once(s) == \A i, j \in DOMAIN s : s[i] = s[j] => i = j
Remains(s, q, taken, n) ==
  s \in Seq(Nodes) /\ (\A k \in DOMAIN s : \E j \in 1..n : s[k] = q[j] /\ q[j] \notin taken) /\ Once(s)

LEMMA LeftExists ==
  ASSUME NEW q, NEW taken, NEW n \in Nat PROVE \E f : LeftUpTo(f, q, taken, n)
<1> DEFINE Bad == {m \in Nat : ~\E f : LeftUpTo(f, q, taken, m)}
<1> SUFFICES ASSUME Bad # {} PROVE FALSE
  OBVIOUS
<1>1. PICK m \in Bad : \A j \in Bad : m <= j
  <2>1. Bad \in SUBSET Nat
    OBVIOUS
  <2> HIDE DEF Bad
  <2> QED BY <2>1, LeastNumber
<1>2. m \in Nat /\ ~\E f : LeftUpTo(f, q, taken, m)
  OBVIOUS
<1>3. CASE m = 0
  <2> DEFINE f == [i \in 0..0 |-> <<>>]
  <2>1. \A i \in 0..0 : i = 0
    OBVIOUS
  <2>2. LeftUpTo(f, q, taken, 0)
    BY <2>1 DEF LeftUpTo
  <2> QED BY <2>2, <1>2, <1>3
<1>4. CASE m # 0
  <2>1. m - 1 \in Nat /\ ~(m <= m - 1)
    BY <1>2, <1>4
  <2>2. PICK f : LeftUpTo(f, q, taken, m - 1)
    BY <1>1, <2>1
  <2> DEFINE Step(h, i) == IF i = 0 THEN <<>> ELSE IF q[i] \in taken THEN h[i - 1] ELSE Append(h[i - 1], q[i])
             g == [i \in 0..m |-> Step(f, i)]
  <2>3. \A i \in 0..(m - 1) : f[i] = Step(f, i)
    BY <2>2 DEF LeftUpTo
  <2>4. \A i \in 0..(m - 1) : g[i] = f[i]
    BY <2>3, <1>2
  <2>5. \A i \in 0..m : i # 0 => i - 1 \in 0..(m - 1)
    BY <1>2
  <2>6. \A i \in 0..m : Step(f, i) = Step(g, i)
    <3> HIDE DEF g
    <3> QED BY <2>4, <2>5
  <2>7. g = [i \in 0..m |-> Step(g, i)]
    BY <2>6
  <2>8. LeftUpTo(g, q, taken, m)
    BY <2>7 DEF LeftUpTo
  <2> QED BY <1>2, <2>8
<1> QED BY <1>3, <1>4

LEMMA AppendRemains ==
  ASSUME NEW q \in Seq(Nodes), NEW taken, NEW i \in 1..Len(q), NEW s, Remains(s, q, taken, i - 1), Once(q)
  PROVE  /\ Remains(s, q, taken, i)
         /\ q[i] \notin taken => Remains(Append(s, q[i]), q, taken, i)
<1>1. i \in DOMAIN q /\ q[i] \in Nodes /\ DOMAIN q = 1..Len(q) /\ Len(q) \in Nat
  BY LenProperties
<1>2. 1..(i - 1) \subseteq 1..i /\ i \in 1..i /\ i \notin 1..(i - 1)
  BY <1>1
<1>3. Remains(s, q, taken, i)
  BY <1>2 DEF Remains
<1>4. ASSUME q[i] \notin taken PROVE Remains(Append(s, q[i]), q, taken, i)
  <2> DEFINE t == Append(s, q[i])
  <2>1. s \in Seq(Nodes)
    BY DEF Remains
  <2>2. /\ t \in Seq(Nodes) /\ DOMAIN t = DOMAIN s \cup {Len(s) + 1} /\ Len(s) \in Nat /\ DOMAIN s = 1..Len(s)
        /\ t[Len(s) + 1] = q[i] /\ \A k \in DOMAIN s : t[k] = s[k]
    BY <1>1, <2>1, AppendProperties, LenProperties
  <2>3. Len(s) + 1 \notin DOMAIN s
    BY <2>2
  <2> HIDE DEF t
  <2>4. \A k \in DOMAIN s : \E j \in 1..(i - 1) : s[k] = q[j] /\ q[j] \notin taken
    BY DEF Remains
  <2>5. \A k \in DOMAIN s : s[k] # q[i]
    <3> SUFFICES ASSUME NEW k \in DOMAIN s, s[k] = q[i] PROVE FALSE
      OBVIOUS
    <3>1. PICK j \in 1..(i - 1) : s[k] = q[j]
      BY <2>4
    <3>2. j \in DOMAIN q /\ j # i
      BY <1>1, <1>2
    <3> QED BY <1>1, <3>1, <3>2 DEF Once
  <2>6. Once(t)
    BY <2>2, <2>3, <2>5 DEF Once, Remains
  <2>7. \A k \in DOMAIN t : \E j \in 1..i : t[k] = q[j] /\ q[j] \notin taken
    BY <1>2, <1>4, <2>2, <2>4
  <2> QED BY <2>2, <2>6, <2>7 DEF Remains, t
<1> QED BY <1>3, <1>4

LEMMA WithoutRemains ==
  ASSUME NEW q \in Seq(Nodes), NEW taken, Once(q)
  PROVE  Remains(Without(q, taken), q, taken, Len(q))
<1> DEFINE left == CHOOSE f : LeftUpTo(f, q, taken, Len(q))
<1>1. Len(q) \in Nat
  BY LenProperties
<1>2. LeftUpTo(left, q, taken, Len(q))
  BY <1>1, LeftExists
<1>3. Without(q, taken) = left[Len(q)]
  BY DEF Without, LeftUpTo
<1> HIDE DEF left
<1>4. \A i \in 0..Len(q) : left[i] = IF i = 0 THEN <<>> ELSE IF q[i] \in taken THEN left[i - 1] ELSE Append(left[i - 1], q[i])
  BY <1>2 DEF LeftUpTo
<1> DEFINE Bad == {i \in Nat : i <= Len(q) /\ ~Remains(left[i], q, taken, i)}
<1>5. Bad = {}
  <2> SUFFICES ASSUME Bad # {} PROVE FALSE
    OBVIOUS
  <2>1. PICK i \in Bad : \A j \in Bad : i <= j
    <3>1. Bad \in SUBSET Nat
      OBVIOUS
    <3> HIDE DEF Bad
    <3> QED BY <3>1, LeastNumber
  <2>2. i \in Nat /\ i <= Len(q) /\ ~Remains(left[i], q, taken, i)
    OBVIOUS
  <2>3. CASE i = 0
    <3>1. left[i] = <<>>
      BY <1>1, <1>4, <2>2, <2>3
    <3>2. <<>> \in Seq(Nodes) /\ DOMAIN <<>> = {}
      OBVIOUS
    <3> QED BY <2>2, <3>1, <3>2 DEF Remains, Once
  <2>4. CASE i # 0
    <3>1. i - 1 \in Nat /\ ~(i <= i - 1) /\ i - 1 <= Len(q) /\ i \in 1..Len(q) /\ i \in 0..Len(q)
      BY <1>1, <2>2, <2>4
    <3>2. Remains(left[i - 1], q, taken, i - 1)
      BY <2>1, <3>1
    <3>3. left[i] = IF q[i] \in taken THEN left[i - 1] ELSE Append(left[i - 1], q[i])
      BY <1>4, <2>4, <3>1
    <3>4. /\ Remains(left[i - 1], q, taken, i)
          /\ q[i] \notin taken => Remains(Append(left[i - 1], q[i]), q, taken, i)
      BY <3>1, <3>2, AppendRemains
    <3> QED BY <2>2, <3>3, <3>4
  <2> QED BY <2>3, <2>4
<1> QED BY <1>1, <1>3, <1>5

\* A copy of the frontier, old or new, queues each node once and none it has handed out.
SoundQueue(f) == Once(f.queue) /\ Queued(f) \cap f.visited = {}
QueueInv == TypeOK /\ SoundQueue(frontier) /\ \A w \in Workers : call[w] # None => SoundQueue(call[w].frontier)

LEMMA Blanks == Empty \in Frontier /\ SoundQueue(Empty) /\ Blank \in Boards
<1>1. <<>> \in Seq(Nodes) /\ DOMAIN <<>> = {}
  OBVIOUS
<1>2. Empty.queue = <<>> /\ Empty.visited = {}
  BY DEF Empty
<1>3. Empty \in Frontier
  BY <1>1 DEF Empty, Frontier
<1>4. Blank \in Boards
  BY DEF Blank, Boards, Absent, NodeState
<1> QED BY <1>1, <1>2, <1>3, <1>4 DEF SoundQueue, Once, Queued

LEMMA QueueStarts == Init => QueueInv
<1> SUFFICES ASSUME Init PROVE QueueInv
  OBVIOUS
<1>1. board \in Boards /\ frontier \in Frontier /\ SoundQueue(frontier)
  BY Blanks DEF Init
<1>2. /\ call \in [Workers -> Call \cup {None}] /\ leases \in [Workers -> SUBSET Nodes] /\ done \subseteq Nodes
      /\ seized \subseteq Nodes /\ overlaps \in 0..MaxOverlaps /\ given \subseteq Nodes /\ undone \subseteq Nodes
  BY OptionsAssumption DEF Init
<1>3. \A w \in Workers : call[w] = None
  BY DEF Init
<1> QED BY <1>1, <1>2, <1>3 DEF QueueInv, TypeOK

LEMMA QueueLoads == ASSUME QueueInv, NEW w \in Workers, Load(w) PROVE QueueInv'
<1>1. PICK k \in Kinds, n \in Nodes :
        call' = [call EXCEPT ![w] =
             [kind |-> k, node |-> n, half |-> FALSE, knew |-> IF k \in BoardCalls THEN {} ELSE given \ undone,
              board |-> IF k \in FrontierCalls THEN Blank ELSE board,
              frontier |-> IF k \in BoardCalls THEN Empty ELSE frontier]]
  BY DEF Load
<1>2. /\ UNCHANGED <<board, frontier, leases, done, seized, given, undone>>
      /\ overlaps' \in {overlaps, overlaps + 1} /\ overlaps' <= MaxOverlaps
  BY DEF Load, handed
<1> DEFINE c == [kind |-> k, node |-> n, half |-> FALSE, knew |-> IF k \in BoardCalls THEN {} ELSE given \ undone,
                 board |-> IF k \in FrontierCalls THEN Blank ELSE board,
                 frontier |-> IF k \in BoardCalls THEN Empty ELSE frontier]
<1>3. c \in Call /\ SoundQueue(c.frontier)
  BY Blanks DEF Call, QueueInv, TypeOK
<1> HIDE DEF c
<1>4. call' \in [Workers -> Call \cup {None}] /\ call'[w] = c /\ \A v \in Workers \ {w} : call'[v] = call[v]
  BY <1>1, <1>3 DEF QueueInv, TypeOK, c
<1>5. overlaps' \in 0..MaxOverlaps
  BY <1>2 DEF QueueInv, TypeOK
<1>6. TypeOK'
  BY <1>2, <1>4, <1>5 DEF QueueInv, TypeOK
<1> QED BY <1>2, <1>3, <1>4, <1>6 DEF QueueInv, SoundQueue, Queued

\* A handler that returns and writes a sound frontier, if it writes one.
LEMMA QueueReturns ==
  ASSUME QueueInv, NEW w \in Workers, Return(w), UNCHANGED overlaps,
         board' \in Boards, frontier' \in Frontier, SoundQueue(frontier'),
         leases' \in [Workers -> SUBSET Nodes], done' \subseteq Nodes, seized' \subseteq Nodes,
         given' \subseteq Nodes, undone' \subseteq Nodes
  PROVE  QueueInv'
<1>1. call' \in [Workers -> Call \cup {None}] /\ \A v \in Workers : call'[v] \in {call[v], None}
  BY DEF Return, QueueInv, TypeOK
<1>2. TypeOK'
  BY <1>1 DEF QueueInv, TypeOK
<1>3. SoundQueue(frontier)'
  BY DEF SoundQueue, Queued
<1>4. ASSUME NEW v \in Workers, call'[v] # None PROVE SoundQueue(call'[v].frontier)
  BY <1>1, <1>4 DEF QueueInv
<1> QED BY <1>2, <1>3, <1>4 DEF QueueInv, SoundQueue, Queued

LEMMA CopyTyped ==
  ASSUME QueueInv, NEW w \in Workers, call[w] # None
  PROVE  /\ call[w] \in Call /\ call[w].node \in Nodes /\ call[w].board \in Boards /\ SoundQueue(call[w].frontier)
         /\ call[w].frontier \in Frontier /\ call[w].frontier.queue \in Seq(Nodes) /\ call[w].frontier.visited \subseteq Nodes
<1>1. call[w] \in Call /\ SoundQueue(call[w].frontier)
  BY DEF QueueInv, TypeOK
<1> QED BY <1>1 DEF Call, Frontier

LEMMA BoardCallsKeep ==
  ASSUME QueueInv, NEW w \in Workers,
         Create(w) \/ Claim(w) \/ Heartbeat(w) \/ Complete(w) \/ Status(w) \/ Crash(w)
  PROVE  QueueInv'
<1>1. call[w] # None /\ Return(w) /\ UNCHANGED <<overlaps, frontier, given, undone>>
  BY DEF Create, Claim, Heartbeat, Complete, Status, Crash, Calls, handed
<1>2. call[w].node \in Nodes /\ call[w].board \in Boards
  BY <1>1, CopyTyped
<1>3. TypeOK
  BY DEF QueueInv
<1>4. Pending \in NodeState /\ Completed \in NodeState /\ Absent \in NodeState /\ ClaimedBy(w) \in NodeState
  BY DEF Pending, Completed, Absent, ClaimedBy, NodeState
<1>5. board' \in Boards
  <2>1. CASE Create(w)
    BY <2>1, <1>4 DEF Create, Boards
  <2>2. CASE Claim(w) \/ Heartbeat(w) \/ Complete(w)
    BY <2>2, <1>2, <1>4 DEF Claim, Heartbeat, Complete, SaveNode, Boards
  <2>3. CASE Status(w)
    BY <2>3, <1>2, <1>3, <1>4 DEF Status, Boards, TypeOK
  <2>4. CASE Crash(w)
    BY <2>4, <1>3 DEF Crash, TypeOK
  <2> QED BY <2>1, <2>2, <2>3, <2>4
<1>6. leases' \in [Workers -> SUBSET Nodes]
  <2>1. CASE Create(w) \/ Heartbeat(w) \/ Crash(w)
    BY <2>1, <1>3 DEF Create, Heartbeat, Crash, TypeOK
  <2>2. CASE Claim(w)
    BY <2>2, <1>2, <1>3 DEF Claim, TypeOK
  <2>3. CASE Complete(w)
    BY <2>3, <1>3 DEF Complete, TypeOK
  <2>4. CASE Status(w)
    BY <2>4, <1>3 DEF Status, TypeOK
  <2> QED BY <2>1, <2>2, <2>3, <2>4
<1>7. done' \subseteq Nodes /\ seized' \subseteq Nodes
  BY <1>2, <1>3 DEF Create, Claim, Heartbeat, Complete, Status, Crash, TypeOK
<1>8. frontier' \in Frontier /\ SoundQueue(frontier') /\ given' \subseteq Nodes /\ undone' \subseteq Nodes
  BY <1>1 DEF QueueInv, TypeOK
<1> QED BY <1>1, <1>5, <1>6, <1>7, <1>8, QueueReturns

LEMMA AssignBoardKeeps == ASSUME QueueInv, NEW w \in Workers, AssignBoard(w) PROVE QueueInv'
<1>1. /\ call[w] # None /\ call' = [call EXCEPT ![w].half = TRUE]
      /\ UNCHANGED <<frontier, leases, done, seized, given, undone, overlaps>>
      /\ board' = [n \in Nodes |-> IF n \in Assigned(call[w]) THEN ClaimedBy(w) ELSE call[w].board[n]]
  BY DEF AssignBoard, Calls, handed
<1>2. call[w] \in Call /\ call[w].board \in Boards /\ SoundQueue(call[w].frontier)
  BY <1>1, CopyTyped
<1>3. ClaimedBy(w) \in NodeState
  BY DEF ClaimedBy, NodeState
<1>4. board' \in Boards
  BY <1>1, <1>2, <1>3 DEF Boards
<1> DEFINE c == [call[w] EXCEPT !.half = TRUE]
<1>5. c \in Call /\ c.frontier = call[w].frontier
  BY <1>2 DEF Call
<1>6. call' = [call EXCEPT ![w] = c]
  BY <1>1
<1> HIDE DEF c
<1>7. call' \in [Workers -> Call \cup {None}] /\ call'[w] = c /\ \A v \in Workers \ {w} : call'[v] = call[v]
  BY <1>5, <1>6 DEF QueueInv, TypeOK
<1>8. TypeOK'
  BY <1>1, <1>4, <1>7 DEF QueueInv, TypeOK
<1>9. SoundQueue(frontier)'
  BY <1>1 DEF QueueInv, SoundQueue, Queued
<1>10. ASSUME NEW v \in Workers, call'[v] # None PROVE SoundQueue(call'[v].frontier)
  BY <1>2, <1>5, <1>7, <1>10 DEF QueueInv
<1> QED BY <1>8, <1>9, <1>10 DEF QueueInv, SoundQueue, Queued

LEMMA AssignFrontierKeeps == ASSUME QueueInv, NEW w \in Workers, AssignFrontier(w) PROVE QueueInv'
<1> DEFINE taken == Assigned(call[w])
           q == call[w].frontier.queue
           rest == Without(q, taken)
<1>1. /\ call[w] # None /\ Return(w) /\ UNCHANGED <<board, done, seized, overlaps>>
      /\ frontier' = [queue |-> rest, visited |-> call[w].frontier.visited \cup taken]
      /\ given' = given \cup taken /\ undone' \subseteq undone \cup given
      /\ leases' = [leases EXCEPT ![w] = @ \cup taken]
  BY DEF AssignFrontier, Calls, SaveFrontier
<1>2. q \in Seq(Nodes) /\ call[w].frontier.visited \subseteq Nodes /\ SoundQueue(call[w].frontier)
  BY <1>1, CopyTyped
<1>3. taken \subseteq Nodes
  BY DEF Assigned
<1>4. Once(q)
  BY <1>2 DEF SoundQueue
<1>5. Remains(rest, q, taken, Len(q))
  BY <1>2, <1>4, WithoutRemains
<1>6. DOMAIN q = 1..Len(q)
  BY <1>2, LenProperties
<1>7. Queued(call[w].frontier) \cap call[w].frontier.visited = {} /\ Queued(call[w].frontier) = {q[i] : i \in DOMAIN q}
  BY <1>2 DEF SoundQueue, Queued
<1> HIDE DEF taken, q, rest
<1>8. frontier'.queue = rest /\ frontier'.visited = call[w].frontier.visited \cup taken /\ frontier' \in Frontier
  BY <1>1, <1>2, <1>3, <1>5 DEF Frontier, Remains
<1>9. \A k \in DOMAIN rest : rest[k] \in Queued(call[w].frontier) /\ rest[k] \notin taken
  BY <1>5, <1>6, <1>7 DEF Remains
<1>10. SoundQueue(frontier')
  <2>1. Queued(frontier') = {rest[k] : k \in DOMAIN rest}
    BY <1>8 DEF Queued
  <2>2. Once(rest)
    BY <1>5 DEF Remains
  <2> QED BY <1>7, <1>8, <1>9, <2>1, <2>2 DEF SoundQueue
<1>11. /\ board' \in Boards /\ leases' \in [Workers -> SUBSET Nodes] /\ done' \subseteq Nodes /\ seized' \subseteq Nodes
       /\ given' \subseteq Nodes /\ undone' \subseteq Nodes
  BY <1>1, <1>3 DEF QueueInv, TypeOK
<1> QED BY <1>1, <1>8, <1>10, <1>11, QueueReturns

\* Sound writes of the frontier alone.
LEMMA QueueAppended ==
  ASSUME NEW f \in Frontier, SoundQueue(f), NEW n \in Nodes, n \notin f.visited \cup Queued(f)
  PROVE  LET g == [f EXCEPT !.queue = Append(@, n)] IN g \in Frontier /\ SoundQueue(g)
<1> DEFINE q == f.queue
           s == Append(q, n)
           g == [f EXCEPT !.queue = Append(@, n)]
<1>1. q \in Seq(Nodes) /\ f.visited \subseteq Nodes
  BY DEF Frontier
<1>2. Once(q) /\ (\A k \in DOMAIN q : q[k] \notin f.visited /\ q[k] # n) /\ n \notin f.visited
  BY DEF SoundQueue, Queued
<1> HIDE DEF q
<1>3. /\ s \in Seq(Nodes) /\ DOMAIN s = DOMAIN q \cup {Len(q) + 1} /\ Len(q) \in Nat /\ DOMAIN q = 1..Len(q)
      /\ s[Len(q) + 1] = n /\ \A k \in DOMAIN q : s[k] = q[k]
  BY <1>1, AppendProperties, LenProperties
<1>4. Len(q) + 1 \notin DOMAIN q
  BY <1>3
<1>5. g \in Frontier /\ g.queue = s /\ g.visited = f.visited
  BY <1>3 DEF Frontier, q
<1> HIDE DEF g, s
<1>6. Once(s) /\ \A k \in DOMAIN s : s[k] \notin f.visited
  BY <1>2, <1>3, <1>4 DEF Once
<1>7. Queued(g) = {s[k] : k \in DOMAIN s}
  BY <1>5 DEF Queued
<1> QED BY <1>5, <1>6, <1>7 DEF SoundQueue, g

LEMMA QueuePopped ==
  ASSUME NEW f \in Frontier, SoundQueue(f), f.queue # <<>>
  PROVE  LET g == [queue |-> Tail(f.queue), visited |-> f.visited \cup {Head(f.queue)}]
         IN  g \in Frontier /\ SoundQueue(g)
<1> DEFINE q == f.queue
           t == Tail(q)
           g == [queue |-> Tail(f.queue), visited |-> f.visited \cup {Head(f.queue)}]
<1>1. q \in Seq(Nodes) /\ f.visited \subseteq Nodes /\ q # <<>>
  BY DEF Frontier
<1>2. Once(q) /\ \A k \in DOMAIN q : q[k] \notin f.visited
  BY DEF SoundQueue, Queued
<1> HIDE DEF q
<1>3. /\ t \in Seq(Nodes) /\ Head(q) \in Nodes /\ Head(q) = q[1] /\ Len(q) \in Nat /\ Len(q) > 0
      /\ DOMAIN q = 1..Len(q) /\ Len(t) = Len(q) - 1 /\ DOMAIN t = 1..Len(t)
      /\ \A k \in 1..Len(t) : t[k] = q[k + 1]
  BY <1>1, HeadTailProperties, LenProperties, EmptySeq
<1>4. g \in Frontier /\ g.queue = t /\ g.visited = f.visited \cup {q[1]}
  BY <1>1, <1>3 DEF Frontier, q
<1> HIDE DEF g, t
<1>5. \A k \in DOMAIN t : k + 1 \in DOMAIN q /\ k + 1 # 1 /\ 1 \in DOMAIN q /\ k \in Nat
  BY <1>3
<1>6. \A k \in DOMAIN t : t[k] # q[1] /\ t[k] \notin f.visited
  BY <1>2, <1>3, <1>5 DEF Once
<1>7. Once(t)
  <2> SUFFICES ASSUME NEW i \in DOMAIN t, NEW j \in DOMAIN t, t[i] = t[j] PROVE i = j
    BY DEF Once
  <2>1. q[i + 1] = q[j + 1]
    BY <1>3
  <2>2. i + 1 = j + 1
    BY <1>2, <1>5, <2>1 DEF Once
  <2> QED BY <1>5, <2>2
<1>8. Queued(g) = {t[k] : k \in DOMAIN t}
  BY <1>4 DEF Queued
<1>9. Queued(g) \cap g.visited = {} /\ Once(g.queue)
  BY <1>4, <1>6, <1>7, <1>8
<1> QED BY <1>4, <1>9 DEF SoundQueue, g

\* Calls that write the frontier alone.
LEMMA FrontierCallsKeep ==
  ASSUME QueueInv, NEW w \in Workers, Seed(w) \/ Pop(w) \/ Reset(w) PROVE QueueInv'
<1> DEFINE f == call[w].frontier
<1>1. call[w] # None /\ Return(w) /\ UNCHANGED <<board, leases, done, seized, overlaps>>
  BY DEF Seed, Pop, Reset, Calls
<1>2. f \in Frontier /\ SoundQueue(f) /\ call[w].node \in Nodes
  BY <1>1, CopyTyped
<1>3. ASSUME Seed(w) PROVE frontier' \in Frontier /\ SoundQueue(frontier')
  <2>1. frontier' = IF call[w].node \in f.visited \cup Queued(f) THEN f ELSE [f EXCEPT !.queue = Append(@, call[w].node)]
    BY <1>3 DEF Seed, SaveFrontier
  <2> HIDE DEF f
  <2> QED BY <1>2, <2>1, QueueAppended
<1>4. ASSUME Pop(w) PROVE frontier' \in Frontier /\ SoundQueue(frontier')
  <2>1. frontier' = IF f.queue = <<>> THEN f ELSE [queue |-> Tail(f.queue), visited |-> f.visited \cup {Head(f.queue)}]
    BY <1>4 DEF Pop, SaveFrontier
  <2> HIDE DEF f
  <2> QED BY <1>2, <2>1, QueuePopped
<1>5. ASSUME Reset(w) PROVE frontier' \in Frontier /\ SoundQueue(frontier')
  BY <1>5, Blanks DEF Reset
<1>6. frontier' \in Frontier /\ SoundQueue(frontier')
  BY <1>3, <1>4, <1>5
<1>7. given' \subseteq Nodes /\ undone' \subseteq Nodes
  <2>1. given \subseteq Nodes /\ undone \subseteq Nodes
    BY DEF QueueInv, TypeOK
  <2>2. CASE Seed(w)
    BY <2>1, <2>2 DEF Seed, SaveFrontier
  <2>3. CASE Pop(w)
    <3>1. f.queue # <<>> => Head(f.queue) \in Nodes
      <4>1. f.queue \in Seq(Nodes)
        BY <1>2 DEF Frontier
      <4> QED BY <4>1, HeadTailProperties
    <3>2. \/ f.queue = <<>> /\ SaveFrontier(w, f, {})
          \/ f.queue # <<>> /\ \E g : SaveFrontier(w, g, {Head(f.queue)})
      BY <2>3 DEF Pop
    <3> QED BY <2>1, <3>1, <3>2 DEF SaveFrontier
  <2>4. CASE Reset(w)
    BY <2>4 DEF Reset
  <2> QED BY <2>2, <2>3, <2>4
<1> QED BY <1>1, <1>6, <1>7, QueueReturns DEF QueueInv, TypeOK

LEMMA QueueSteps == ASSUME QueueInv, [Next]_vars PROVE QueueInv'
<1>1. CASE UNCHANGED vars
  BY <1>1 DEF vars, handed, QueueInv, TypeOK, SoundQueue, Queued
<1>2. ASSUME NEW n \in Nodes, Age(n) PROVE QueueInv'
  <2>1. UNCHANGED <<frontier, call, leases, done, seized, given, undone, overlaps>> /\ board' \in Boards
    BY <1>2 DEF Age, handed, QueueInv, TypeOK, Boards, NodeState
  <2> QED BY <2>1 DEF QueueInv, TypeOK, SoundQueue, Queued
<1> QED BY <1>1, <1>2, QueueLoads, BoardCallsKeep, AssignBoardKeeps, AssignFrontierKeeps, FrontierCallsKeep
        DEF Next, Finish

\* A copy of the frontier shows as visited what it knows to be handed out; so does the file, but
\* for what an older copy has undone.
Recalls(c) == c.kind \notin BoardCalls => c.knew \subseteq c.frontier.visited
\* A call that nothing overlaps knows of all that is handed out.
Current(w) == /\ \A v \in Workers : call[v] # None => v = w
              /\ call[w].kind \notin BoardCalls => given \subseteq call[w].knew
HandedInv == /\ given \ undone \subseteq frontier.visited
             /\ \A w \in Workers : call[w] # None => Recalls(call[w])
             /\ overlaps \in Nat
             /\ overlaps = 0 => undone = {} /\ \A w \in Workers : call[w] # None => Current(w)

LEMMA HandedStarts == Init => HandedInv
BY DEF Init, HandedInv, Empty

LEMMA HandedLoads == ASSUME QueueInv, HandedInv, NEW w \in Workers, Load(w) PROVE HandedInv'
<1>1. PICK k \in Kinds, n \in Nodes :
        call' = [call EXCEPT ![w] =
             [kind |-> k, node |-> n, half |-> FALSE, knew |-> IF k \in BoardCalls THEN {} ELSE given \ undone,
              board |-> IF k \in FrontierCalls THEN Blank ELSE board,
              frontier |-> IF k \in BoardCalls THEN Empty ELSE frontier]]
  BY DEF Load
<1>2. /\ UNCHANGED <<frontier, given, undone>> /\ overlaps' \in {overlaps, overlaps + 1}
      /\ (\A v \in Workers : call[v] = None) \/ overlaps' = overlaps + 1
  BY DEF Load, handed
<1>3. DOMAIN call = Workers
  BY DEF QueueInv, TypeOK
<1>4. /\ call'[w].kind = k /\ (k \notin BoardCalls => call'[w].knew = given \ undone /\ call'[w].frontier = frontier)
      /\ \A v \in Workers \ {w} : call'[v] = call[v]
  BY <1>1, <1>3
<1>5. \A v \in Workers : call'[v] # None => Recalls(call'[v])
  BY <1>4 DEF HandedInv, Recalls
<1>6. overlaps' \in Nat /\ (overlaps' = 0 => overlaps = 0 /\ \A v \in Workers : call[v] = None)
  BY <1>2 DEF HandedInv
<1>7. overlaps' = 0 => undone' = {} /\ \A v \in Workers : call'[v] # None => Current(v)'
  BY <1>2, <1>4, <1>6 DEF HandedInv, Current
<1> QED BY <1>2, <1>5, <1>6, <1>7 DEF HandedInv

\* A call that returns with the frontier as it was, or with one that shows as visited what its copy
\* did and what it hands out.
LEMMA HandedReturns ==
  ASSUME QueueInv, HandedInv, NEW w \in Workers, call[w] # None, Return(w), UNCHANGED overlaps,
         \/ UNCHANGED <<frontier, given, undone>>
         \/ given' = {} /\ undone' = {}
         \/ /\ call[w].kind \notin BoardCalls
            /\ \E f, out : SaveFrontier(w, f, out) /\ call[w].frontier.visited \cup out \subseteq f.visited
  PROVE  HandedInv'
<1>1. \A v \in Workers : call'[v] \in {call[v], None} /\ call'[w] = None
  BY DEF Return, QueueInv, TypeOK
<1>2. \A v \in Workers : call'[v] # None => Recalls(call'[v])
  BY <1>1 DEF HandedInv
<1>3. overlaps = 0 => \A v \in Workers : call'[v] = None
  BY <1>1 DEF HandedInv, Current
<1>4. given' \ undone' \subseteq frontier'.visited /\ (overlaps = 0 => undone' = {})
  <2>1. CASE UNCHANGED <<frontier, given, undone>>
    BY <2>1 DEF HandedInv
  <2>2. CASE given' = {} /\ undone' = {}
    BY <2>2
  <2>3. CASE /\ call[w].kind \notin BoardCalls
             /\ \E f, out : SaveFrontier(w, f, out) /\ call[w].frontier.visited \cup out \subseteq f.visited
    <3>1. PICK f, out : SaveFrontier(w, f, out) /\ call[w].frontier.visited \cup out \subseteq f.visited
      BY <2>3
    <3>2. call[w].knew \subseteq call[w].frontier.visited
      BY <2>3 DEF HandedInv, Recalls
    <3>3. overlaps = 0 => undone = {} /\ given \subseteq call[w].knew
      BY <2>3 DEF HandedInv, Current
    <3> QED BY <3>1, <3>2, <3>3 DEF SaveFrontier
  <2> QED BY <2>1, <2>2, <2>3
<1> QED BY <1>2, <1>3, <1>4 DEF HandedInv

LEMMA HandedSteps == ASSUME QueueInv, HandedInv, [Next]_vars PROVE HandedInv'
<1>1. CASE UNCHANGED vars
  BY <1>1 DEF vars, handed, HandedInv, Recalls, Current
<1>2. ASSUME NEW n \in Nodes, Age(n) PROVE HandedInv'
  BY <1>2 DEF Age, handed, HandedInv, Recalls, Current
<1>3. ASSUME NEW w \in Workers, Create(w) \/ Claim(w) \/ Heartbeat(w) \/ Complete(w) \/ Status(w) \/ Crash(w)
      PROVE  HandedInv'
  <2>1. call[w] # None /\ Return(w) /\ UNCHANGED <<frontier, given, undone>> /\ UNCHANGED overlaps
    BY <1>3 DEF Create, Claim, Heartbeat, Complete, Status, Crash, Calls, handed
  <2> QED BY <2>1, HandedReturns
<1>4. ASSUME NEW w \in Workers, AssignBoard(w) PROVE HandedInv'
  <2>1. /\ call[w] # None /\ UNCHANGED <<frontier, given, undone, overlaps>> /\ call' = [call EXCEPT ![w].half = TRUE]
    BY <1>4 DEF AssignBoard, Calls, handed
  <2>2. call[w] \in Call /\ call \in [Workers -> Call \cup {None}]
    BY <2>1 DEF QueueInv, TypeOK
  <2>3. /\ call'[w].kind = call[w].kind /\ call'[w].knew = call[w].knew /\ call'[w].frontier = call[w].frontier
        /\ \A v \in Workers \ {w} : call'[v] = call[v]
    BY <2>1, <2>2 DEF Call
  <2> QED BY <2>1, <2>3 DEF HandedInv, Recalls, Current
<1>5. ASSUME NEW w \in Workers, AssignFrontier(w) PROVE HandedInv'
  <2>1. call[w] # None /\ call[w].kind \notin BoardCalls /\ Return(w) /\ UNCHANGED overlaps
    BY <1>5 DEF AssignFrontier, Calls, BoardCalls
  <2>2. \E f, out : SaveFrontier(w, f, out) /\ call[w].frontier.visited \cup out \subseteq f.visited
    BY <1>5 DEF AssignFrontier
  <2> QED BY <2>1, <2>2, HandedReturns
<1>6. ASSUME NEW w \in Workers, Seed(w) \/ Pop(w) PROVE HandedInv'
  <2>1. call[w] # None /\ call[w].kind \notin BoardCalls /\ Return(w) /\ UNCHANGED overlaps
    BY <1>6 DEF Seed, Pop, Calls, BoardCalls
  <2> DEFINE f == call[w].frontier
             appended == [f EXCEPT !.queue = Append(@, call[w].node)]
             popped == [queue |-> Tail(f.queue), visited |-> f.visited \cup {Head(f.queue)}]
  <2>2. f \in Frontier
    BY <2>1, CopyTyped
  <2>3. appended.visited = f.visited /\ popped.visited = f.visited \cup {Head(f.queue)}
    BY <2>2 DEF Frontier
  <2>4. SaveFrontier(w, f, {}) \/ SaveFrontier(w, appended, {}) \/ SaveFrontier(w, popped, {Head(f.queue)})
    BY <1>6 DEF Seed, Pop
  <2> HIDE DEF appended, popped
  <2>5. \E g, out : SaveFrontier(w, g, out) /\ f.visited \cup out \subseteq g.visited
    BY <2>3, <2>4
  <2> QED BY <2>1, <2>5, HandedReturns
<1>7. ASSUME NEW w \in Workers, Reset(w) PROVE HandedInv'
  <2>1. call[w] # None /\ Return(w) /\ UNCHANGED overlaps /\ given' = {} /\ undone' = {}
    BY <1>7 DEF Reset, Calls
  <2> QED BY <2>1, HandedReturns
<1> QED BY <1>1, <1>2, <1>3, <1>4, <1>5, <1>6, <1>7, HandedLoads DEF Next, Finish

\* However the writes of calls interleave and processes die, the frontier queues a node once, and
\* none that was handed out since it was reset, unless a call that had read it before has written its
\* copy back over that; calls that take turns never do (context.rs:4763-4961, handle_frontier).
THEOREM QueueSafe == Spec => []QueueSound
<1>1. Init => QueueInv /\ HandedInv
  BY QueueStarts, HandedStarts
<1>2. QueueInv /\ HandedInv /\ [Next]_vars => (QueueInv /\ HandedInv)'
  BY QueueSteps, HandedSteps
<1>3. QueueInv /\ HandedInv => QueueSound
  BY DEF QueueInv, HandedInv, QueueSound, QueuedOnce, SoundQueue, Once
<1> QED BY <1>1, <1>2, <1>3, PTL DEF Spec

-----------------------------------------------------------------------------
(* The graph and the policy beside delegation                              *)

LEMMA GraphHolds == GraphInv => GraphAndPolicyKeep
BY BuildersMeet, RefreshCostsThat, ForestHolds, SurestIsBest, DistancesHold, CyclesAreLoops, DecisionsAreSound
   DEF GraphInv, GraphKeeps, GraphAndPolicyKeep

\* Whatever the symbols, nodes, saves and settings, and beside any delegation: the builders
\* agree, nesting is a forest, levels are distances, cycles are loops, an edge of the graph saved last
\* is missing on disk only if its insertion is yet to come, failed or died, or a drop took it, and the
\* policy's decisions are sound (graph.rs:1090-1122, search.rs:142-153).
THEOREM GraphSafe == MCSpec => []GraphAndPolicyKeep
<1>1. MCInit => GraphInv
  BY GraphStarts DEF MCInit
<1>2. GraphInv /\ [MCNext]_<<part, vars, graphVars>> => GraphInv'
  BY GraphSteps DEF MCNext
<1> QED BY <1>1, <1>2, GraphHolds, PTL DEF MCSpec
=============================================================================
