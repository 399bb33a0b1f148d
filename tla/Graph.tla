--------------------------------- MODULE Graph ---------------------------------
(***************************************************************************)
(* The dependency graph (graph.rs, the edges of storage.rs).  Two builders *)
(* derive edges from symbols: one reads everything, the other refreshes    *)
(* what a commit of the index has touched.  An audit saves what it built   *)
(* edge by edge over the edges of the index, while other audits, commits,  *)
(* readers and the drops of edits come in between, and statements fail.    *)
(***************************************************************************)
EXTENDS Integers, Sequences, FiniteSets, FiniteSetsExt

CONSTANTS Tables, CallTables,  \* symbol tables tried
          GraphNodes, Depths,  \* nodes and depths of the graphs tried
          Audits, Built,       \* calls; the graph that each version of the workspace has
          MaxAudits, MaxDropped \* bounds

ASSUME GraphAssumption == /\ Built \in Seq(SUBSET (GraphNodes \X GraphNodes)) /\ Built # <<>>
                          /\ Depths \subseteq Nat /\ IsFiniteSet(GraphNodes)
\* The id is the primary key of symbols.
ASSUME TablesAssumption ==
  \A t \in Tables \cup CallTables :
    /\ t \in Seq({t[i] : i \in DOMAIN t})
    /\ \A i, j \in DOMAIN t : /\ t[i].from \in Nat /\ t[i].to \in Nat
                              /\ t[i].id = t[j].id => i = j
-----------------------------------------------------------------------------
(* From symbols to edges.  A symbol is a record: id, name, kind, role,     *)
(* link, file, dir and ext of its file, span from..to, the scope that its  *)
(* id names, whether its id is an alias (at, of), the names that its text  *)
(* calls and its file imports, each with a scope or "", and the interface  *)
(* and the structure that its name says it realizes, or <<>>.              *)

In(t) == {t[i] : i \in DOMAIN t}
Def(s) == s.role = "definition"
Fan(s, D, kind) == {<<s.id, d.id, kind>> : d \in D}
Typed(p, kind) == {<<e[1].id, e[2].id, kind>> : e \in p}

\* A stub is joined to the definitions of its link name, else to those of its name.
ByLink(t, s) == {d \in In(t) : Def(d) /\ d.id # s.id /\ s.link # "" /\ d.link = s.link}
ByName(t, s) == {d \in In(t) : Def(d) /\ d.id # s.id /\ d.name = s.name}
StubEdges(t, S) ==
  UNION {IF ByLink(t, s) # {} THEN Fan(s, ByLink(t, s), "universal_link")
         ELSE Fan(s, ByName(t, s), "universal_name") : s \in {x \in S : x.role = "stub"}}

Owners == {"class", "struct", "interface"}
Encloses(p, c) ==
  /\ p.id # c.id /\ Def(p) /\ Def(c) /\ p.kind \in Owners \cup {"module"}
  /\ p.file = c.file /\ c.from > p.from /\ c.to <= p.to
\* The shortest of the enclosing symbols, the first of them in the table.
ParentOf(t, c) ==
  {t[i] : i \in {j \in DOMAIN t : Encloses(t[j], c) /\ \A k \in DOMAIN t : Encloses(t[k], c) =>
                   \/ t[j].to - t[j].from < t[k].to - t[k].from
                   \/ t[j].to - t[j].from = t[k].to - t[k].from /\ j <= k}}
Contained(t) == UNION {ParentOf(t, c) \X {c} : c \in In(t)}
Declared(C) == {e \in C : e[1].kind = "module"}
Owned(C) == {e \in C : e[1].kind \in Owners /\ e[2].kind \in {"function", "method"}}
Nesting(C) == Typed(C, "contains") \cup Typed(Declared(C), "declares") \cup Typed(Owned(C), "owns_member")

\* resolve_call_targets: the best of the symbols of that name.
Bool(b, n) == IF b THEN n ELSE 0
Qualified(c, t) == c.scope # "" /\ t.scope = c.scope
Score(c, s, t) ==
  Bool(t.file = s.file, 100) + Bool(t.dir = s.dir, 20) + Bool(t.ext = s.ext, 10) + Bool(Qualified(c, t), 15)
FreshScore(c, s, t) == Score(c, s, t) + Bool(t.at, 50)
Named(t, c) == {d \in In(t) : d.name = c.name}
BestOf(C, F(_)) == {d \in C : \A x \in C : F(x) <= F(d)}
IndexedTargets(t, s, c) == LET F(d) == Score(c, s, d) IN BestOf(Named(t, c), F)
FreshTargets(t, s, c) == LET F(d) == FreshScore(c, s, d) IN BestOf(Named(t, c), F)
\* An alias gives way to what it is an alias of.
Primary(t, d) == IF d.of # "" /\ \E p \in In(t) : p.id = d.of THEN {p \in In(t) : p.id = d.of} ELSE {d}
\* score_call_confidence, in hundredths.
CallConfidence(c, s, t, unique) ==
  LET sum == 58 + Bool(t.file = s.file, 18) + Bool(t.dir = s.dir, 7) + Bool(t.ext = s.ext, 4) + Bool(t.at, 3)
             + Bool(c.scope # "", 8) + Bool(Qualified(c, t), 5) + (IF unique THEN 8 ELSE -10)
  IN  Min({92, Max({35, sum})})
\* A definition imports every symbol of the names that its file imports.
ImportEdges(t, S) == UNION {Fan(s, UNION {Named(t, c) : c \in s.imports}, "imports") : s \in {x \in S : Def(x)}}
BridgeEdges(t, S) == UNION {Fan(s, {d \in In(t) : d.name = s.name /\ d.core}, "bridge") : s \in {x \in S : x.wrapper}}
Realized(t, s) == {d \in In(t) : /\ s.realizes # <<>>
                                 /\ \/ d.name = s.realizes[1] /\ d.kind = "interface"
                                    \/ d.name = s.realizes[2] /\ d.kind \in {"struct", "class"}}
NoLoops(E) == {e \in E : e[1] # e[2]}
Readable(t, R) == {s \in In(t) : s.file \in R}
\* build_dependency_graph_inner: of all symbols, and the files that can be read.
FreshEdges(t, R) ==
  NoLoops(StubEdges(t, In(t)) \cup Nesting(Contained(t)) \cup ImportEdges(t, Readable(t, R)) \cup BridgeEdges(t, In(t))
    \cup (UNION {Fan(s, Realized(t, s), "realizes") : s \in In(t)})
    \cup UNION {Fan(s, UNION {Primary(t, d) : d \in UNION {FreshTargets(t, s, c) : c \in s.calls}}, "calls") :
                   s \in Readable(t, R)})
\* refresh_graph_edges_tx: of the impacted ones; nesting of every file that can be read.
IndexedEdges(t, R, E, hit) ==
  LET H == {s \in In(t) : s.id \in hit}
      HR == H \cap Readable(t, R)
  IN  {e \in E : e[1] \notin hit /\ e[2] \notin hit}
      \cup NoLoops(StubEdges(t, H) \cup Nesting({e \in Contained(t) : e[1].file \in R}) \cup ImportEdges(t, HR)
             \cup BridgeEdges(t, H)
             \cup UNION {Fan(s, UNION {IndexedTargets(t, s, c) : c \in s.calls}, "calls") : s \in HR})
-----------------------------------------------------------------------------
(* Questions to a graph, a set of pairs                                    *)

Callees(E, n) == {m \in GraphNodes : <<n, m>> \in E}
Callers(E, n) == {m \in GraphNodes : <<m, n>> \in E}
NextTo(E, dir, N) == UNION {IF dir = "up" THEN Callers(E, n) ELSE Callees(E, n) : n \in N}
Levels(E, start, dir, depth) ==
  LET at[n \in 0..depth] ==
        IF n = 0 THEN {start} ELSE NextTo(E, dir, at[n - 1]) \ UNION {at[k] : k \in 0..n - 1}
  IN  at
\* Mutant: what has been visited is visited again.
BfsAgain(E, start, dir, depth) ==
  LET at[n \in 0..depth] == IF n = 0 THEN {start} ELSE NextTo(E, dir, at[n - 1]) IN [n \in 1..depth |-> at[n]]
\* bfs_levels: one level more than there are, if the depth allows, and that one empty.
BfsLevels(E, start, dir, depth) ==
  LET lv == Levels(E, start, dir, depth)
      many == Cardinality({n \in 1..depth : lv[n - 1] # {}})
  IN  [n \in 1..many |-> lv[n]]
Around(E, roots, up, down) ==
  roots \cup UNION {UNION (In(BfsLevels(E, r, "up", up)) \cup In(BfsLevels(E, r, "down", down))) : r \in roots}
EdgesInClosure(E, roots, up, down) == {e \in E : e[1] \in Around(E, roots, up, down) /\ e[2] \in Around(E, roots, up, down)}
\* find_cycles: the strongly connected components of more than one node.
Reaches(E, n) == UNION In(BfsLevels(E, n, "down", Cardinality(GraphNodes)))
FindCycles(E) ==
  {C \in {{n} \cup {m \in Reaches(E, n) : n \in Reaches(E, m)} : n \in GraphNodes} : Cardinality(C) > 1}

\* calculate_integrity: stubs, those with an edge, and the cycles.
Integrity(t, E) ==
  LET stubs == {s \in In(t) : s.role = "stub"}
  IN  [stubs |-> Cardinality(stubs), resolved |-> Cardinality({s \in stubs : \E e \in E : e[1] = s.id}),
       cycles |-> FindCycles({<<e[1], e[2]>> : e \in E})]
LessCohesive(a, b) == LET W(r, q) == IF r.stubs = 0 THEN q.stubs ELSE r.resolved * q.stubs
                      IN  IF b.stubs = 0 THEN a.stubs # 0 /\ a.resolved < a.stubs
                          ELSE IF a.stubs = 0 THEN FALSE ELSE a.resolved * b.stubs < b.resolved * a.stubs
\* verify_impact, when strict: worse than the workspace, or not nine tenths.
Rejected(report, baseline) ==
  IF baseline = <<>> THEN report.stubs # 0 /\ 10 * report.resolved < 9 * report.stubs
  ELSE LessCohesive(report, baseline[1])
-----------------------------------------------------------------------------
(* The edges on disk                                                       *)

VARIABLES dbedges,  \* table edges
          version,  \* of the workspace, an index of Built
          indexed,  \* is there a symbol
          audit,    \* each call: its step, its graph, the edges left to insert
          dropping, \* edits that have dropped the symbols, and not yet the edges
          lastsave, \* history: what the last save and the commits and drops since make of the edges
          lost,     \* history: what has failed to be inserted, or been dropped from under its symbols
          mixed,    \* history: what older saves may bring
          audits, drops

graphVars == <<dbedges, version, indexed, audit, dropping, lastsave, lost, mixed, audits, drops>>
disk == <<dbedges, lastsave, lost, mixed>>
NoAudit == [at |-> "idle", graph |-> {}, left |-> {}]
Pairs == GraphNodes \X GraphNodes
AuditSteps == {"idle", "ensure", "cached", "symbols", "again", "delete", "insert", "answer"}
GraphTypeOK == /\ dbedges \subseteq Pairs /\ version \in DOMAIN Built /\ indexed \in BOOLEAN
               /\ \A x \in Audits : /\ audit[x].at \in AuditSteps
                                    /\ audit[x].graph \subseteq Pairs /\ audit[x].left \subseteq audit[x].graph
GraphInit == /\ dbedges = {} /\ version = 1 /\ indexed = FALSE /\ audit = [x \in Audits |-> NoAudit] /\ dropping = 0
             /\ lastsave = {} /\ lost = {} /\ mixed = {} /\ audits = 0 /\ drops = 0
AtStep(x, at) == audit[x].at = at
Becomes(x, r) == audit' = [audit EXCEPT ![x] = r]
SourcesChange == version < Len(Built) /\ version' = version + 1 /\ UNCHANGED <<disk, indexed, audit, dropping, audits, drops>>
\* commit_indexing_results, one transaction: what touches H goes, what H calls comes.
Refreshed1(E, H) == {e \in E : e[1] \notin H /\ e[2] \notin H} \cup {e \in Built[version] : e[1] \in H}
Unsaved1 == UNION {audit[x].left : x \in Audits}
IndexCommits(H) ==
  /\ indexed' = TRUE /\ dbedges' = Refreshed1(dbedges, H) /\ lastsave' = Refreshed1(lastsave, H)
  /\ lost' = {e \in lost : e[1] \notin H /\ e[2] \notin H} /\ mixed' = mixed \cup Unsaved1
  /\ UNCHANGED <<version, audit, dropping, audits, drops>>
\* invalidate_index, after an edit: files and symbols, and then the edges, if they do not
\* go with the symbols.  Errors are ignored.
DropsSymbols ==
  /\ drops < MaxDropped /\ drops' = drops + 1 /\ dropping' = dropping + 1
  /\ \/ indexed' = FALSE /\ dbedges' = {} /\ lastsave' = {} /\ lost' = {} /\ mixed' = Unsaved1
     \/ indexed' \in {indexed, FALSE} /\ UNCHANGED disk
  /\ UNCHANGED <<version, audit, audits>>
\* A commit may have brought symbols in between: theirs are lost.
DropsEdges ==
  /\ dropping > 0 /\ dropping' = dropping - 1 /\ dbedges' = {} /\ mixed' = Unsaved1
  /\ IF indexed THEN lost' = lastsave /\ lastsave' = lastsave ELSE lost' = {} /\ lastsave' = {}
  /\ UNCHANGED <<version, indexed, audit, audits, drops>>
\* The statement fails, or the process dies before it.
LeavesEdges == dropping > 0 /\ dropping' = dropping - 1 /\ UNCHANGED <<disk, version, indexed, audit, audits, drops>>
GoesTo(x, at) == Becomes(x, [audit[x] EXCEPT !.at = at]) /\ UNCHANGED <<disk, version, indexed, dropping, audits, drops>>
\* load_graph_cache: the edges, if there is a symbol; else, or if it fails, as a fresh build.
BeginGraph(x, fresh) ==
  /\ AtStep(x, "idle") /\ audits < MaxAudits /\ audits' = audits + 1
  /\ Becomes(x, [NoAudit EXCEPT !.at = IF fresh THEN "ensure" ELSE IF indexed THEN "answer" ELSE "cached"])
  /\ UNCHANGED <<disk, version, indexed, dropping, drops>>
\* ensure_index, which commits if it must.
EnsuresIndex(x, at) == AtStep(x, at) /\ indexed /\ GoesTo(x, IF at = "cached" THEN "again" ELSE "symbols")
\* The symbols, which may have been dropped again, and the files as they are now.  Where the
\* edges would do, they are looked for once more in between.
FoundCached(x) == AtStep(x, "again") /\ indexed /\ GoesTo(x, "answer")
BuildsFresh(x) ==
  /\ AtStep(x, "symbols") \/ AtStep(x, "again")
  /\ \E g \in {Built[version]} \cup (IF drops = 0 THEN {} ELSE {{}}) : Becomes(x, [at |-> "delete", graph |-> g, left |-> {}])
  /\ AtStep(x, "again") => ~indexed
  /\ UNCHANGED <<disk, version, indexed, dropping, audits, drops>>
\* save_graph_cache: a statement to delete, one for each edge, no transaction.  The first may
\* fail and be ignored; what follows may not be ready, with the edges gone.
SaveDeletes(x) ==
  /\ AtStep(x, "delete") /\ lastsave' = audit[x].graph
  /\ dbedges' \in {{}, dbedges} /\ mixed' = Unsaved1 \cup dbedges'
  /\ \/ Becomes(x, [audit[x] EXCEPT !.at = "insert", !.left = audit[x].graph]) /\ lost' = {}
     \/ Becomes(x, [audit[x] EXCEPT !.at = "answer"]) /\ lost' = lastsave'
  /\ UNCHANGED <<version, indexed, dropping, audits, drops>>
SaveRefused(x) == AtStep(x, "delete") /\ GoesTo(x, "answer")
SaveInserts(x) ==
  /\ AtStep(x, "insert") /\ \E e \in audit[x].left :
       Becomes(x, [audit[x] EXCEPT !.left = @ \ {e}]) /\ dbedges' = dbedges \cup {e} /\ lost' = lost \ {e}
  /\ UNCHANGED <<version, indexed, dropping, lastsave, mixed, audits, drops>>
\* Ignored: the base is busy, or a symbol of the edge is gone.
InsertFails(x) ==
  /\ AtStep(x, "insert") /\ \E e \in audit[x].left : Becomes(x, [audit[x] EXCEPT !.left = @ \ {e}]) /\ lost' = lost \cup {e}
  /\ UNCHANGED <<dbedges, version, indexed, dropping, lastsave, mixed, audits, drops>>
SaveEnds(x) == AtStep(x, "insert") /\ audit[x].left = {} /\ GoesTo(x, "answer")
AuditDies(x) ==
  /\ ~AtStep(x, "idle") /\ Becomes(x, NoAudit) /\ lost' = lost \cup audit[x].left
  /\ UNCHANGED <<dbedges, version, indexed, dropping, lastsave, mixed, audits, drops>>
AnswersGraph(x) == AtStep(x, "answer") /\ Becomes(x, NoAudit) /\ UNCHANGED <<disk, version, indexed, dropping, audits, drops>>
GraphNext ==
  \/ SourcesChange \/ DropsSymbols \/ DropsEdges \/ LeavesEdges
  \/ \E H \in (SUBSET GraphNodes) \ {{}} : IndexCommits(H)
  \/ \E x \in Audits :
       \/ BeginGraph(x, TRUE) \/ BeginGraph(x, FALSE) \/ EnsuresIndex(x, "ensure") \/ EnsuresIndex(x, "cached")
       \/ FoundCached(x) \/ BuildsFresh(x) \/ SaveDeletes(x) \/ SaveRefused(x) \/ SaveInserts(x) \/ InsertFails(x)
       \/ SaveEnds(x) \/ AuditDies(x) \/ AnswersGraph(x)
GraphSpec == GraphInit /\ [][GraphNext]_graphVars
-----------------------------------------------------------------------------
(* Properties                                                              *)

\* However saves, commits, drops and deaths cross, an edge of the graph that was saved last, as
\* commits have refreshed it, is missing only while a save has it yet to insert, or if its insertion
\* failed or its saver died, or a drop took it after a commit had brought the symbols back; and an
\* edge beyond that graph is one that an older save has left or has yet to bring.
SaveIsWhole == lastsave \ (Unsaved1 \cup lost) \subseteq dbedges /\ dbedges \subseteq lastsave \cup mixed
Ids(t) == {s.id : s \in In(t)}
FilesOf(t) == {s.file : s \in In(t)}
Impacted1(t, f) ==
  {s.id : s \in {y \in In(t) : \E x \in In(t) : x.file = f /\ (y.file = f \/ y.name = x.name \/ (x.link # "" /\ y.link = x.link))}}
\* The two builders agree, but for realizations, aliases and files that cannot be read.
BuildersAgree ==
  \A t \in Tables \cup CallTables : (\A s \in In(t) : ~s.at /\ s.of = "" /\ s.realizes = <<>>) =>
    /\ IndexedEdges(t, FilesOf(t), {}, Ids(t)) = FreshEdges(t, FilesOf(t))
    /\ IndexedEdges(t, {}, {}, Ids(t)) \subseteq FreshEdges(t, {})
\* A file that is committed again as it was costs the edges of other files' symbols
\* into what it touches, and no other.
RefreshCosts ==
  \A t \in CallTables : \A f \in FilesOf(t) :
    LET E == IndexedEdges(t, FilesOf(t), {}, Ids(t))
        H == Impacted1(t, f)
    IN  IndexedEdges(t, FilesOf(t), E, H) = {e \in E : e[1] \in H \/ e[2] \notin H} \cup Nesting(Contained(t))
\* Nesting is a forest, and a symbol's parent is the innermost that encloses it.
NestingIsForest ==
  \A t \in Tables :
    /\ FindCycles({<<e[1].id, e[2].id>> : e \in Contained(t)}) = {}
    /\ \A e, d \in Contained(t) : e[2] = d[2] => e = d
    /\ \A e \in Contained(t) : \A p \in In(t) : ~(Encloses(e[1], p) /\ Encloses(p, e[2]) /\ p.to - p.from < e[1].to - e[1].from)
\* Of the symbols of a name, the one that is chosen is one with the highest confidence.
BestIsSurest ==
  \A t \in CallTables : \A s \in In(t) : \A c \in s.calls : \A d \in IndexedTargets(t, s, c), x \in Named(t, c) :
    ~d.at /\ ~x.at => CallConfidence(c, s, x, TRUE) <= CallConfidence(c, s, d, TRUE)

Walks(E, n, k) == {m \in GraphNodes : \E w \in [0..k -> GraphNodes] :
                     w[0] = n /\ w[k] = m /\ \A i \in 1..k : <<w[i - 1], w[i]>> \in E}
Turned(E, dir) == IF dir = "up" THEN {<<e[2], e[1]>> : e \in E} ELSE E
\* A level holds what is that far away and no nearer, no level is missing, and what is
\* shown around a root hangs together by the edges shown.
LevelsAreDistances ==
  \A E \in SUBSET {p \in Pairs : p[1] # p[2]} : \A n \in GraphNodes, dir \in {"up", "down"} : \A d \in Depths :
    LET lv == BfsLevels(E, n, dir, d)
        near == UNION {Walks(Turned(E, dir), n, i) : i \in 0..d}
    IN  /\ {n} \cup UNION In(lv) = near
        /\ \A k \in DOMAIN lv : lv[k] = Walks(Turned(E, dir), n, k) \ UNION {Walks(Turned(E, dir), n, i) : i \in 0..k - 1}
        /\ LET shown == EdgesInClosure(E, {n}, IF dir = "up" THEN d ELSE 0, IF dir = "up" THEN 0 ELSE d)
           IN  near = UNION {Walks(Turned(shown, dir), n, i) : i \in 0..d}
\* There is no cycle to report exactly when the nodes can be put in order.
CyclesFindLoops ==
  \A E \in SUBSET {p \in Pairs : p[1] # p[2]} :
    (FindCycles(E) = {}) <=> \E r \in [GraphNodes -> 1..Cardinality(GraphNodes)] : \A e \in E : r[e[1]] < r[e[2]]

\* What the graph keeps, whichever builder made it and however saves interleave.
GraphKeeps == /\ GraphTypeOK /\ SaveIsWhole /\ BuildersAgree /\ RefreshCosts /\ NestingIsForest
              /\ BestIsSurest /\ LevelsAreDistances /\ CyclesFindLoops
=============================================================================
