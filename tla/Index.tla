-------------------------------- MODULE Index --------------------------------
(***************************************************************************)
(* The symbol index (search.rs, storage.rs).  A search scans the           *)
(* workspace, parses the files whose time and size differ from those on    *)
(* record, commits what it parsed in one transaction of a database that    *)
(* processes share, and answers from there.  In between, files change,     *)
(* other searches commit, and an edit drops the index table by table.      *)
(***************************************************************************)
EXTENDS Naturals, FiniteSets

CONSTANTS Paths, Names,    \* files, and the names that they define
          Texts, NoText,   \* contents: [defs, calls, size]; NoText: no file
          NoName,          \* no query, hence no hint
          Searchers,       \* calls and processes that search
          Modes, Scope,    \* index.mode of the configuration, index.scope
          MaxSearches, MaxEdits, MaxSecond, MaxDrops \* bounds

ASSUME IndexAssumption ==
  /\ \A t \in Texts : t.defs \subseteq Names /\ t.calls \subseteq Names /\ t.size \in Nat
  /\ Scope \subseteq Paths /\ Modes \subseteq {"full", "fast", "lazy", "scoped"}
  /\ MaxSecond \in Nat \ {0} /\ MaxDrops \in Nat

\* A file's time and size; zeros when there is none. NoPath has the meta of neither.
FileMetas == [sec: 1..MaxSecond, size: {t.size : t \in Texts}] \cup {[sec |-> 0, size |-> 0]}
Entry == [meta: FileMetas, src: Texts \cup {NoText}, whole: BOOLEAN]
NoPath == [meta |-> [sec |-> 0, size |-> 1], src |-> NoText, whole |-> FALSE]
Steps == {"idle", "parse", "answer"}

VARIABLES
  mode,      \* index_mode
  tree,      \* each file: its content, its time, what it held in that second
  rows,      \* table files, with what the parse saw; NoPath: no row
  symbols,   \* table symbols: of which content each file's name was stored
  calledges, \* table edges: the calls
  search,    \* each searcher's step, query, files left, entries, unread meta
  dropping,  \* invalidate_index: tables dropped so far
  second,    \* the clock of the files' times
  later,     \* history: <<f, g>>: f has been committed after g
  searches, edits, drops \* drops: those to come

indexVars == <<mode, tree, rows, symbols, calledges, search, dropping, second, later, searches, edits, drops>>

SymbolIds == Paths \X Names
Job == [at: Steps, query: Names \cup {NoName}, left: SUBSET Paths,
        open: [Paths -> FileMetas \cup {NoPath}], got: [Paths -> Entry \cup {NoPath}],
        still: SUBSET Paths]
IndexTypeOK ==
  /\ mode \in Modes /\ second \in 1..MaxSecond
  /\ tree \in [Paths -> [text: Texts \cup {NoText}, sec: 1..MaxSecond, past: SUBSET (Texts \cup {NoText})]]
  /\ rows \in [Paths -> Entry \cup {NoPath}]
  /\ symbols \in [SymbolIds -> Texts \cup {NoText}] /\ calledges \subseteq SymbolIds \X SymbolIds
  /\ search \in [Searchers -> Job] /\ dropping \in 0..2 /\ later \subseteq Paths \X Paths

Empties == [f \in Paths |-> NoPath]
AtRest == [at |-> "idle", query |-> NoName, left |-> {}, open |-> Empties, got |-> Empties, still |-> {}]
IndexInit ==
  /\ mode \in Modes /\ second = 1 /\ dropping = 0 /\ later = {}
  /\ tree \in [Paths -> {[text |-> t, sec |-> 1, past |-> {t}] : t \in Texts}]
  /\ rows = Empties /\ symbols = [id \in SymbolIds |-> NoText] /\ calledges = {}
  /\ search = [s \in Searchers |-> AtRest] /\ searches = 0 /\ edits = 0 /\ drops \in 0..MaxDrops
-----------------------------------------------------------------------------
(* The workspace                                                           *)

\* file_meta: zeros when there is no file.
Meta(f) == IF tree[f].text = NoText THEN [sec |-> 0, size |-> 0]
           ELSE [sec |-> tree[f].sec, size |-> tree[f].text.size]
Untouch(F) == search' = [s \in Searchers |-> [search[s] EXCEPT !.still = @ \ F]]
WriteFile(f, t) ==
  /\ edits < MaxEdits /\ edits' = edits + 1 /\ t # tree[f].text
  /\ tree' = [tree EXCEPT ![f] = [text |-> t, sec |-> second,
                past |-> IF @.sec = second THEN @.past \cup {t} ELSE {t}]]
  /\ Untouch({f})
  /\ UNCHANGED <<mode, rows, symbols, calledges, dropping, second, later, searches, drops>>
Passes == second < MaxSecond /\ second' = second + 1
          /\ UNCHANGED <<mode, tree, rows, symbols, calledges, search, dropping, later, searches, edits, drops>>
-----------------------------------------------------------------------------
(* A search                                                                *)

Found(q) == {id \in SymbolIds : id[2] = q /\ symbols[id] # NoText}
\* Mutant: a file on record is not looked at again.
HitOnce(f) == rows[f] # NoPath
Hit(f) == rows[f] # NoPath /\ rows[f].meta = Meta(f)
\* scan_workspace, the scopes, and the files that the record does not match.
ToParse == {f \in Paths : tree[f].text # NoText /\ (mode = "scoped" => f \in Scope) /\ ~Hit(f)}
Runs == searches < MaxSearches /\ searches' = searches + 1
Job0(q) == [at |-> "parse", query |-> q, left |-> ToParse, open |-> Empties, got |-> Empties,
            still |-> IF dropping = 0 THEN {f \in Paths : tree[f].text # NoText /\ (mode = "scoped" => f \in Scope)} ELSE {}]
\* In lazy mode an answer from the record will do.
SearchLazily(s, q) ==
  /\ search[s].at = "idle" /\ Runs /\ mode = "lazy" /\ Found(q) # {}
  /\ UNCHANGED <<mode, tree, rows, symbols, calledges, search, dropping, second, later, edits, drops>>
\* q = NoName: ensure_index of the tools that do not search.
BeginIndex(s, q) ==
  /\ search[s].at = "idle" /\ Runs /\ (mode = "lazy" => Found(q) = {})
  /\ search' = [search EXCEPT ![s] = Job0(q)]
  /\ UNCHANGED <<mode, tree, rows, symbols, calledges, dropping, second, later, edits, drops>>

\* process_file: the time and size are read before the content.
ReadMeta(s, f) ==
  /\ f \in search[s].left /\ search[s].open = Empties
  /\ search' = [search EXCEPT ![s].open[f] = Meta(f), ![s].left = @ \ {f}]
  /\ UNCHANGED <<mode, tree, rows, symbols, calledges, dropping, second, later, searches, edits, drops>>
Hint(s) == IF mode = "fast" THEN search[s].query ELSE NoName
Mentions(t, q) == t # NoText /\ q \in t.defs \cup t.calls
EntryOf(s, f) ==
  IF Hint(s) # NoName /\ ~Mentions(tree[f].text, Hint(s))
  THEN [meta |-> search[s].open[f], src |-> NoText, whole |-> FALSE]
  ELSE [meta |-> search[s].open[f], src |-> tree[f].text, whole |-> TRUE]
ParseFile(s, f) ==
  /\ search[s].open[f] # NoPath
  /\ search' = [search EXCEPT ![s].open = Empties, ![s].got[f] = EntryOf(s, f)]
  /\ UNCHANGED <<mode, tree, rows, symbols, calledges, dropping, second, later, searches, edits, drops>>
\* A worker process that fails takes its chunk, which is every file, with it.
WorkerFails(s) ==
  /\ search[s].at = "parse" /\ search[s].left \cup {f \in Paths : search[s].open[f] # NoPath} # {}
  /\ search' = [search EXCEPT ![s] = [AtRest EXCEPT !.at = "answer", !.query = search[s].query]]
  /\ UNCHANGED <<mode, tree, rows, symbols, calledges, dropping, second, later, searches, edits, drops>>

Got(s) == {f \in Paths : search[s].got[f] # NoPath}
Parsed(s) == search[s].at = "parse" /\ search[s].left = {} /\ search[s].open = Empties
Defs(t) == IF t = NoText THEN {} ELSE t.defs
CallsIn(t) == IF t = NoText THEN {} ELSE t.calls
\* Names that a parsed file no longer defines keep their symbols.
Merged(s) == [id \in SymbolIds |-> IF id[1] \in Got(s) /\ id[2] \in Defs(search[s].got[id[1]].src)
                             THEN search[s].got[id[1]].src ELSE symbols[id]]
\* collect_impacted_symbols: of the parsed files, and of the names parsed there.
Impacted(s, sym) ==
  {id \in SymbolIds : sym[id] # NoText /\ (id[1] \in Got(s) \/ \E f \in Got(s) : id[2] \in Defs(search[s].got[f].src))}
\* resolve_call_targets: in the caller's file if it is there, else wherever it is.
Targets(sym, g, m) == IF sym[<<g, m>>] # NoText THEN {<<g, m>>} ELSE {id \in SymbolIds : id[2] = m /\ sym[id] # NoText}
\* refresh_graph_edges_tx: the calls are read from the files as they are now, at
\* the offsets on record: with another content, cut names the callers that show none.
Refreshed(s, sym, cut) ==
  LET hit == Impacted(s, sym)
  IN  {e \in calledges : e[1] \notin hit /\ e[2] \notin hit} \cup
      {e \in (hit \ cut) \X SymbolIds : /\ e[1] # e[2]
         /\ \E m \in CallsIn(tree[e[1][1]].text) : e[2] \in Targets(sym, e[1][1], m)}
CommitIndex(s) ==
  /\ Parsed(s) /\ Got(s) # {} /\ symbols' = Merged(s)
  /\ rows' = [f \in Paths |-> IF f \in Got(s)
                THEN [search[s].got[f] EXCEPT !.whole = @ /\ dropping = 0] ELSE rows[f]]
  /\ \E cut \in SUBSET {id \in Impacted(s, symbols') : symbols'[id] # tree[id[1]].text} :
       calledges' = Refreshed(s, symbols', cut)
  /\ later' = {p \in later : p[2] \notin Got(s)} \cup Got(s) \X (Paths \ Got(s))
  /\ search' = [r \in Searchers |->
       [search[r] EXCEPT !.at = IF r = s THEN "answer" ELSE @, !.got = IF r = s THEN Empties ELSE @,
                         !.still = @ \ {f \in Got(s) : search[s].got[f].meta # Meta(f)}]]
  /\ UNCHANGED <<mode, tree, dropping, second, searches, edits, drops>>
\* Nothing to commit, or the database refuses: the error is ignored.
CommitNothing(s) ==
  /\ Parsed(s)
  /\ search' = [search EXCEPT ![s].at = "answer", ![s].got = Empties, ![s].still = IF Got(s) = {} THEN @ ELSE {}]
  /\ UNCHANGED <<mode, tree, rows, symbols, calledges, dropping, second, later, searches, edits, drops>>
AnswerSearch(s) ==
  /\ search[s].at = "answer" /\ search' = [search EXCEPT ![s] = AtRest]
  /\ UNCHANGED <<mode, tree, rows, symbols, calledges, dropping, second, later, searches, edits, drops>>
-----------------------------------------------------------------------------
(* invalidate_index: three statements, each of which cascades to what      *)
(* refers to its rows.                                                     *)

DropFiles ==
  /\ dropping = 0 /\ drops > 0 /\ drops' = drops - 1 /\ dropping' = 1
  /\ rows' = Empties /\ symbols' = [id \in SymbolIds |-> NoText] /\ calledges' = {} /\ Untouch(Paths)
  /\ UNCHANGED <<mode, tree, second, later, searches, edits>>
DropSymbols ==
  /\ dropping = 1 /\ dropping' = 2
  /\ symbols' = [id \in SymbolIds |-> NoText] /\ calledges' = {} /\ Untouch(Paths)
  /\ UNCHANGED <<mode, tree, rows, second, later, searches, edits, drops>>
DropEdges ==
  /\ dropping = 2 /\ dropping' = 0 /\ calledges' = {} /\ Untouch(Paths)
  /\ UNCHANGED <<mode, tree, rows, symbols, second, later, searches, edits, drops>>

IndexNext ==
  \/ \E f \in Paths, t \in Texts \cup {NoText} : WriteFile(f, t)
  \/ Passes \/ DropFiles \/ DropSymbols \/ DropEdges
  \/ \E s \in Searchers :
       \/ \E q \in Names : SearchLazily(s, q)
       \/ \E q \in Names \cup {NoName} : BeginIndex(s, q)
       \/ \E f \in Paths : ReadMeta(s, f) \/ ParseFile(s, f)
       \/ WorkerFails(s) \/ CommitIndex(s) \/ CommitNothing(s) \/ AnswerSearch(s)
IndexSpec == IndexInit /\ [][IndexNext]_indexVars
-----------------------------------------------------------------------------
(* Properties                                                              *)

\* A file that held one content only in the second of its time.
SettledFile(f) == tree[f].text # NoText /\ tree[f].past = {tree[f].text}
Current(f) == SettledFile(f) /\ Hit(f) /\ rows[f].whole

\* A row that matches its file vouches for its symbols, whichever search parsed it and
\* whatever was written meanwhile, unless the file changed twice within a second, was
\* skipped for another search's hint, or was committed while the index was dropped.
RowsTrue == \A f \in Paths : Current(f) => \A n \in tree[f].text.defs : symbols[<<f, n>>] = tree[f].text

\* A search finds its name in every file that it could see and that nobody has
\* touched since it began: not by a write, a drop, or a commit of an older content.
AnswersFull ==
  \A s \in Searchers : search[s].at = "answer" =>
    \A f \in search[s].still :
      SettledFile(f) /\ search[s].query \in tree[f].text.defs
        => symbols[<<f, search[s].query>>] = tree[f].text \/ ~rows[f].whole

\* No call edge outlives a symbol at its ends.
EdgesJoinSymbols == \A e \in calledges : symbols[e[1]] # NoText /\ symbols[e[2]] # NoText

\* The calls of a file are recorded, no others, and all of them as long as no file
\* with a symbol of the called name has been committed after it.
CallsRecorded ==
  \A g \in Paths : Current(g) => \A n \in tree[g].text.defs :
    /\ \A e \in calledges : e[1] = <<g, n>> => e[2][2] \in tree[g].text.calls
    /\ \A m \in tree[g].text.calls :
         (\A k \in Paths : symbols[<<k, m>>] # NoText => <<k, g>> \notin later)
           => \A id \in Targets(symbols, g, m) \ {<<g, n>>} : <<<<g, n>>, id>> \in calledges

\* What the index keeps, however searches, writes and drops interleave.
IndexKeeps == IndexTypeOK /\ RowsTrue /\ AnswersFull /\ EdgesJoinSymbols /\ CallsRecorded
=============================================================================
