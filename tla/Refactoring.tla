------------------------------ MODULE Refactoring ------------------------------
(***************************************************************************)
(* curd refactor (refactor.rs): a process of its own joins the transaction *)
(* of HEAD or begins one, asks the index of the workspace, which may be    *)
(* behind, for the places of a symbol and its callers, rewrites the clone  *)
(* file by file, and builds it.  A person, an agent in a transaction and   *)
(* another refactoring do as they please in between.                       *)
(***************************************************************************)
EXTENDS Naturals, Sequences, SequencesExt, FiniteSets, Functions

CONSTANTS CodeFiles, Refactorings,
          CodeTexts, NoSource,      \* contents, as sequences of tokens; no such file
          OldLetter, NewNames,      \* the name, one letter long; the names to give
          RefactorKinds, MaxClones, MaxCrossings \* bounds

Marks == {"def", "end", ";"} \* what is not a letter of a name
Tokens == Marks \cup {OldLetter} \cup UNION {Range(t) : t \in (CodeTexts \ {NoSource}) \cup NewNames}
TokenTexts == Seq(Tokens) \cup {NoSource}

ASSUME RefactorAssumption ==
  /\ RefactorKinds \subseteq {"rename", "move", "extract"} /\ OldLetter \notin Marks
  /\ CodeTexts \subseteq TokenTexts /\ NoSource \notin Seq(Tokens) /\ NewNames \subseteq Seq(Tokens)
  /\ \A n \in NewNames : Len(n) > 0 /\ \A i \in DOMAIN n : n[i] \notin Marks
  /\ MaxClones \in Nat

VARIABLES
  source,    \* the workspace
  index,     \* each file: the content last parsed, and the rows of its symbols
  clone, origin, \* each transaction's clone, and the workspace it was made of
  named,     \* the transaction that HEAD names, 0: none
  agent,     \* the transaction of the agent's store
  clones,    \* transactions so far
  job,       \* each refactoring
  strayed,   \* history: refactorings that somebody else's write has crossed, or the index misled
  crossings

refactorVars == <<source, index, clone, origin, named, agent, clones, job, strayed, crossings>>

TxIds == 1..MaxClones
Nowhere == [f \in CodeFiles |-> NoSource]
NoJob == [at |-> "idle", kind |-> "rename", of |-> CHOOSE f \in CodeFiles : TRUE, to |-> CHOOSE f \in CodeFiles : TRUE,
          new |-> <<>>, tx |-> 0, callers |-> {}, places |-> {}, left |-> {}, code |-> <<>>]
JobSteps == {"idle", "find", "callers", "apply", "build", "read", "cut", "paste", "done", "failed"}
RefactorTypeOK ==
  /\ named \in 0..MaxClones /\ agent \in 0..MaxClones /\ clones \in 0..MaxClones
  /\ \A x \in Refactorings : job[x].at \in JobSteps /\ job[x].kind \in RefactorKinds \cup {"rename"} /\ job[x].tx \in 0..clones
-----------------------------------------------------------------------------
(* What the index says of a content                                        *)

Times(t, m, i, j) == Cardinality({k \in i..j : t[k] = m})
Closing(t, i) == {j \in i..Len(t) : Times(t, "def", i, j) = Times(t, "end", i, j)}
EndOf(t, i) == LET closing == Closing(t, i) IN CHOOSE j \in closing : \A k \in closing : j <= k
NameAt(t, i) == SubSeq(t, i, (CHOOSE j \in i..Len(t) : t[j] \in Marks /\ \A k \in i..(j - 1) : t[k] \notin Marks) - 1)
Heads(t) == {k \in DOMAIN t : t[k] = "def" /\ Closing(t, k) # {}}
\* The symbols of a content: their places, and as ids their name and how many have had it before.
Definitions(t) ==
  IF t = NoSource THEN {}
  ELSE LET heads == Heads(t)
           before(i) == {k \in heads : k < i /\ NameAt(t, k + 1) = NameAt(t, i + 1)}
       IN  {[id |-> <<NameAt(t, i + 1), Cardinality(before(i))>>, from |-> i, to |-> EndOf(t, i)] : i \in heads}
\* An id with a number is searched for by the number, and not found.
Findable(id) == id[2] = 0
Old == <<<<OldLetter>>, 0>>
\* It contains the symbol or calls it.
Refers(t, s) == \E i \in s.from..s.to : /\ t[i] = OldLetter /\ i # s.from + 1
                                        /\ t[i - 1] \in Marks /\ t[i + 1] \in Marks
Defines(t) == \E d \in Definitions(t) : d.id = Old
\* The symbols of g that call or contain the symbol of f: a name of their own file first.
CallersAt(src, f, g) == IF g # f /\ Defines(src[g]) THEN {}
                        ELSE {d \in Definitions(src[g]) : Refers(src[g], d) /\ ~(g = f /\ d.id = Old)}
CallersOf(src, f) == UNION {{<<g, d.id>> : d \in CallersAt(src, f, g)} : g \in CodeFiles}
-----------------------------------------------------------------------------
(* The index                                                               *)

\* Parsing replaces the rows of the symbols found; those found no longer stay as they were.
Indexed(t, rows) == [text |-> t, rows |-> Definitions(t) \cup {r \in rows : \A d \in Definitions(t) : d.id # r.id}]
RefactorInit ==
  /\ source \in [CodeFiles -> CodeTexts] /\ \E t \in [CodeFiles -> CodeTexts] : index = [f \in CodeFiles |-> Indexed(t[f], {})]
  /\ clone = [t \in TxIds |-> Nowhere] /\ origin = clone
  /\ named = 0 /\ agent = 0 /\ clones = 0 /\ job = [x \in Refactorings |-> NoJob] /\ strayed = {} /\ crossings = 0

\* A search takes in files that have changed: not one that is gone, and not each that
\* has its time and size of before, is out of scope, or is let be in lazy mode.
Altered == {f \in CodeFiles : source[f] \notin {index[f].text, NoSource}}
Reindexes == \E S \in SUBSET Altered : index' = [f \in CodeFiles |-> IF f \in S THEN Indexed(source[f], index[f].rows) ELSE index[f]]
Rows(ix, f, id) == {r \in ix[f].rows : r.id = id}
\* Who calls or contains the symbol by the edges: what each content parsed last says,
\* as far as saves and refreshes have left it, and what rows of old may add.
ByEdges(ix, f) == CallersOf([g \in CodeFiles |-> ix[g].text], f)
                    \cup UNION {{<<g, r.id>> : r \in ix[g].rows \ Definitions(ix[g].text)} : g \in CodeFiles}
Unindexed == \A f \in CodeFiles : index[f].rows = {}
-----------------------------------------------------------------------------
(* The others                                                              *)

Begun == {x \in Refactorings : job[x].at # "idle"}
Crosses(others) == crossings < MaxCrossings /\ crossings' = crossings + 1 /\ strayed' = strayed \cup others
Writes(f, t) == /\ Crosses(Begun) /\ t # source[f] /\ source' = [source EXCEPT ![f] = t]
              /\ UNCHANGED <<index, clone, origin, named, agent, clones, job>>
Opened(t) == clones < MaxClones /\ clones' = t /\ t = clones + 1 /\ named' = t
             /\ clone' = [clone EXCEPT ![t] = source] /\ origin' = [origin EXCEPT ![t] = source]
\* begin of a store without a transaction, whatever HEAD says.
AgentBegins == /\ agent = 0 /\ Crosses({}) /\ agent' = clones + 1 /\ Opened(agent')
               /\ UNCHANGED <<source, index, job>>
AgentEdits(f, t) == /\ agent # 0 /\ clone[agent] # Nowhere /\ t # clone[agent][f] /\ Crosses(Begun)
                    /\ clone' = [clone EXCEPT ![agent][f] = t]
                    /\ UNCHANGED <<source, index, origin, named, agent, clones, job>>
\* commit, which refuses where the workspace has changed, and rollback.
Ends(t) == /\ clone' = [clone EXCEPT ![t] = Nowhere] /\ named' = 0 /\ agent' = IF agent = t THEN 0 ELSE agent
           /\ UNCHANGED <<index, origin, clones, job>>
Taken(t) == {f \in CodeFiles : clone[t][f] \notin {origin[t][f], NoSource}}
Commits(t) == /\ t \in {agent, named} \ {0} /\ Crosses(Begun) /\ \A f \in Taken(t) : source[f] = origin[t][f]
              /\ source' = [f \in CodeFiles |-> IF f \in Taken(t) THEN clone[t][f] ELSE source[f]] /\ Ends(t)
RollsBack(t) == t \in {agent, named} \ {0} /\ Crosses(Begun) /\ Ends(t) /\ UNCHANGED source
-----------------------------------------------------------------------------
(* A refactoring                                                           *)

JobAt(x, at) == job[x].at = at
Becomes(x, r) == job' = [job EXCEPT ![x] = r]
To(x, at) == Becomes(x, [job[x] EXCEPT !.at = at])
StraysIf(x, wrong) == strayed' = IF wrong THEN strayed \cup {x} ELSE strayed
\* What somebody has staged before makes the places wrong from the start.
Joined(t) == t # 0 /\ clone[t] # source
\* Only an index without a symbol is brought up to date for the graph; only a rename uses that.
BeginRefactor(x, k, f, n, g) ==
  LET t == IF named = 0 THEN clones + 1 ELSE named
      true == CallersOf(source, f)
  IN  /\ JobAt(x, "idle") /\ (k # "move" => g = f)
      /\ IF Unindexed THEN Reindexes ELSE index' = index
      /\ IF named = 0 THEN Opened(t) ELSE UNCHANGED <<clone, origin, named, clones>>
      /\ \E C \in IF k = "rename" THEN SUBSET ByEdges(index', f) ELSE {{}} :
           /\ StraysIf(x, Joined(named) \/ (k = "rename" /\ C # true))
           /\ Becomes(x, [NoJob EXCEPT !.at = IF k = "extract" THEN "cut" ELSE "find", !.kind = k, !.of = f, !.to = g,
                                       !.new = IF k = "move" THEN <<>> ELSE n, !.tx = t, !.callers = C])
      /\ UNCHANGED <<source, agent, crossings>>
Looks == UNCHANGED <<source, clone, origin, named, agent, clones, crossings>>
Unwritten == Looks /\ UNCHANGED <<index, strayed>>

Place(f, d) == [file |-> f, from |-> d.from, to |-> d.to]
\* Not found: the transaction stays.  Ids are unique, so that no symbol is overloaded.
SymbolRefused(x) ==
  /\ JobAt(x, "find") /\ Reindexes /\ Rows(index', job[x].of, Old) = {}
  /\ To(x, "failed") /\ Looks /\ UNCHANGED strayed
FindSymbol(x) ==
  /\ JobAt(x, "find") /\ Reindexes
  /\ \E d \in Rows(index', job[x].of, Old) :
       /\ Becomes(x, [job[x] EXCEPT !.at = IF job[x].kind = "move" THEN "read" ELSE "callers", !.places = {Place(job[x].of, d)}])
       /\ StraysIf(x, d \notin Definitions(source[job[x].of]))
  /\ Looks
\* Each caller is searched for anew; one that is not found is left alone.
Caller(c) == {d \in Definitions(source[c[1]]) : d.id = c[2] /\ Findable(c[2])}
FindCaller(x, c) ==
  /\ JobAt(x, "callers") /\ c \in job[x].callers /\ Reindexes
  /\ \/ /\ ~Findable(c[2]) \/ Rows(index', c[1], c[2]) = {}
        /\ Becomes(x, [job[x] EXCEPT !.callers = @ \ {c}]) /\ StraysIf(x, Caller(c) # {})
     \/ \E d \in Rows(index', c[1], c[2]) :
          /\ Findable(c[2]) /\ Becomes(x, [job[x] EXCEPT !.callers = @ \ {c}, !.places = @ \cup {Place(c[1], d)}])
          /\ StraysIf(x, d \notin Caller(c))
  /\ Looks
PlacesFound(x) ==
  /\ JobAt(x, "callers") /\ job[x].callers = {}
  /\ Becomes(x, [job[x] EXCEPT !.at = "apply", !.left = {p.file : p \in job[x].places}])
  /\ Unwritten

Replaced(chunk, new) == FlattenSeq([i \in DOMAIN chunk |-> IF chunk[i] = OldLetter THEN new ELSE <<chunk[i]>>])
RenameAt(t, p, new) ==
  IF p.from > Len(t) \/ p.to > Len(t) THEN t
  ELSE SubSeq(t, 1, p.from - 1) \o Replaced(SubSeq(t, p.from, p.to), new) \o SubSeq(t, p.to + 1, Len(t))
\* Mutant: the first place first.
PlacesForward(ps) ==
  CHOOSE o \in [1..Cardinality(ps) -> ps] : \A i, j \in DOMAIN o : i < j => o[i] # o[j] /\ o[i].from <= o[j].from
PlacesInOrder(ps) ==
  CHOOSE o \in [1..Cardinality(ps) -> ps] : \A i, j \in DOMAIN o : i < j => o[i] # o[j] /\ o[i].from >= o[j].from
Applied(t, ps, new) ==
  LET order == PlacesInOrder(ps)
      text[k \in 0..Cardinality(ps)] == IF k = 0 THEN t ELSE RenameAt(text[k - 1], order[k], new)
  IN  text[Cardinality(ps)]
\* The text of a file in the clone, or in the workspace for want of one.
TextOf(x, f) == IF clone[job[x].tx][f] # NoSource THEN clone[job[x].tx][f] ELSE source[f]
\* Writing and staging names the transaction in HEAD, be it gone or not.
Stages(x, f, t) == /\ clone' = [clone EXCEPT ![job[x].tx][f] = t] /\ named' = job[x].tx
                   /\ strayed' = strayed \cup (Begun \ {x})
                   /\ UNCHANGED <<source, index, origin, agent, clones, crossings>>
ApplyFile(x, f) ==
  /\ JobAt(x, "apply") /\ f \in job[x].left /\ TextOf(x, f) # NoSource
  /\ Becomes(x, [job[x] EXCEPT !.left = @ \ {f}])
  /\ Stages(x, f, Applied(TextOf(x, f), {p \in job[x].places : p.file = f}, job[x].new))
\* A file that cannot be read ends it, with the others staged.
ApplyFails(x, f) == JobAt(x, "apply") /\ f \in job[x].left /\ TextOf(x, f) = NoSource /\ To(x, "failed") /\ Unwritten
StartBuild(x) == JobAt(x, "apply") /\ job[x].left = {} /\ To(x, "build") /\ Unwritten
BuildPasses(x) == JobAt(x, "build") /\ To(x, "done") /\ Unwritten
\* rollback: all of the transaction goes, and HEAD whatever it names.
BuildFails(x) ==
  /\ JobAt(x, "build") /\ To(x, "failed")
  /\ clone' = [clone EXCEPT ![job[x].tx] = Nowhere] /\ named' = 0 /\ strayed' = strayed \cup (Begun \ {x})
  /\ UNCHANGED <<source, index, origin, agent, clones, crossings>>

ThePlace(x) == CHOOSE p \in job[x].places : TRUE
Fits(t, p) == t # NoSource /\ p.to <= Len(t)
ReadSymbol(x) ==
  /\ JobAt(x, "read")
  /\ LET t == source[job[x].of]  p == ThePlace(x)
     IN  IF Fits(t, p) THEN Becomes(x, [job[x] EXCEPT !.at = "cut", !.code = SubSeq(t, p.from, p.to)])
         ELSE To(x, "failed")
  /\ Unwritten
\* Out of the clone of its file, at the place that it has in the workspace.
CutSymbol(x) ==
  /\ JobAt(x, "cut") /\ job[x].kind = "move"
  /\ LET t == TextOf(x, job[x].of)  p == ThePlace(x)
     IN  IF Fits(t, p) /\ clone[job[x].tx] # Nowhere
         THEN To(x, "paste") /\ Stages(x, job[x].of, SubSeq(t, 1, p.from - 1) \o SubSeq(t, p.to + 1, Len(t)))
         ELSE To(x, "failed") /\ Unwritten
PasteSymbol(x) ==
  /\ JobAt(x, "paste") /\ To(x, "done")
  /\ Stages(x, job[x].to, (IF TextOf(x, job[x].to) = NoSource THEN <<>> ELSE TextOf(x, job[x].to)) \o job[x].code)
\* The lines i..j become a function, and a call of it stays.
ExtractLines(x, i, j) ==
  /\ JobAt(x, "cut") /\ job[x].kind = "extract" /\ i <= j /\ clone[job[x].tx] # Nowhere
  /\ LET t == TextOf(x, job[x].of)
     IN  /\ t # NoSource /\ j <= Len(t) /\ To(x, "done")
         /\ Stages(x, job[x].of, SubSeq(t, 1, i - 1) \o <<"def">> \o job[x].new \o <<";">> \o SubSeq(t, i, j) \o <<"end">>
                                   \o job[x].new \o SubSeq(t, j + 1, Len(t)))

RefactorNext ==
  \/ \E f \in CodeFiles, t \in CodeTexts : Writes(f, t) \/ AgentEdits(f, t)
  \/ AgentBegins \/ \E t \in TxIds : Commits(t) \/ RollsBack(t)
  \/ \E x \in Refactorings :
       \/ \E k \in RefactorKinds, f, g \in CodeFiles, n \in NewNames : BeginRefactor(x, k, f, n, g)
       \/ FindSymbol(x) \/ SymbolRefused(x) \/ PlacesFound(x) \/ StartBuild(x) \/ BuildPasses(x) \/ BuildFails(x)
       \/ \E c \in job[x].callers : FindCaller(x, c)
       \/ \E f \in CodeFiles : ApplyFile(x, f) \/ ApplyFails(x, f)
       \/ ReadSymbol(x) \/ CutSymbol(x) \/ PasteSymbol(x)
       \/ \E i \in 2..3 : ExtractLines(x, i, 3)
RefactorSpec == RefactorInit /\ [][RefactorNext]_refactorVars
-----------------------------------------------------------------------------
(* Properties                                                              *)

\* No caller has a name that its file has used before.
AllFindable(x) == \A c \in CallersOf(source, job[x].of) : Findable(c[2])
Apart(x) == \A p, q \in job[x].places : p = q \/ p.file # q.file \/ p.to < q.from \/ q.to < p.from
\* Every occurrence in the symbol and its callers, once.
Renamed(x, f) ==
  LET t == source[f]
      in == {i \in DOMAIN t : \E d \in Definitions(t) :
               d.from <= i /\ i <= d.to /\ (d \in CallersAt(source, job[x].of, f) \/ (f = job[x].of /\ d.id = Old))}
  IN  IF t = NoSource THEN t
      ELSE FlattenSeq([i \in DOMAIN t |-> IF i \in in /\ t[i] = OldLetter THEN job[x].new ELSE <<t[i]>>])

\* A rename that nobody crosses and no row misleads is whole before it is built, if its callers can be found by
\* name: each file of the clone is the workspace's with every occurrence replaced at once and
\* none twice, where no place lies in another, or where the new name is as long as the old.
RenameWhole ==
  \A x \in Refactorings \ strayed :
    JobAt(x, "build") /\ AllFindable(x) /\ (Apart(x) \/ Len(job[x].new) = 1) => \A f \in CodeFiles : clone[job[x].tx][f] = Renamed(x, f)

Codes(src) == UNION {{SubSeq(src[f], d.from, d.to) : d \in Definitions(src[f])} : f \in CodeFiles}
Outermost(x) == \A p \in job[x].places : \A d \in Definitions(source[p.file]) : ~(d.from < p.from /\ p.to <= d.to)
\* A move that nobody crosses and no row misleads loses no symbol and brings none into being.
MoveKeepsSymbols ==
  \A x \in Refactorings \ strayed :
    JobAt(x, "done") /\ job[x].kind = "move" /\ clone[job[x].tx] # Nowhere /\ Outermost(x)
      => Codes(clone[job[x].tx]) = Codes(source)

\* What refactorings keep, however others cross them.
RefactorKeeps == RefactorTypeOK /\ RenameWhole /\ MoveKeepsSymbols
=============================================================================
