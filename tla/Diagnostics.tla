----------------------------- MODULE Diagnostics -----------------------------
(***************************************************************************)
(* Diagnostics (lsp.rs): what the checkers' output says of a file, and the  *)
(* diagnosis of a whole workspace, which keeps what it found in a cache     *)
(* file by modification time while the files are being edited.             *)
(***************************************************************************)
EXTENDS Integers, Sequences, FiniteSets, SequencesExt

CONSTANTS
  SourceFiles,   \* files as records: their directory and base as sequences of pieces, their extension
  Diagnosers,    \* runs of diagnostics_workspace
  BrokenAt,      \* <<file, version>>: where cargo has something to say
  MaxFileEdits,  \* bound
  CheckerOutputs,\* sets of what a checker may print: [file, line, level]
  Nothing

\* Paths are in pieces, and nothing is no checker and no path.
ASSUME DiagAssumption ==
  /\ Nothing \notin {"cargo", "pyright"}
  /\ \A f \in SourceFiles : f.dir \in Seq(STRING) /\ f.base \in Seq(STRING)
  /\ \A out \in CheckerOutputs : \A d \in out : d.file.dir \in Seq(STRING) /\ d.file.base \in Seq(STRING)

Semantic(way) == way \in {"semantic", "both"}
Modes == {"syntax", "semantic", "both"}
-----------------------------------------------------------------------------
(* One file                                                                *)

LanguageOf ==
  [rs |-> "rust", py |-> "python", js |-> "javascript", ts |-> "typescript", go |-> "go", c |-> "c", h |-> "c",
   cpp |-> "cpp", hpp |-> "cpp", cc |-> "cpp", cxx |-> "cpp", rb |-> "ruby", java |-> "java", cs |-> "c_sharp",
   php |-> "php", html |-> "html", css |-> "css"]
\* The checker of an extension: none for most, and for Python whichever there is.
CheckerOf(ext, installed) ==
  CASE ext = "rs" -> "cargo"
    [] ext = "py" -> IF "pyright" \in installed THEN "pyright" ELSE "python"
    [] ext \in {"ts", "js"} -> "tsc"
    [] ext = "go" -> "go"
    [] ext = "java" -> "javac"
    [] ext \in {"c", "h"} -> "clang"
    [] ext \in {"cpp", "hpp", "cc", "cxx"} -> "clang++"
    [] OTHER -> Nothing
PathOf(f) == f.dir \o f.base
\* parse_cargo_json: whatever file ends the way this one's path or its base does.
CargoSays(out, f) == {d \in out : IsSuffix(PathOf(f), PathOf(d.file)) \/ IsSuffix(f.base, PathOf(d.file))}
\* parse_pyright_json: one of the two paths ends the other.
PyrightSays(out, f) == {d \in out : IsSuffix(PathOf(f), PathOf(d.file)) \/ IsSuffix(PathOf(d.file), PathOf(f))}
\* parse_short_diagnostics: lines that have the base in them, wherever.
Within(p, q) == \E i \in 0..(Len(q) - Len(p)) : SubSeq(q, i + 1, i + Len(p)) = p
ShortSays(out, f) == {d \in out : Within(f.base, PathOf(d.file))}
NormalizeLevel(level) ==
  CASE level = "warning" -> "warning" [] level \in {"note", "help"} -> "info" [] OTHER -> "error"
Says(checker, out, f) ==
  CASE checker = "cargo"   -> {[line |-> d.line, severity |-> NormalizeLevel(d.level), source |-> "semantic"] : d \in CargoSays(out, f)}
    [] checker = "pyright" -> {[line |-> d.line, severity |-> d.level, source |-> "semantic"] : d \in PyrightSays(out, f)}
    [] checker = Nothing   -> {}
    [] OTHER -> {[line |-> d.line, severity |-> d.level, source |-> "semantic"] : d \in ShortSays(out, f)}
\* internal_semantic_fallback, which has queries that fit Python alone: it compares the names
\* of definitions that have the same parent, and that is the definition itself.
FallbackSays(ext, definitions, used) ==
  IF ext # "py" THEN {}
  ELSE {[line |-> d.line, severity |-> "error", source |-> "semantic-fallback"] :
          d \in {e \in definitions : \E g \in definitions : g.name = e.name /\ g.node = e.node /\ g.line < e.line}}
       \cup {[line |-> d.line, severity |-> "warning", source |-> "semantic-fallback"] :
          d \in {e \in definitions : e.name \notin used /\ e.name # "main"}}
\* dedup_diagnostics: one of each line and severity, a checker's before the parser's.
Score(d) == CASE d.source = "semantic" -> 2 [] d.source = "syntax" -> 1 [] OTHER -> 0
Same(d, e) == d.line = e.line /\ d.severity = e.severity
Dedup(ds) == {d \in ds : \A e \in ds : Same(d, e) => Score(e) <= Score(d)}
\* diagnostics_with_mode, with what the parser and the checker say; a checker that is not
\* there or cannot be run gives way to the fallback.
WithMode(way, f, syntax, installed, out, definitions, used) ==
  LET checker == CheckerOf(f.ext, installed)
      semantic == IF checker = Nothing \/ checker \in installed THEN Says(checker, out, f)
                  ELSE FallbackSays(f.ext, definitions, used)
  IN Dedup((IF way # "semantic" THEN syntax ELSE {}) \cup (IF Semantic(way) THEN semantic ELSE {}))
\* run_cargo_check_workspace: by the exact name, without the files of other crates.
CargoTable(out, f) == {d \in out : PathOf(d.file) = PathOf(f)}
-----------------------------------------------------------------------------
(* The workspace                                                           *)

VARIABLES
  version,     \* of each file: how often it was edited, which also is its modification time
  diagCache,   \* diag_cache.json: entries by file, or torn
  diagnosing,  \* each run: where it is, its mode, cache, table, file and what it has read
  given,       \* history: the last answer for a file
  editedSince  \* history: the files edited since each run began

diagVars == <<version, diagCache, diagnosing, given, editedSince>>

Names == {f.name : f \in SourceFiles}
NoEntries == [n \in {} |-> Nothing]
Idle == [at |-> "rest", mode |-> "syntax", cache |-> NoEntries, table |-> Nothing, left |-> {},
         name |-> Nothing, mtime |-> 0, syn |-> -1]
Done == [Idle EXCEPT !.at = "done"]
DiagInit ==
  /\ version = [n \in Names |-> 0] /\ diagCache = [torn |-> FALSE, entries |-> NoEntries]
  /\ diagnosing = [r \in Diagnosers |-> Idle]
  /\ given = Nothing /\ editedSince = [r \in Diagnosers |-> {}]

FileOf(n) == CHOOSE f \in SourceFiles : f.name = n
EditFile(n) ==
  /\ version[n] < MaxFileEdits
  /\ version' = [version EXCEPT ![n] = @ + 1]
  /\ editedSince' = [r \in Diagnosers |-> editedSince[r] \cup {n}]
  /\ UNCHANGED <<diagCache, diagnosing, given>>
\* The cache is read; a torn one counts for nothing.
BeginDiagnosis(r) ==
  /\ diagnosing[r].at = "rest"
  /\ \E mode \in Modes :
       diagnosing' = [diagnosing EXCEPT ![r] = [Idle EXCEPT !.mode = mode, !.left = Names,
         !.cache = IF diagCache.torn THEN NoEntries ELSE diagCache.entries,
         !.at = IF Semantic(mode) THEN "check all" ELSE "next"]]
  /\ editedSince' = [editedSince EXCEPT ![r] = {}]
  /\ UNCHANGED <<version, diagCache, given>>
\* One cargo check for all; that it found nothing and that it failed look alike.
CheckAll(r) ==
  /\ diagnosing[r].at = "check all"
  /\ LET found == \E n \in Names : FileOf(n).ext = "rs" /\ <<n, version[n]>> \in BrokenAt
     IN \E runs \in BOOLEAN :
          diagnosing' = [diagnosing EXCEPT ![r].at = "next", ![r].table = IF runs /\ found THEN version ELSE Nothing]
  /\ UNCHANGED <<version, diagCache, given, editedSince>>
\* Mutant: what was found in one mode serves another.
HitInAnyMode(d, n) == n \in DOMAIN d.cache /\ d.cache[n].mtime = version[n]
\* What the cache has serves for the same mode and the same modification time.
Hit(d, n) == n \in DOMAIN d.cache /\ d.cache[n].mode = d.mode /\ d.cache[n].mtime = version[n]
\* What is found for a file: the versions it is of, and whether an edit came in between.
FoundFor(d, r, syn, sem, n) ==
  [mode |-> d.mode, mtime |-> d.mtime, syn |-> syn, sem |-> sem, overtaken |-> n \in editedSince[r]]
\* The answer for a file is given and kept.
Gives(r, n, entry) ==
  LET d == diagnosing[r] IN
  /\ given' = [asked |-> d.mode, stat |-> entry.mtime, entry |-> entry]
  /\ diagnosing' = [diagnosing EXCEPT ![r].at = "next", ![r].left = d.left \ {n}, ![r].name = Nothing,
       ![r].cache = IF Semantic(d.mode) THEN [m \in DOMAIN d.cache \cup {n} |-> IF m = n THEN entry ELSE d.cache[m]] ELSE d.cache]
\* The next file's time is read: the cache has it, the table does, or it must be diagnosed.
\* What the table has is the answer even when the file cannot be parsed beside it.
NextFile(r) ==
  LET d == diagnosing[r] IN
  /\ d.at = "next"
  /\ \E n \in d.left :
       IF Semantic(d.mode) /\ Hit(d, n) THEN Gives(r, n, d.cache[n])
       ELSE IF FileOf(n).ext = "rs" /\ d.table # Nothing
       THEN \E parses \in BOOLEAN :
              Gives(r, n, FoundFor([d EXCEPT !.mtime = version[n]], r,
                                   IF d.mode = "both" /\ parses THEN version[n] ELSE -1, d.table[n], n))
       ELSE /\ diagnosing' = [diagnosing EXCEPT ![r].at = "read", ![r].name = n, ![r].mtime = version[n]]
            /\ UNCHANGED given
  /\ UNCHANGED <<version, diagCache, editedSince>>
\* Only syntax alone takes what it does not know for Rust.
NoLanguage(d) == Semantic(d.mode) /\ FileOf(d.name).ext \notin DOMAIN LanguageOf
\* The source is read and parsed; without a checker to wait for, that is the answer.
ReadSource(r) ==
  LET d == diagnosing[r] IN
  /\ d.at = "read" /\ ~NoLanguage(d)
  /\ IF Semantic(d.mode)
     THEN /\ diagnosing' = [diagnosing EXCEPT ![r].at = "check", ![r].syn = IF d.mode = "both" THEN version[d.name] ELSE -1]
          /\ UNCHANGED given
     ELSE Gives(r, d.name, FoundFor(d, r, version[d.name], -1, d.name))
  /\ UNCHANGED <<version, diagCache, editedSince>>
\* The checker has read the file and ended.
CheckFile(r) ==
  LET d == diagnosing[r] IN
  /\ d.at = "check"
  /\ Gives(r, d.name, FoundFor(d, r, d.syn, version[d.name], d.name))
  /\ UNCHANGED <<version, diagCache, editedSince>>
\* A file that cannot be read or parsed, asked for by itself, is answered with an error, which
\* is not kept.
FileFails(r) ==
  LET d == diagnosing[r] IN
  /\ d.at = "read"
  /\ diagnosing' = [diagnosing EXCEPT ![r].at = "next", ![r].left = d.left \ {d.name}, ![r].name = Nothing]
  /\ UNCHANGED <<version, diagCache, given, editedSince>>
\* The whole cache is written over whatever others have written meanwhile.
SaveCache(r) ==
  LET d == diagnosing[r] IN
  /\ d.at = "next" /\ d.left = {}
  /\ IF Semantic(d.mode)
     THEN /\ diagCache' = [torn |-> TRUE, entries |-> NoEntries]
          /\ diagnosing' = [diagnosing EXCEPT ![r].at = "saving"]
     ELSE diagnosing' = [diagnosing EXCEPT ![r] = Done] /\ UNCHANGED diagCache
  /\ UNCHANGED <<version, given, editedSince>>
CacheSaved(r) ==
  /\ diagnosing[r].at = "saving"
  /\ diagCache' = [torn |-> FALSE, entries |-> diagnosing[r].cache]
  /\ diagnosing' = [diagnosing EXCEPT ![r] = Done]
  /\ UNCHANGED <<version, given, editedSince>>
DiagNext ==
  \/ \E n \in Names : EditFile(n)
  \/ \E r \in Diagnosers : BeginDiagnosis(r) \/ CheckAll(r) \/ NextFile(r) \/ ReadSource(r) \/ CheckFile(r)
                           \/ FileFails(r) \/ SaveCache(r) \/ CacheSaved(r)
DiagSpec == DiagInit /\ [][DiagNext]_diagVars
-----------------------------------------------------------------------------
(* Properties                                                              *)

\* The parser's word was asked for and is not in the answer, which does not say so: the parse
\* failed where cargo had answered for all files (lsp.rs:352-356).
Unparsed(e) == e.mode = "both" /\ e.syn = -1
\* What the cache keeps for a file as it is now was found in that very version, unless the
\* file was edited while the run that found it went on; only of a Rust file may the parser's
\* word be missing (lsp.rs:290-412).
CacheIsOfNow ==
  \A n \in DOMAIN diagCache.entries :
    LET e == diagCache.entries[n] IN
    /\ e.mtime = version[n] /\ ~e.overtaken =>
         e.sem = version[n] /\ (e.mode = "both" => e.syn = version[n] \/ Unparsed(e))
    /\ Unparsed(e) => FileOf(n).ext = "rs"
\* Nobody is given a diagnosis of another mode, nor one of a version older than that of the
\* time he was told of, but for what cargo had checked before the edit; nor one without the
\* parser's word that he asked for, but where it was lost.
GivenAsAsked ==
  given # Nothing =>
    /\ given.entry.mode = given.asked
    /\ given.asked # "semantic" => given.entry.syn >= given.stat \/ Unparsed(given.entry)
    /\ Semantic(given.asked) /\ ~given.entry.overtaken => given.entry.sem = given.stat
\* For files none of which ends another's name, the two ways of asking cargo agree.
CargoWaysAgree ==
  \A out \in CheckerOutputs, f \in SourceFiles :
    (\A d \in out : IsSuffix(f.base, PathOf(d.file)) => PathOf(d.file) = PathOf(f))
      => {d.line : d \in CargoTable(out, f)} = {d.line : d \in Says("cargo", out, f)}
\* Of what parser and checker say nothing is lost and nothing said twice, and the checker's
\* word is kept; syntax is never reported by a semantic diagnosis.
NothingLost ==
  \A out \in CheckerOutputs, f \in SourceFiles, way \in Modes, installed \in {{}, {"cargo", "python"}} :
    LET syntax == {[line |-> l, severity |-> "error", source |-> "syntax"] : l \in 1..2}
        all == WithMode(way, f, syntax, installed, out, {}, {})
    IN /\ \A d, e \in all : Same(d, e) => d = e
       /\ way # "semantic" => \A d \in syntax : \E e \in all : Same(d, e)
       /\ way = "semantic" => \A e \in all : e.source = "semantic"
\* Together.
DiagnosticsKeep == CacheIsOfNow /\ GivenAsAsked /\ CargoWaysAgree /\ NothingLost
=============================================================================
