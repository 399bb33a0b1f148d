------------------------------- MODULE Editing -------------------------------
(***************************************************************************)
(* Editing a file by symbol (edit.rs, file.rs, mutation.rs).  An edit      *)
(* checks the caller's base hash against the index, reads the file, parses *)
(* it by a read of its own, writes the whole file back and then drops the  *)
(* index.  Two callers, a transaction, an index run and a person who       *)
(* writes the file by hand interleave at every one of these.  The lock of  *)
(* another session is module Sessions.                                     *)
(***************************************************************************)
EXTENDS Naturals, Sequences, SequencesExt, FiniteSets

CONSTANTS Editors, Kinds,   \* callers; the tools that they use
          Labels, Bodies,   \* names of symbols, and the texts that calls bring
          FirstFiles,       \* contents of the file at the start
          NoFileYet, NoneHeld, \* no such file; no hash, row or run
          SmallFile,        \* blocks below which a replacement is too much churn
          MaxChanges, MaxBlocks, MaxIndexings \* bounds

Block == [label: Labels, body: {0} \cup Bodies] \* 0: the text at the start
Sources == UNION {[1..k -> Block] : k \in 0..MaxBlocks}
Maybe == Sources \cup {NoFileYet}

ASSUME EditingAssumption ==
  /\ SmallFile \in Nat /\ Kinds \subseteq {"upsert", "delete", "top", "write", "create", "remove", "mutate"}
  /\ Labels # {} /\ MaxBlocks \in Nat \ {0} /\ FirstFiles \subseteq Maybe

OtherSymbols == [label |-> CHOOSE l \in Labels : TRUE, nth |-> 0, body |-> 0] \* what the index has of the other files
Symbol == [label: Labels, nth: 0..MaxBlocks, body: {0} \cup Bodies]
Roots == {"real", "shadow"}
EditSteps == {"idle", "read", "parse", "write", "wipe"}

VARIABLES
  file_at,    \* the file in the workspace and in the transaction's clone of it
  open,       \* a transaction is open
  indexed,    \* the symbols of the index
  row,        \* the content that the index has for the file
  reading,    \* an index run's content, between its parse and its commit
  editor,     \* each caller's call
  held,       \* the state hash that each caller holds
  saw,        \* history: the workspace when the hash was taken
  excused,    \* history: callers since whose hash was taken the index may lie
  misled,     \* history: callers whose hash passed on a workspace with other symbols
  stale,      \* history: the index may have symbols that a change which did not drop it removed
  changes, indexings

editVars == <<file_at, open, indexed, row, reading, editor, held, saw, excused, misled, stale, changes, indexings>>
notes == <<held, saw, excused, misled, stale, changes, indexings>>
files == <<file_at, open, indexed, row, reading>>

Quiet0 == [at |-> "idle", kind |-> "upsert", label |-> CHOOSE l \in Labels : TRUE, line |-> 0,
           root |-> "real", src |-> NoFileYet, view |-> NoFileYet]
EditTypeOK ==
  /\ file_at \in [Roots -> Maybe] /\ open \in BOOLEAN
  /\ indexed \subseteq Symbol /\ row \in Maybe \cup {NoneHeld} /\ reading \in Maybe \cup {NoneHeld}
  /\ \A e \in Editors :
       /\ editor[e].at \in EditSteps /\ editor[e].kind \in Kinds \cup {"upsert"}
       /\ editor[e].src \in Maybe /\ editor[e].view \in Maybe
       /\ held[e] \in (SUBSET Symbol) \cup {NoneHeld} /\ saw[e] \in Maybe

EditInit ==
  /\ \E c \in FirstFiles : file_at = [real |-> c, shadow |-> NoFileYet]
  /\ open = FALSE /\ indexed = {} /\ row = NoneHeld /\ reading = NoneHeld
  /\ editor = [e \in Editors |-> Quiet0] /\ held = [e \in Editors |-> NoneHeld]
  /\ saw = [e \in Editors |-> NoFileYet] /\ excused = {} /\ misled = {} /\ stale = FALSE /\ changes = 0 /\ indexings = 0
-----------------------------------------------------------------------------
(* The index, which only knows the workspace itself                        *)

\* parse_file: the n-th symbol of a name has n in its id.
SymbolsOf(c) ==
  {OtherSymbols} \cup
  IF c = NoFileYet THEN {}
  ELSE {[label |-> c[i].label, body |-> c[i].body,
         nth |-> Cardinality({j \in 1..i : c[j].label = c[i].label})] : i \in DOMAIN c}
Underway == \E e \in Editors : editor[e].at = "wipe"
IndexReads ==
  /\ indexings < MaxIndexings /\ indexings' = indexings + 1
  /\ reading = NoneHeld /\ row # file_at["real"] /\ reading' = file_at["real"]
  /\ UNCHANGED <<file_at, open, indexed, row, editor, held, saw, excused, misled, stale, changes>>
IndexCommits ==
  LET new == SymbolsOf(reading) IN
  /\ reading # NoneHeld /\ reading' = NoneHeld /\ row' = reading
  /\ indexed' = new \cup {s \in indexed : ~\E t \in new : t.label = s.label /\ t.nth = s.nth}
  /\ excused' = IF reading = file_at["real"] THEN excused ELSE Editors
  /\ stale' = (stale \/ reading # file_at["real"])
  /\ UNCHANGED <<file_at, open, editor, held, saw, misled, changes, indexings>>
Wiped == indexed' = {} /\ row' = NoneHeld /\ stale' = FALSE

\* compute_state_hash, which no call refreshes first.
TakeBase(e) ==
  /\ editor[e].at = "idle" /\ held[e] # indexed /\ held' = [held EXCEPT ![e] = indexed]
  /\ saw' = [saw EXCEPT ![e] = file_at["real"]]
  /\ excused' = IF indexed = {} \/ Underway \/ stale \/ row # file_at["real"] THEN excused \cup {e} ELSE excused \ {e}
  /\ UNCHANGED <<files, editor, misled, stale, changes, indexings>>
-----------------------------------------------------------------------------
(* A call                                                                  *)

Does(e, at) == editor[e].at = at
\* The call names no symbol.
Plain(l, n) == l = Quiet0.label /\ n = 0
Step(e, r) == editor' = [editor EXCEPT ![e] = r]
\* Mutant: the base hash is compared with the caller's own.
BasePassesAnyway(e) == TRUE
BasePasses(e) == held[e] = NoneHeld \/ held[e] = indexed
BeginEdit(e, k, l, n) ==
  /\ Does(e, "idle") /\ changes < MaxChanges /\ changes' = changes + 1
  /\ k \in {"upsert", "delete", "top"} /\ (k = "top" => Plain(l, n)) /\ BasePasses(e)
  /\ held' = [held EXCEPT ![e] = NoneHeld] /\ saw' = [saw EXCEPT ![e] = NoFileYet]
  /\ misled' = IF held[e] # NoneHeld /\ ~open /\ SymbolsOf(saw[e]) # SymbolsOf(file_at["real"])
                  /\ ~Underway /\ e \notin excused
               THEN misled \cup {e} ELSE misled
  /\ Step(e, [Quiet0 EXCEPT !.at = "read", !.kind = k, !.label = l, !.line = n,
                            !.root = IF open THEN "shadow" ELSE "real"])
  /\ UNCHANGED <<files, excused, stale, indexings>>
\* mutate_symbol, and the file tool, take no base hash.
BeginOther(e, k, l) ==
  /\ Does(e, "idle") /\ changes < MaxChanges /\ changes' = changes + 1
  /\ k \in {"mutate", "write", "create", "remove"} /\ (k # "mutate" => Plain(l, 0))
  /\ Step(e, [Quiet0 EXCEPT !.at = IF k = "mutate" THEN "read" ELSE "write", !.kind = k, !.label = l,
                            !.root = IF open THEN "shadow" ELSE "real"])
  /\ UNCHANGED <<files, held, saw, excused, misled, stale, indexings>>
Answers(e) == Step(e, Quiet0)
\* mutate_symbol wants the file in the workspace, and reads it there for want of a clone.
Mutates(e) == editor[e].kind = "mutate"
Here(e) == file_at[IF Mutates(e) /\ file_at[editor[e].root] = NoFileYet THEN "real" ELSE editor[e].root]
Gone(e) == Here(e) = NoFileYet \/ (Mutates(e) /\ file_at["real"] = NoFileYet)

ReadSource(e) ==
  /\ Does(e, "read") /\ ~Gone(e) /\ editor' = [editor EXCEPT ![e].at = "parse", ![e].src = Here(e)]
  /\ UNCHANGED <<files, notes>>
Text(e, b) == [label |-> editor[e].label, body |-> b]
\* A file that is not there is created, and the index left alone.
CreateFile(e, b) ==
  /\ Does(e, "read") /\ Gone(e) /\ editor[e].kind \in {"upsert", "top"} /\ (editor[e].root = "shadow" => open)
  /\ file_at' = [file_at EXCEPT ![editor[e].root] = <<Text(e, b)>>] /\ Answers(e)
  /\ excused' = Editors
  /\ UNCHANGED <<open, indexed, row, reading, held, saw, misled, stale, changes, indexings>>
NoSuchFile(e) ==
  /\ Does(e, "read") /\ Gone(e) /\ (editor[e].kind \in {"delete", "mutate"} \/ (editor[e].root = "shadow" /\ ~open))
  /\ Answers(e)
  /\ UNCHANGED <<files, notes>>
ParseSource(e) ==
  /\ Does(e, "parse")
  /\ IF Here(e) = NoFileYet THEN Answers(e)
     ELSE editor' = [editor EXCEPT ![e].at = "write", ![e].view = Here(e)]
  /\ UNCHANGED <<files, notes>>

Named(e) == {i \in DOMAIN editor[e].view : editor[e].view[i].label = editor[e].label}
\* The block that the call means, 0 if none: several want a line, except of mutate.
Target(e) ==
  IF Named(e) = {} THEN 0
  ELSE IF Cardinality(Named(e)) = 1 \/ Mutates(e) THEN CHOOSE i \in Named(e) : \A j \in Named(e) : i <= j
  ELSE IF editor[e].line \in Named(e) THEN editor[e].line ELSE 0
Overloaded(e) == Cardinality(Named(e)) > 1 /\ editor[e].line = 0 /\ editor[e].kind \in {"upsert", "delete"}
Churns(e) == Len(editor[e].src) < SmallFile
Refuses(e) ==
  \/ Overloaded(e)
  \/ editor[e].kind = "upsert" /\ Target(e) # 0 /\ Churns(e)
  \/ editor[e].kind \in {"delete", "mutate"} /\ Target(e) = 0
\* The parse's place is cut out of the source that was read before it.
Rewritten(e, b) ==
  LET s == editor[e].src  i == Target(e)  k == editor[e].kind IN
  CASE k = "top" -> s  \* what precedes the symbols is not one
    [] k = "delete" -> IF i <= Len(s) THEN RemoveAt(s, i) ELSE s
    [] i = 0 -> Append(s, Text(e, b))
    [] i > Len(s) -> Append(s, Text(e, b))
    [] OTHER -> [s EXCEPT ![i] = Text(e, b)]
EditRefusal(e) ==
  /\ Does(e, "write") /\ editor[e].kind \in {"upsert", "delete", "mutate"} /\ Refuses(e) /\ Answers(e)
  /\ UNCHANGED <<files, notes>>
Puts(e, c) ==
  /\ IF editor[e].root = "shadow" /\ ~open THEN Answers(e) /\ UNCHANGED file_at
     ELSE file_at' = [file_at EXCEPT ![editor[e].root] = c] /\ editor' = [editor EXCEPT ![e].at = "wipe"]
  /\ UNCHANGED <<open, indexed, row, reading, notes>>
WriteBack(e, b) ==
  /\ Does(e, "write") /\ editor[e].kind \in {"upsert", "delete", "top", "mutate"} /\ ~Refuses(e)
  /\ Len(Rewritten(e, b)) <= MaxBlocks /\ Puts(e, Rewritten(e, b))
\* FileEngine.manage: rename removes the file here.
ManageFile(e, b) ==
  /\ Does(e, "write")
  /\ \/ editor[e].kind = "write" /\ Puts(e, <<Text(e, b)>>)
     \/ editor[e].kind = "create" /\ Gone(e) /\ Puts(e, <<>>)
     \/ editor[e].kind = "remove" /\ ~Gone(e) /\ Puts(e, NoFileYet)
     \/ /\ editor[e].kind \in {"create", "remove"} /\ (Gone(e) <=> editor[e].kind = "remove") /\ Answers(e)
        /\ UNCHANGED <<files, notes>>
\* Mutant: the index stays.
KeepIndex(e) ==
  /\ Does(e, "wipe") /\ Answers(e)
  /\ UNCHANGED <<files, notes>>
InvalidateIndex(e) ==
  /\ Does(e, "wipe") /\ Wiped /\ Answers(e)
  /\ UNCHANGED <<file_at, open, reading, held, saw, excused, misled, changes, indexings>>

\* A person, git or a command of a shell: nothing tells the index, and the next index
\* run keeps the symbols that the file no longer has.
WriteOutside(c) ==
  /\ changes < MaxChanges /\ changes' = changes + 1
  /\ c # file_at["real"] /\ file_at' = [file_at EXCEPT !["real"] = c]
  /\ IF row = NoneHeld THEN UNCHANGED <<excused, stale>> ELSE excused' = Editors /\ stale' = TRUE
  /\ UNCHANGED <<open, indexed, row, reading, editor, held, saw, misled, indexings>>

\* The transaction as the calls meet it; its own rules are module ShadowStore.
BeginTx == ~open /\ open' = TRUE /\ file_at' = [file_at EXCEPT !["shadow"] = file_at["real"]]
           /\ UNCHANGED <<indexed, row, reading, editor, notes>>
CommitTx ==
  /\ open /\ open' = FALSE
  /\ file_at' = [real |-> file_at["shadow"], shadow |-> NoFileYet]
  /\ IF file_at["shadow"] # file_at["real"] THEN Wiped ELSE UNCHANGED <<indexed, row, stale>>
  /\ UNCHANGED <<reading, editor, held, saw, excused, misled, changes, indexings>>
RollbackTx == open /\ open' = FALSE /\ file_at' = [file_at EXCEPT !["shadow"] = NoFileYet]
              /\ UNCHANGED <<indexed, row, reading, editor, notes>>

EditNext ==
  \/ \E e \in Editors :
       \/ TakeBase(e) \/ ReadSource(e) \/ NoSuchFile(e) \/ ParseSource(e) \/ EditRefusal(e) \/ InvalidateIndex(e)
       \/ \E k \in Kinds, l \in Labels : BeginOther(e, k, l) \/ \E n \in 0..1 : BeginEdit(e, k, l, n)
       \/ \E b \in Bodies : CreateFile(e, b) \/ WriteBack(e, b) \/ ManageFile(e, b)
  \/ \E l \in Labels, b \in Bodies : \E c \in {NoFileYet, <<[label |-> l, body |-> b]>>} : WriteOutside(c)
  \/ IndexReads \/ IndexCommits \/ BeginTx \/ CommitTx \/ RollbackTx
EditSpec == EditInit /\ [][EditNext]_editVars
-----------------------------------------------------------------------------
(* Properties                                                              *)

\* The hash is of the index, which edits, file calls and commits drop and nothing else does.  So a
\* base hash that passes was taken of a workspace with the symbols it has now (their
\* order is not hashed), unless a change is between its write and its drop of the index,
\* a file was created, an index run has committed what it had read before a change, or
\* the file was written outside the tools after it was indexed, up to the next drop.
BaseHashGuards == misled = {}
\* The index holds no symbol that an acknowledged change removed or replaced, but for
\* an index run that crossed the change or a change made outside the tools, up to the
\* next drop.
IndexFollows == ~Underway /\ ~stale => indexed \subseteq SymbolsOf(file_at["real"])

\* What edits keep, however calls, transactions and index runs cross.
EditsKeep == EditTypeOK /\ BaseHashGuards /\ IndexFollows
=============================================================================
