-------------------------------- MODULE Scripts --------------------------------
(***************************************************************************)
(* .curd scripts (script.rs).  A script is parsed, then either compiled to *)
(* nodes that a session runs (router.rs, plan/engine.rs) or to a plan that *)
(* is saved with its arguments filled in.  Pure: text and files are left   *)
(* out, a token is a record of its kind and the letters it stands for, and *)
(* a list is the texts in it.                                              *)
(***************************************************************************)
EXTENDS Naturals, SequencesExt, TLC

CONSTANTS TokenStrings, ScriptPrograms, \* what is tried: tokens to parse, programs to compile
          Arguments               \* declared arguments with their values

\* A token is [k, of]: its kind, and the letters of a word or string.
Punct(k) == [k |-> k, of |-> <<>>]
Word(of) == [k |-> "word", of |-> of]
Str(of)  == [k |-> "string", of |-> of]
Keywords == {"let", "abort", "sequence", "parallel", "atomic"}
IsIdent(tok) == tok.k \in Keywords \cup {"word"}
Spelled(tok) == IF tok.k \in Keywords THEN <<tok.k>> ELSE tok.of

\* A program is flat: the statements in order, and where blocks open and close.  A
\* value is a text, a list of texts or an object of fields; a call has named and positional ones.
NoValue == [list |-> FALSE, texts |-> <<>>, fields |-> {}]
TextValue(s) == [NoValue EXCEPT !.texts = <<s>>]
ListValue(ts) == [NoValue EXCEPT !.list = TRUE, !.texts = ts]
\* Of two values for a name the later one stays, and rest is what follows.
Before(name, v, rest) == rest \cup (IF \E p \in rest : p[1] = name THEN {} ELSE {<<name, v>>})
Item(op, name, named, value) == [op |-> op, name |-> name, named |-> named, value |-> value]
Refused == <<Item("refused", <<>>, {}, <<>>)>>
-----------------------------------------------------------------------------
(* Parser                                                                  *)

\* What follows a part that has been read, or what is there instead.
After(r, instead, Next1(_)) == IF r.at = 0 THEN instead ELSE Next1(r)
KindAt(t, i) == IF i <= Len(t) THEN t[i].k ELSE "eof"
\* parse_value from token i: the token after it, and the value.
ValueAt(t) ==
  LET none == [at |-> 0, value |-> NoValue]
      val[w \in {"value", "items", "fields"}, i \in 1..Len(t) + 3] ==
        LET kind == KindAt(t, i) IN
        IF w = "fields"
        THEN IF kind \notin Keywords \cup {"word", "string"} \/ KindAt(t, i + 1) # ":" THEN none
             ELSE After(val["value", i + 2], none, LAMBDA v :
               LET object(others) == [NoValue EXCEPT !.fields = Before(Spelled(t[i]), v.value, others)]
               IN IF KindAt(t, v.at) = "," THEN After(val["fields", v.at + 1], none, LAMBDA rest :
                                                 [at |-> rest.at, value |-> object(rest.value.fields)])
                  ELSE IF KindAt(t, v.at) = "}" THEN [at |-> v.at + 1, value |-> object({})] ELSE none)
        ELSE IF w = "items"
        THEN After(val["value", i], none, LAMBDA v :
               IF KindAt(t, v.at) = ","
               THEN After(val["items", v.at + 1], none, LAMBDA rest :
                      [at |-> rest.at, value |-> ListValue(v.value.texts \o rest.value.texts)])
               ELSE IF KindAt(t, v.at) = "]" THEN [at |-> v.at + 1, value |-> ListValue(v.value.texts)] ELSE none)
        ELSE IF kind = "eof" THEN none
        ELSE IF kind = "string" \/ IsIdent(t[i])
             THEN [at |-> i + 1, value |-> TextValue(Spelled(t[i]))]
        ELSE IF kind = "$" /\ KindAt(t, i + 1) \in Keywords \cup {"word"}
             THEN [at |-> i + 2, value |-> TextValue(<<"$">> \o Spelled(t[i + 1]))]
        ELSE IF kind = "[" /\ KindAt(t, i + 1) = "]" THEN [at |-> i + 2, value |-> ListValue(<<>>)]
        ELSE IF kind = "[" THEN val["items", i + 1]
        ELSE IF kind = "{" /\ KindAt(t, i + 1) = "}" THEN [at |-> i + 2, value |-> NoValue]
        ELSE IF kind = "{" THEN val["fields", i + 1] ELSE none
  IN  val
\* parse_tool_call, its arguments: up to the end of the line, the block or the tokens.
ArgsAt(t) ==
  LET none == [at |-> 0, named |-> {}, value |-> <<>>]
      args[i \in 1..Len(t) + 3] ==
        IF KindAt(t, i) \in {"nl", "}", "eof"} THEN [none EXCEPT !.at = i]
        ELSE IF IsIdent(t[i]) /\ KindAt(t, i + 1) = "="
             THEN After(ValueAt(t)["value", i + 2], none, LAMBDA v : After(args[v.at], none, LAMBDA rest :
                    [rest EXCEPT !.named = Before(Spelled(t[i]), v.value, @)]))
        ELSE After(ValueAt(t)["value", i], none, LAMBDA v : After(args[v.at], none, LAMBDA rest :
               [rest EXCEPT !.value = <<v.value>> \o @]))
  IN  args
\* parse_statement and the body of a block; the program is a body without its brace.
Parse(t) ==
  LET IdentAt(i) == KindAt(t, i) \in Keywords \cup {"word"}
      none == [at |-> 0, out |-> <<>>]
      stmt[w \in {"statement", "body"}, i \in 1..Len(t) + 3] ==
        LET kind == KindAt(t, i) IN
        IF w = "body"
        THEN IF kind = "nl" THEN stmt["body", i + 1]
             ELSE IF kind \in {"}", "eof"} THEN [at |-> i, out |-> <<>>]
             ELSE After(stmt["statement", i], none, LAMBDA s : After(stmt["body", s.at], none, LAMBDA rest :
                    [at |-> rest.at, out |-> s.out \o rest.out]))
        ELSE IF kind = "let"
             THEN IF IdentAt(i + 1) /\ KindAt(t, i + 2) = "="
                  THEN After(ValueAt(t)["value", i + 3], none, LAMBDA v :
                         [at |-> v.at, out |-> <<Item("let", Spelled(t[i + 1]), {}, <<v.value>>)>>])
                  ELSE none
        ELSE IF kind = "abort"
             THEN After(ValueAt(t)["value", i + 1], none, LAMBDA v : [at |-> v.at, out |-> <<Item("abort", <<>>, {}, <<>>)>>])
        ELSE IF kind \in {"sequence", "parallel", "atomic"}
             THEN LET open == IF KindAt(t, i + 1) = "{" THEN i + 1 ELSE i + 2
                  IN  IF open = i + 2 /\ ~(IdentAt(i + 1) /\ KindAt(t, open) = "{") THEN none
                      ELSE After(stmt["body", open + 1], none, LAMBDA body : IF KindAt(t, body.at) # "}" THEN none
                             ELSE [at |-> body.at + 1,
                                   out |-> <<Item("open", <<kind>>, {}, <<>>)>> \o body.out \o <<Item("close", <<kind>>, {}, <<>>)>>])
        ELSE IF kind = "word"
             THEN After(ArgsAt(t)[i + 1], none, LAMBDA a : [at |-> a.at, out |-> <<Item("call", Spelled(t[i]), a.named, a.value)>>])
        ELSE none
  IN  After(stmt["body", 1], Refused, LAMBDA all : IF KindAt(t, all.at) # "eof" THEN Refused ELSE all.out)
-----------------------------------------------------------------------------
(* Compilers                                                               *)

\* lower_tool_args: named arguments, or a single one for a few tools.
Shorthand == [search |-> "query", shell |-> "command", read |-> "uris", graph |-> "uris", lsp |-> "uris", diagram |-> "uris"]
Lowers(c) == c.value = <<>> \/ (c.named = {} /\ Len(c.value) = 1 /\ c.name[1] \in DOMAIN Shorthand)
\* An argument is [key, list, texts]; a list within a list holds no text of its own.
ArgsOf(named) == {[key |-> n[1], list |-> n[2].list, texts |-> n[2].texts] : n \in named}
LowerToolArgs(c) ==
  IF c.value = <<>> THEN ArgsOf(c.named)
  ELSE LET key == Shorthand[c.name[1]]
       IN  {[key |-> <<key>>, list |-> key = "uris" /\ ~c.value[1].list, texts |-> c.value[1].texts]}
\* compile_statements: what is in a sequence goes in place, a parallel block nowhere.
CompilesToDsl(p) == \A i \in DOMAIN p : /\ p[i].op = "open" => p[i].name # <<"parallel">>
                                        /\ p[i].op = "call" => Lowers(p[i])
Dsl(p) == SelectSeq(p, LAMBDA s : s.op \notin {"open", "close"} \/ s.name = <<"atomic">>)
\* compile_statements_to_plan: atomic blocks go in place, too, and nothing aborts.
CompilesToPlan(p) == CompilesToDsl(p) /\ \A i \in DOMAIN p : p[i].op # "abort"

\* resolve: the value of a variable, else all variables in whatever order they come.
\* One that is not a text, of a script or what a tool gave, is only ever put in whole.
NoText(of) == <<"#", of>>
Occurs(t, n, i) == i + Len(n) - 1 <= Len(t) /\ \A k \in DOMAIN n : t[i + k - 1] = n[k]
ReplacedBy(t, n, v) ==
  LET at[i \in 1..Len(t) + 1] ==
        IF i > Len(t) THEN <<>> ELSE IF Occurs(t, n, i) THEN v \o at[i + Len(n)] ELSE <<t[i]>> \o at[i + 1]
  IN  IF v \in {NoText("object"), NoText("output")} THEN t ELSE at[1]
\* Mutant: a name is replaced where it stands alone, too.
ResolvedBare(vars, t, order) ==
  IF \E n \in DOMAIN vars : t = (<<"$">> \o n) THEN vars[CHOOSE n \in DOMAIN vars : t = (<<"$">> \o n)]
  ELSE FoldLeft(LAMBDA s, n : ReplacedBy(s, n, vars[n]), t, order)
Resolved(vars, t, order) ==
  IF \E n \in DOMAIN vars : t = (<<"$">> \o n) THEN vars[CHOOSE n \in DOMAIN vars : t = (<<"$">> \o n)]
  ELSE FoldLeft(LAMBDA s, n : ReplacedBy(s, <<"$">> \o n, vars[n]), t, order)
Orders(vars) == {o \in [1..Cardinality(DOMAIN vars) -> DOMAIN vars] : \A i, j \in DOMAIN o : o[i] = o[j] => i = j}
ResolvedArgs(vars, args, o) == {[a EXCEPT !.texts = [i \in DOMAIN @ |-> Resolved(vars, @[i], o)]] : a \in args}

\* An object with a tool and args is a call: a session makes it where a let binds it, and
\* binds what it gives. Whoever made a call is kept with it.
IsCall(v) == {<<"tool">>, <<"args">>} \subseteq {n[1] : n \in v.fields}
FieldOf(v, key) == (CHOOSE n \in v.fields : n[1] = key)[2]
ToolOf(v, vars, o) == LET t == FieldOf(v, <<"tool">>).texts IN IF Len(t) = 1 THEN Resolved(vars, t[1], o)[1] ELSE ""
CallOfLet(v, vars, o) == <<ToolOf(v, vars, o), ResolvedArgs(vars, ArgsOf(FieldOf(v, <<"args">>).fields), o), "let">>
CalledBy(calls, who) == SelectSeq(calls, LAMBDA c : c[3] = who)
\* One statement: every way it may go on from what has been called and bound.
StepsOf(run, s) ==
  CASE s.op = "let" ->
         LET v == s.value[1]  called == run.session /\ IsCall(v)
             bound(o) == IF called THEN NoText("output") ELSE IF Len(v.texts) = 1 /\ ~v.list THEN Resolved(run.vars, v.texts[1], o)
                         ELSE NoText("object")
         IN  {[run EXCEPT !.calls = IF called THEN Append(@, CallOfLet(v, run.vars, o)) ELSE @,
                          !.vars = (s.name :> bound(o)) @@ @] : o \in Orders(run.vars)}
    [] s.op = "call" -> {[run EXCEPT !.calls = Append(@, <<s.name[1], ResolvedArgs(run.vars, LowerToolArgs(s), o), "call">>)] : o \in Orders(run.vars)}
    [] s.op = "abort" -> {[run EXCEPT !.over = TRUE]}
    [] OTHER -> {run}
CallsFrom(session, vars, p) ==
  {r.calls : r \in FoldLeft(LAMBDA runs, s : UNION {IF r.over THEN {r} ELSE StepsOf(r, s) : r \in runs},
                            {[session |-> session, vars |-> vars, calls |-> <<>>, over |-> FALSE]}, p)}
\* The session assigns the arguments one after the other, the plan binds them as given.
Assigns(args) == [i \in DOMAIN args |-> Item("let", args[i][1], {}, <<TextValue(args[i][2])>>)]
Bindings(args) == FoldLeft(LAMBDA vars, a : (a[1] :> a[2]) @@ vars, [n \in {} |-> <<>>], args)
DslCalls(args, p) == CallsFrom(TRUE, [n \in {} |-> <<>>], Assigns(args) \o Dsl(p))
PlanCalls(args, p) == CallsFrom(FALSE, Bindings(args), p)

\* compiled_script_requires_shadow_session, which looks at no let, and the same of a plan.
Mutating == {"edit", "manage_file", "mutate", "proposal", "refactor", "shell", "build",
             "execute_plan", "execute_active_plan", "execute_dsl"}
SessionRequired(p) == \E i \in DOMAIN Dsl(p) : Dsl(p)[i].op = "call" /\ Dsl(p)[i].name[1] \in Mutating
PlanRequiresSession(calls) == \E i \in DOMAIN calls : calls[i][1] \in Mutating
\* collect_compiled_script_targets, collect_plan_artifact_targets
TargetsOf(tool, args) ==
  UNION {Range(a.texts) : a \in {b \in args : \/ tool \in {"edit", "refactor"} /\ b.key = <<"uri">> /\ ~b.list
                                              \/ tool \in {"read", "graph", "lsp", "diagram"} /\ b.key = <<"uris">> /\ b.list}}
ScriptTargets(p) == UNION {TargetsOf(p[i].name[1], LowerToolArgs(p[i])) : i \in {j \in DOMAIN p : p[j].op = "call"}}
ArtifactTargets(calls) == UNION {TargetsOf(calls[i][1], calls[i][2]) : i \in DOMAIN calls}
\* route_check_script: a report is what a target resolves to and who calls and is called by
\* it; two targets are in conflict when they are one or call each other.
Conflicts(reports) ==
  {c \in (DOMAIN reports) \X (DOMAIN reports) :
     LET one == reports[c[1]]  other == reports[c[2]]
     IN c[1] < c[2] /\ (one.resolved = other.resolved \/ other.resolved \in one.callers \cup one.callees)}
-----------------------------------------------------------------------------
(* Properties                                                              *)

Listed(open, parts, close) ==
  <<Punct(open)>> \o FlattenSeq([i \in DOMAIN parts |-> (IF i = 1 THEN <<>> ELSE <<Punct(",")>>) \o parts[i]]) \o <<Punct(close)>>
PrintedFlat(v) == IF v.list THEN Listed("[", [i \in DOMAIN v.texts |-> <<Str(v.texts[i])>>], "]")
                  ELSE IF v.texts # <<>> THEN <<Str(v.texts[1])>> ELSE <<Punct("{"), Punct("}")>>
PrintedWith(v, Inner(_)) ==
  IF v.fields = {} THEN PrintedFlat(v)
  ELSE Listed("{", SetToSeq({<<Word(n[1]), Punct(":")>> \o Inner(n[2]) : n \in v.fields}), "}")
Printed(v) == PrintedWith(v, LAMBDA u : PrintedWith(u, PrintedFlat))
PrintedItem(s) ==
  CASE s.op = "let" -> <<Punct("let"), Word(s.name), Punct("=")>> \o Printed(s.value[1]) \o <<Punct("nl")>>
    [] s.op = "abort" -> <<Punct("abort"), Str(<<>>), Punct("nl")>>
    [] s.op = "open" -> <<Punct(s.name[1]), Punct("{")>>
    [] s.op = "close" -> <<Punct("}"), Punct("nl")>>
    [] OTHER -> <<Word(s.name)>> \o FlattenSeq([i \in DOMAIN s.value |-> Printed(s.value[i])])
                \o FlattenSeq(SetToSeq({<<Word(n[1]), Punct("=")>> \o Printed(n[2]) : n \in s.named})) \o <<Punct("nl")>>
PrintedScript(p) == FlattenSeq([i \in DOMAIN p |-> PrintedItem(p[i])])
BlocksOf(p, i, k) == Cardinality({j \in 1..i : p[j].op = k})
ReadsBack(p) == /\ Parse(PrintedScript(p)) = p
                /\ \A i \in DOMAIN p : BlocksOf(p, i, "open") >= BlocksOf(p, i, "close")
                /\ BlocksOf(p, Len(p), "open") = BlocksOf(p, Len(p), "close")
\* What is printed parses to what was printed, and whatever parses, however its lines
\* and blocks are put, is the same script when it is printed and has every block closed.
ParserReadsBack ==
  /\ \A p \in ScriptPrograms : ReadsBack(p)
  /\ \A t \in TokenStrings : \A p \in {Parse(t)} : p # Refused => ReadsBack(p)

\* What a compiled plan calls, with which arguments and in which order, is what a session
\* would call but for the calls its lets make, unless a text names what such a let bound; and
\* what either calls by itself was told to need a session: resolving names neither a tool nor,
\* where no dollar is left, a target that the checked script did not name. What a let calls
\* is in no plan, and neither a session nor a target is asked for it (engine.rs:775-803,
\* script.rs:685-688, 798, 828).
TextsIn(v) == Range(v.texts) \cup UNION {Range(n[2].texts) \cup UNION {Range(m[2].texts) : m \in n[2].fields} : n \in v.fields}
NamesAnOutput(p) ==
  \E i, j \in DOMAIN p : /\ p[i].op = "let" /\ IsCall(p[i].value[1])
                         /\ \E v \in Range(p[j].value) \cup {n[2] : n \in p[j].named} : \E t \in TextsIn(v) :
                              \E k \in DOMAIN t : Occurs(t, <<"$">> \o p[i].name, k)
PlansCallAlike ==
  \A p \in ScriptPrograms, args \in Arguments : CompilesToPlan(p) =>
    LET plan == PlanCalls(args, p)  session == {CalledBy(calls, "call") : calls \in DslCalls(args, p)}
    IN  /\ (\A i \in DOMAIN args : "$" \notin Range(args[i][2])) /\ ~NamesAnOutput(p) => session = plan
        /\ \A calls \in session \cup plan :
             /\ PlanRequiresSession(calls) <=> SessionRequired(p)
             /\ (\A t \in ScriptTargets(p) : "$" \notin Range(t)) => ArtifactTargets(calls) = ScriptTargets(p)
\* The order of the variables is of no account, as long as no name begins another, no value
\* holds a dollar and no text has two in a row: then only names that a text quotes count.
Begins(n, m) == Len(n) <= Len(m) /\ n = SubSeq(m, 1, Len(n))
OrderIsNoMatter ==
  \A args \in Arguments :
    LET vars == Bindings(args)
        plain == /\ \A n, m \in DOMAIN vars : Begins(n, m) => n = m
                 /\ \A n \in DOMAIN vars : "$" \notin Range(vars[n])
        texts == UNION {UNION {TextsIn(p[i].value[1]) : i \in {j \in DOMAIN p : p[j].op = "let"}} : p \in ScriptPrograms}
    IN  plain => \A t \in texts : \A o \in Orders(vars) :
          /\ (\A i \in 1..Len(t) - 1 : t[i] # "$" \/ t[i + 1] # "$") => \A q \in Orders(vars) : Resolved(vars, t, o) = Resolved(vars, t, q)
          /\ "$" \notin Range(t) => Resolved(vars, t, o) = t

\* A script whose targets are checked is reported as ok exactly when no two of them call
\* each other, whichever is named first, and at most one is unknown to the graph.
ReportOf(calls, t) == [resolved |-> IF t < 3 THEN t ELSE 0, callers |-> {u \in 1..2 : <<u, t>> \in calls},
                       callees |-> {u \in 1..2 : <<t, u>> \in calls}]
ChecksFindConflicts ==
  \A calls \in SUBSET ((1..2) \X (1..2)), targets \in UNION {[1..n -> 1..4] : n \in 1..3} :
    (\A i, j \in DOMAIN targets : targets[i] = targets[j] => i = j) =>
      (Conflicts([i \in DOMAIN targets |-> ReportOf(calls, targets[i])]) = {}) <=>
        /\ {3, 4} \cap Range(targets) # {3, 4}
        /\ {1, 2} \subseteq Range(targets) => calls \cap {<<1, 2>>, <<2, 1>>} = {}

\* What scripts keep, for every program and argument tried.
ScriptsKeep == ParserReadsBack /\ PlansCallAlike /\ OrderIsNoMatter /\ ChecksFindConflicts
=============================================================================
