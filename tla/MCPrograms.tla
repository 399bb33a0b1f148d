-------------------------------- MODULE MCPrograms --------------------------------
(* The programs of execute_dsl, and parts that stand beside them, each by       *)
(* itself: their instances are small and share this run.                        *)
EXTENDS MCDslAtomic, Handshake, Builds, DebugSessions, Diagnostics, Scripts, TLC

CONSTANTS g1, g2, k1, k2, i1, i2, b1, b2, d1, d2, d3, e1, e2

VARIABLE part \* the component whose behaviour this is; they share no state

\* Scripts: every short string of some tokens, and programs with one block at most.
SomeTokens == {Punct(k) : k \in {"let", "atomic", "{", "}", "=", ":", "$", "nl", "[", "]", ","}} \cup {Word(<<"a">>)}
SomeTokenStrings == UNION {[1..n -> SomeTokens] : n \in 0..4}
Plain(s) == TextValue(s)
Made(fields) == [NoValue EXCEPT !.fields = fields]
CallMade(tool, t) == Made({<<<<"tool">>, Plain(tool)>>, <<<<"args">>, Made({<<<<"uri">>, Plain(t)>>})>>})
SomeLets == {Item("let", <<"a">>, {}, <<Plain(t)>>) : t \in {<<"x">>, <<"$", "a">>, <<"x", "$", "a", "b">>, <<"$", "a", "a">>}}
  \cup {Item("let", <<"a">>, {}, <<v>>) : v \in {CallMade(<<"edit">>, <<"x">>), CallMade(<<"read">>, <<"$", "a">>), Made({<<<<"args">>, Plain(<<"x">>)>>})}}
SomeCalls == {Item("call", <<"search">>, {}, <<Plain(t)>>) : t \in {<<"x">>, <<"$", "a">>}}
  \cup {Item("call", <<"edit">>, {<<<<"uri">>, Plain(t)>>}, <<>>) : t \in {<<"x">>, <<"$", "a", "b">>}}
  \cup {Item("call", <<"read">>, {}, <<v>>) : v \in {Plain(<<"x">>), ListValue(<<<<"x">>>>)}}
  \cup {Item("call", <<"search">>, {<<<<"uri">>, Plain(<<"x">>)>>}, <<Plain(<<"x">>)>>)}
SomeItems == SomeLets \cup SomeCalls \cup {Item("abort", <<>>, {}, <<>>)}
InBlock(k, s) == <<Item("open", <<k>>, {}, <<>>), s, Item("close", <<k>>, {}, <<>>)>>
SomeScripts == (UNION {[1..n -> SomeItems] : n \in 0..2})
  \cup {<<s>> \o InBlock(k, u) : s \in SomeItems, u \in SomeItems, k \in {"atomic", "sequence", "parallel"}}
SomeArguments == UNION {[1..n -> {<<"a">>, <<"a", "b">>, <<"b">>} \X {<<"x">>, <<"$", "a">>, <<"y", "$">>, <<"a">>}] : n \in 0..2}

\* Builds: two symbols, one in the other; settings without and with a custom adapter, a task
\* and language plugins; requests of the server and of the CLI.
TwoSymbols == {[id |-> "outer", file |-> "f", from |-> 1, to |-> 9], [id |-> "inner", file |-> "f", from |-> 3, to |-> 5]}
ErrorLine(s, n, c) == [style |-> s, file |-> "f", line |-> n, column |-> c]
SomeReports == {<<>>, <<ErrorLine("rust", 4, TRUE), ErrorLine("c", 7, FALSE)>>, <<ErrorLine("c", 7, TRUE)>>}
Nobodys == [a \in {} |-> Unset]
PlainSettings == [profile |-> Unset, target |-> Unset, tasks |-> Nobodys, raw |-> TRUE, preferred |-> Unset,
  adapters |-> Nobodys, dir |-> Unset, plugins |-> FALSE, languages |-> {}, order |-> Nobodys]
MineSettings == [PlainSettings EXCEPT !.order = [mine |-> 1, ninja |-> 2, other |-> 3], !.adapters =
  [mine |-> [detect |-> {<<"acme">>, <<"two">>}, cwd |-> Unset, steps |-> <<<<"mine", "{profile}">>, <<>>, <<"mine", "{target}">>>>]]]
SomeSettings == {PlainSettings, MineSettings,
  [MineSettings EXCEPT !.plugins = TRUE, !.tasks = [all |-> "do"],
     !.languages = {[system |-> "other", file |-> <<"acme">>], [system |-> "ninja", file |-> <<"two">>]}]}
AskedOf(a, t, e, cmd, cli, tail) == [adapter |-> a, profile |-> Unset, target |-> t, execute |-> e, zig |-> FALSE,
  command |-> cmd, trusted |-> FALSE, tail |-> tail, cli |-> cli]
SomeRequests == {AskedOf(Unset, Unset, TRUE, Unset, TRUE, <<"-x">>), AskedOf("cmake", Unset, TRUE, Unset, FALSE, <<"-x">>),
  AskedOf(Unset, "all", TRUE, Unset, FALSE, <<>>), AskedOf(Unset, Unset, FALSE, <<"sh">>, FALSE, <<>>)}
SomeFiles == {{<<"acme">>}, {<<"acme">>, <<"two">>}, {<<"Cargo.toml">>}}

\* Diagnostics: a file of Rust and one of no language, and another file whose name ends alike.
Source(n, d, b, e) == [name |-> n, dir |-> d, base |-> b, ext |-> e]
LibSource == Source("a", <<"src/">>, <<"lib.rs">>, "rs")
OtherLib == Source("d", <<"src/", "my">>, <<"lib.rs">>, "rs")
TwoSources == {LibSource, Source("c", <<"src/">>, <<"c.txt">>, "txt")}
BrokenFirst == {<<"a", 0>>}
SomeOutputs == SUBSET [file : {LibSource, OtherLib}, line : 1..2, level : {"error", "note"}]

MCInit ==
  /\ part \in {"dsl", "handshake", "builds", "debug", "diagnostics", "compilers"}
  /\ Init /\ HandshakeInit /\ BuildsInit /\ DebugInit /\ DiagInit
  /\ (part # "builds" => settings = PlainSettings /\ workFiles = {<<"Cargo.toml">>})
MCNext ==
  /\ part' = part
  /\ \/ part = "dsl" /\ Next /\ UNCHANGED <<handshakeVars, buildsVars, debugVars, diagVars>>
     \/ part = "handshake" /\ HandshakeNext /\ UNCHANGED <<vars, buildsVars, debugVars, diagVars>>
     \/ part = "builds" /\ BuildsNext /\ UNCHANGED <<vars, handshakeVars, debugVars, diagVars>>
     \/ part = "debug" /\ DebugNext /\ UNCHANGED <<vars, handshakeVars, buildsVars, diagVars>>
     \/ part = "diagnostics" /\ DiagNext /\ UNCHANGED <<vars, handshakeVars, buildsVars, debugVars>>
MCSpec == MCInit /\ [][MCNext]_<<part, vars, handshakeVars, buildsVars, debugVars, diagVars>>
\* Together the parts beside execute_dsl: the handshake (connection.rs), builds (build.rs),
\* debugging (debug.rs) and diagnostics (lsp.rs).
\* A part is looked at in its own behaviours, for in the others it stays as it starts.
ProgramsKeep ==
  /\ part = "handshake" => HandshakeKeeps
  /\ part = "builds" => BuildsKeep
  /\ part = "debug" => DebugKeeps
  /\ part = "diagnostics" => DiagnosticsKeep
\* Together what is made of a text or of settings without a state, which needs one state to
\* be looked at: the compilation of scripts (script.rs) and the plans of builds (build.rs).
CompilersKeep == part = "compilers" => ScriptsKeep /\ BuildPlansKeep
=============================================================================
