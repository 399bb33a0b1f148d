---------------------------- MODULE DebugSessions ----------------------------
(***************************************************************************)
(* Debugging (debug.rs): one shot of a snippet, and sessions that keep the  *)
(* snippets sent so far and, for interpreters, run them all again each     *)
(* time.  A send takes the lock of the sessions four times, and lets it go *)
(* while the interpreter runs.                                             *)
(***************************************************************************)
EXTENDS Naturals, Sequences, SequencesExt

CONSTANTS
  Sends,        \* requests that send a snippet; each has a snippet of its own
  MaxDebugSessions, \* bound
  NoTarget

\* Some target that is given; it is another than none.
SomeTarget == [name |-> "t", path |-> FALSE, inside |-> FALSE]
ASSUME DebugAssumption == NoTarget # SomeTarget

\* Interpreters run a snippet they are given; debuggers need a target, and only some of
\* them get the snippet at all.
Interpreters ==
  [python |-> <<"python", "-c">>, node |-> <<"node", "-e">>, javascript |-> <<"node", "-e">>,
   ruby |-> <<"ruby", "-e">>, php |-> <<"php", "-r">>, lua |-> <<"lua", "-e">>, julia |-> <<"julia", "-e">>,
   r |-> <<"Rscript", "-e">>, elixir |-> <<"elixir", "-e">>, haskell |-> <<"ghci", "-e">>, ghci |-> <<"ghci", "-e">>]
ByScriptFile == {"java", "jshell"}
Debuggers == {"gdb", "lldb", "jdb", "dlv"}
Backends == \* name, whether it is a debugger, whether it must have a target
  {<<l, FALSE, FALSE>> : l \in DOMAIN Interpreters \cup ByScriptFile} \cup {<<l, TRUE, TRUE>> : l \in Debuggers}
StatefulReplay(lang) ==
  lang \in {"python", "node", "javascript", "ruby", "php", "lua", "julia", "r", "elixir", "haskell", "ghci",
            "java", "jshell"}
\* A target with a path in it must be inside the workspace; a bare name is taken as it is.
TargetAllowed(t) == t.path => t.inside
\* debug() until its command: refused, or the words of the command.
CommandFor(lang, snippet, target, poisoned) ==
  IF \/ target # NoTarget /\ poisoned
     \/ snippet = <<>>
     \/ lang \in Debuggers /\ (target = NoTarget \/ ~TargetAllowed(target))
     \/ ~\E b \in Backends : b[1] = lang
  THEN <<>>
  ELSE CASE lang \in DOMAIN Interpreters -> Interpreters[lang] \o snippet
         [] lang \in ByScriptFile -> <<"jshell", "script">>
         [] lang = "gdb"  -> <<"gdb", "-q", "-batch", "-ex">> \o snippet \o <<"--args", target.name>>
         [] lang = "lldb" -> <<"lldb", "-b", "-Q", "-o">> \o snippet \o <<"--", target.name>>
         [] lang = "jdb"  -> <<"jdb", "-sourcepath", ".", target.name>>
         [] lang = "dlv"  -> <<"dlv", "exec", target.name, "--">>
-----------------------------------------------------------------------------
VARIABLES
  debugSessions, \* by number: whether it replays, the snippets kept, and those of its last output
  nextSession,
  sending        \* each send: where it is, for which session, what it has read

debugVars == <<debugSessions, nextSession, sending>>

NotSent == [at |-> "rest", id |-> 0, replay |-> FALSE, runs |-> <<>>, owes |-> {}, alive |-> FALSE]
DebugInit ==
  /\ debugSessions = [i \in {} |-> NotSent] /\ nextSession = 1
  /\ sending = [s \in Sends |-> NotSent]

There(id) == id \in DOMAIN debugSessions
To(s, at) == sending' = [sending EXCEPT ![s].at = at]
\* The sends of a session that have been answered "ok".
Answered(id) == {s \in Sends : sending[s].id = id /\ sending[s].at = "ok"}

StartSession(lang) ==
  /\ nextSession <= MaxDebugSessions
  /\ debugSessions' = [i \in DOMAIN debugSessions \cup {nextSession} |->
       IF i = nextSession THEN [replays |-> StatefulReplay(lang), kept |-> <<>>, last |-> <<>>] ELSE debugSessions[i]]
  /\ nextSession' = nextSession + 1
  /\ UNCHANGED sending
StopSession(id) ==
  /\ There(id)
  /\ debugSessions' = [i \in DOMAIN debugSessions \ {id} |-> debugSessions[i]]
  /\ UNCHANGED <<nextSession, sending>>
\* send_session, first lock: the language and the target.  owes and alive are history: the
\* snippets answered by then, and whether the session was there.
TakeLanguage(s) ==
  /\ sending[s].at = "rest"
  /\ \E id \in 1..MaxDebugSessions :
       sending' = [sending EXCEPT ![s] = [NotSent EXCEPT !.id = id, !.owes = Answered(id), !.alive = There(id),
                                            !.at = IF There(id) THEN "language" ELSE "unknown"]]
  /\ UNCHANGED <<debugSessions, nextSession>>
\* Second lock: a session that has gone meanwhile is taken for one that does not replay.
AskReplay(s) ==
  LET id == sending[s].id IN
  /\ sending[s].at = "language"
  /\ sending' = [sending EXCEPT ![s].at = "replay", ![s].replay = There(id) /\ debugSessions[id].replays]
  /\ UNCHANGED <<debugSessions, nextSession>>
\* Third lock: the snippets to run, then the interpreter is started.
TakeHistory(s) ==
  LET id == sending[s].id IN
  /\ sending[s].at = "replay"
  /\ IF ~sending[s].replay
     THEN sending' = [sending EXCEPT ![s].at = "running", ![s].runs = <<s>>]
     ELSE IF There(id)
     THEN sending' = [sending EXCEPT ![s].at = "running", ![s].runs = Append(debugSessions[id].kept, s)]
     ELSE To(s, "unknown")
  /\ UNCHANGED <<debugSessions, nextSession>>
\* The command is refused or cannot be run: nothing is kept.
RunFails(s) == sending[s].at = "running" /\ To(s, "error") /\ UNCHANGED <<debugSessions, nextSession>>
\* Mutant: what was run becomes the history, instead of the snippet being added to it.
KeptAsRun(s, kept) == sending[s].runs
Kept(s, kept) == Append(kept, s)
\* Fourth lock, after the command has ended, whatever its exit code.
Remember(s) ==
  LET id == sending[s].id IN
  /\ sending[s].at = "running"
  /\ IF There(id)
     THEN /\ debugSessions' = [debugSessions EXCEPT ![id].kept = Kept(s, debugSessions[id].kept), ![id].last = sending[s].runs]
          /\ To(s, "ok")
     ELSE To(s, "unknown") /\ UNCHANGED debugSessions
  /\ UNCHANGED nextSession
DebugNext ==
  \/ \E lang \in {"python", "gdb"} : StartSession(lang)
  \/ \E id \in DOMAIN debugSessions : StopSession(id)
  \/ \E s \in Sends : TakeLanguage(s) \/ AskReplay(s) \/ TakeHistory(s) \/ RunFails(s) \/ Remember(s)
DebugSpec == DebugInit /\ [][DebugNext]_debugVars
-----------------------------------------------------------------------------
(* Properties                                                              *)

\* A send of a session that replays runs every snippet that had been answered when it was
\* sent, though other sends come between (debug.rs:283-331).
EarlierSnippetsRun ==
  \A s \in Sends : sending[s].replay /\ sending[s].runs # <<>> => sending[s].owes \subseteq ToSet(sending[s].runs)
\* A session keeps each answered snippet once, and its last output is of the snippet kept last.
KeptOnce ==
  \A id \in DOMAIN debugSessions :
    LET d == debugSessions[id] IN
    /\ ToSet(d.kept) = Answered(id) /\ IsInjective(d.kept)
    /\ d.kept # <<>> => Last(d.last) = Last(d.kept) /\ (d.replays \/ Len(d.last) = 1)
\* Only a session that was stopped, or was never there, is unknown; its number never returns.
UnknownWasStopped ==
  \A s \in Sends : sending[s].at = "unknown" /\ sending[s].alive => ~There(sending[s].id)
\* What replays is what needs no target, and each listed backend has a command.
BackendsAgree ==
  /\ \A b \in Backends : StatefulReplay(b[1]) <=> ~b[3]
  /\ \A b \in Backends : CommandFor(b[1], <<"x">>, SomeTarget, FALSE) # <<>>
\* Together (debug.rs:28-370).
DebugKeeps == EarlierSnippetsRun /\ KeptOnce /\ UnknownWasStopped /\ BackendsAgree
=============================================================================
