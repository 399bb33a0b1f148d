------------------------------- MODULE MCProposals --------------------------------
(* The proposal gate, and parts that stand beside it, each by itself: their    *)
(* instances are small and share this run.                                     *)
EXTENDS MCProposalGate, ReviewCycles, Watchdog, Refactoring, TLC

\* x1 and x2: the callers, writers or participants of each part
CONSTANTS x1, x2, f1, f2, v1, v2, v3, u1, u2, s1, s2

VARIABLE part \* the component whose behaviour this is; they share no state

Alike == Permutations({x1, x2})

\* One line in each file; both servers are called.
MCContents1 == {<<>>, <<"l">>}
ReviewStarts == body = [f \in Tracked |-> <<"l">>] /\ home # [x \in Reviewers |-> v2]
ReviewRests == body = [f \in Tracked |-> <<"l">>] /\ home = [x \in Reviewers |-> v2]

\* A definition and a caller; a definition in another; a caller and another of its name; no file.
MCCaller == <<"def", "d", ";", "a", "end", "def", "d", "end">>
MCCalled == <<"def", "a", ";", "end", "def", "c", ";", "a", "end">>
MCNested == <<"def", "k", ";", "def", "a", ";", "end", "a", "end">>
MCCode == {MCCaller, MCCalled, MCNested, NoSource}
MCNew == {<<"z">>, <<"a", "z">>}
\* Indexed as it is, before a file was deleted, and never.
IndexedAs(s, t) == index = [f \in CodeFiles |-> Indexed(IF f = s1 THEN s ELSE t, {})]
RefactorStarts ==
  /\ source[s1] = IF part = "nested" THEN MCNested ELSE MCCalled
  /\ \/ source[s2] = MCCaller /\ IndexedAs(source[s1], source[s2])
     \/ source[s2] = NoSource /\ part # "nested" /\ (IndexedAs(MCCalled, MCCaller) \/ IndexedAs(NoSource, NoSource))
\* A name of one letter where a place lies in another.
Gives(n) == \A x \in Refactorings : job'[x].new \in {<<>>, n}
RefactorRests == source = Nowhere /\ IndexedAs(NoSource, NoSource)

MCInit ==
  /\ part \in {"proposal", "review", "watchdog", "refactoring", "nested"}
  /\ Init /\ ReviewInit /\ WatchInit /\ RefactorInit
  /\ (part # "review" => ReviewRests)
  /\ (part = "review" => ReviewStarts)
  /\ IF part \in {"refactoring", "nested"} THEN RefactorStarts ELSE RefactorRests
MCNext ==
  /\ part' = part
  /\ \/ part = "proposal" /\ Next /\ UNCHANGED <<reviewVars, watchVars, refactorVars>>
     \/ part = "review" /\ ReviewNext /\ UNCHANGED <<vars, watchVars, refactorVars>>
     \/ part = "watchdog" /\ WatchNext /\ UNCHANGED <<vars, reviewVars, refactorVars>>
     \/ /\ part \in {"refactoring", "nested"} /\ RefactorNext /\ UNCHANGED <<vars, reviewVars, watchVars>>
        /\ Gives(IF part = "nested" THEN <<"z">> ELSE <<"a", "z">>)
MCSpec == MCInit /\ [][MCNext]_<<part, vars, reviewVars, watchVars, refactorVars>>
\* Together the parts beside the gate: review cycles (review_cycle.rs) and the watchdog
\* (watchdog.rs), each in its own behaviours, for in the others it stays as it starts.
ReportsKeep == (part = "review" => ReviewKeeps) /\ (part = "watchdog" => WatchKeeps)
=============================================================================
