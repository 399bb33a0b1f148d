------------------------------- MODULE MCDelegation -------------------------------
(* Delegation with two workers and two nodes, and parts that stand beside it,  *)
(* each by itself: their instances are small and share this run.               *)
EXTENDS Delegation, Graph, Policy, TLC

CONSTANTS n1, n2, w1, w2

VARIABLE part \* the component whose behaviour this is; they share no state

Alike == Permutations({w1, w2})

\* Three symbols whose spans nest, cross or stand apart; a caller and two that may be meant.
SymbolOf(id, role, kind, file, span) ==
  [id |-> id, name |-> id, kind |-> kind, role |-> role, link |-> "", file |-> file, dir |-> "d", ext |-> "rs",
   from |-> span[1], to |-> span[2], scope |-> "", at |-> FALSE, of |-> "", calls |-> {}, imports |-> {},
   wrapper |-> FALSE, core |-> FALSE, realizes |-> <<>>]
Nested(id) == {SymbolOf(id, "definition", k, "f", s) :
                 k \in {"module", "struct", "function"}, s \in {<<0, 9>>, <<1, 8>>, <<2, 5>>, <<1, 4>>}}
MCTables == {<<x, y, z>> : x \in Nested("a"), y \in Nested("b"), z \in Nested("c")}
Callee(id) == {[SymbolOf(id, r, "function", f, <<0, 1>>) EXCEPT !.name = "n", !.link = l, !.scope = sc,
                                                               !.dir = IF f = "q" THEN "q" ELSE "d",
                                                               !.ext = IF f = "p" THEN "py" ELSE "rs"] :
                 r \in {"definition", "stub"}, f \in {"f", "p", "q"}, l \in {"", "l"}, sc \in {"", "k"}}
TheCaller == {[SymbolOf("a", r, "function", "f", <<2, 3>>)
                 EXCEPT !.calls = {[name |-> "n", scope |-> sc]}, !.imports = {[name |-> "n", scope |-> ""]}, !.link = l] :
                 r \in {"definition", "stub"}, sc \in {"", "k"}, l \in {"", "l"}}
MCCallTables == {<<x, y, z>> : x \in TheCaller, y \in Callee("b"), z \in Callee("c")}
MCBuilt == <<{<<"a", "b">>, <<"b", "c">>}, {<<"a", "c">>, <<"b", "c">>}>>

MCInit ==
  /\ part \in {"delegation", "graph"}
  /\ Init /\ GraphInit
MCNext ==
  /\ part' = part
  /\ \/ part = "delegation" /\ Next /\ UNCHANGED graphVars
     \/ part = "graph" /\ GraphNext /\ UNCHANGED vars
MCSpec == MCInit /\ [][MCNext]_<<part, vars, graphVars>>
\* The graph and the policy share no state with delegation: one property stands for both.
GraphAndPolicyKeep == GraphKeeps /\ PolicyKeeps
=============================================================================
