----------------------------- MODULE MCSessions -----------------------------
(* Instances of Sessions: two contexts in processes of their own.          *)
EXTENDS Sessions, TLC

CONSTANTS p, q, t1, t2

OwnProcess == [c \in Contexts |-> c]
AllCircumstances == [racing : BOOLEAN, polite : BOOLEAN]
Symmetry == Permutations(Pids) \cup Permutations(Txs)
=============================================================================
