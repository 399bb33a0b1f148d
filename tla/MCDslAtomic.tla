---------------------------- MODULE MCDslAtomic ----------------------------
(* Instances of DslAtomic: one client with every well-nested program of up *)
(* to MaxLen nodes, and other clients with a single block.                 *)
EXTENDS DslAtomic

CONSTANTS c1, f1, f2, MaxLen

Nodes(ops) == {n \in [op : ops, file : Files] : n.op = "edit" \/ n.file = f1}
Nested(prog) ==
  /\ \A i \in 1..Len(prog) : Closes(prog, i) <= Opens(prog, i)
  /\ Closes(prog, Len(prog)) = Opens(prog, Len(prog))
\* An abort ends the program: what stands after it in its block or behind is never reached.
EndsAtAbort(prog) == \A i, j \in 1..Len(prog) : i < j /\ prog[i].op = "abort" => prog[j].op = "end"
AllPrograms  == {prog \in BoundedSeq(Nodes(Ops), MaxLen) : Nested(prog) /\ EndsAtAbort(prog)}
\* One block with an edit, that ends well or not.
OneBlock == {<<[op |-> "atomic", file |-> f1], [op |-> "edit", file |-> f2], [op |-> o, file |-> f1]>>
               \o (IF o = "end" THEN <<>> ELSE <<[op |-> "end", file |-> f1]>>) : o \in {"end", "abort"}}
OneAndOthers == [c \in Clients |-> IF c = c1 THEN AllPrograms ELSE OneBlock]
=============================================================================
