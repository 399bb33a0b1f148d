---------------------------------- MODULE MCGate ----------------------------------
(* The plan gate: two connections, one of them with two requests.              *)
EXTENDS PlanGate

CONSTANTS c1, c2, q1, q2, q3

TwoConns == [q \in Requests |-> IF q = q3 THEN c2 ELSE c1]
=============================================================================
