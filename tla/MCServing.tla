------------------------------ MODULE MCServing ------------------------------
(* Instances of Serving: every input of up to MaxLines lines.              *)
EXTENDS Serving

CONSTANT MaxLines

AllLines == UNION {[1..n -> Requests \cup Unanswered] : n \in 0..MaxLines}
=============================================================================
