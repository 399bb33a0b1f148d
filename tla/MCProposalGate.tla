-------------------------- MODULE MCProposalGate --------------------------
(* Instances of ProposalGate: one proposal and two callers.                *)
EXTENDS ProposalGate, TLC

CONSTANTS p1, a, b

Same == Permutations({a, b})
=============================================================================
