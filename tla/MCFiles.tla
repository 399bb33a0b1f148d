--------------------------------- MODULE MCFiles ----------------------------------
(* The shadow store on one file, and the other parts of the workspace that keep *)
(* files, each by itself: their instances are small and share this run.         *)
EXTENDS MCShadowStore, Collaboration, Variants, Editing, TLC

\* x1 and x2: the callers, writers or participants of each part
CONSTANTS x1, x2, r1, s1, v1, v2, l1, l2

VARIABLE part \* the component whose behaviour this is; they share no state

Alike == Permutations({x1, x2})

Original(l) == [label |-> l, body |-> 0]
TwoAlike == {<<Original(l1), Original(l1)>>}

MCInit ==
  /\ part \in {"store", "collaboration", "variants", "editing"}
  /\ Init /\ CollabInit /\ VariantsInit /\ EditInit
  /\ (part # "store" => \A f \in Files : real[f] = Absent)
  /\ (part # "collaboration" => file = NoFile)
MCNext ==
  /\ part' = part
  /\ \/ part = "store" /\ Next /\ UNCHANGED <<collabVars, variantVars, editVars>>
     \/ part = "collaboration" /\ CollabNext /\ UNCHANGED <<vars, variantVars, editVars>>
     \/ part = "variants" /\ VariantsNext /\ UNCHANGED <<vars, collabVars, editVars>>
     \/ part = "editing" /\ EditNext /\ UNCHANGED <<vars, collabVars, variantVars>>
MCSpec == MCInit /\ [][MCNext]_<<part, vars, collabVars, variantVars, editVars>>
=============================================================================
