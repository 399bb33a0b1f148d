-------------------------- MODULE MCShadowStore --------------------------
(* Instances of ShadowStore for TLC: one or two files, an edit that keeps *)
(* the size (a to b), and one file that git does not track.               *)
EXTENDS ShadowStore

CONSTANTS f1, f2, a, b, e, w, name

OneFile    == {f1}
TwoFiles   == {f1, f2}
MCContents == {a, b, e, w}
MCPayloads == {a, b}
MCSizeOf   == [c \in MCContents |-> CASE c = e -> 0 [] c = w -> 2 [] OTHER -> 1]
SameName   == [f \in Files |-> name]
MCGitHead  == [f \in Files |-> IF f = f1 THEN a ELSE Absent]
=============================================================================
