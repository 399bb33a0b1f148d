-------------------------- MODULE OptimisticFiles --------------------------
(***************************************************************************)
(* What a shadow transaction promises about each workspace file.  The      *)
(* agent works on a copy; its version of a file reaches the workspace only *)
(* by an Install, which replaces the file if it still is what the copy was *)
(* taken from and otherwise writes a merge of the two; until then, and     *)
(* whatever else happens, only people change the workspace.  Deleting a    *)
(* file of the copy never deletes the workspace file.  Writes are counted, *)
(* so that no other step can pass for the edit of a person or an agent.    *)
(***************************************************************************)
EXTENDS Naturals

CONSTANTS Files, Contents, Absent,
          Merges(_, _, _)  \* Merges(f, ours, theirs): the merges of two versions of f

VARIABLES file,  \* the workspace
          snap,  \* what each file held when it was copied
          work,  \* the agent's copy
          count  \* writes by people and agents

Hold    == [Files -> Contents \cup {Absent}]
Nothing == [f \in Files |-> Absent]

TypeOK == file \in Hold /\ snap \in Hold /\ work \in Hold /\ count \in Nat
Init   == file \in Hold /\ snap = Nothing /\ work = Nothing /\ count = 0

Edit(f, c) ==
  /\ file' = [file EXCEPT ![f] = c] /\ count' = count + 1
  /\ UNCHANGED <<snap, work>>

CopyFile(f) ==
  /\ file[f] # Absent
  /\ snap' = [snap EXCEPT ![f] = file[f]]
  /\ work' = [work EXCEPT ![f] = file[f]]
  /\ UNCHANGED <<file, count>>

Work(f, c) ==
  /\ work' = [work EXCEPT ![f] = c] /\ count' = count + 1
  /\ UNCHANGED <<file, snap>>

Drop(f) == work' = [work EXCEPT ![f] = Absent] /\ UNCHANGED <<file, snap, count>>

Install(f) ==
  /\ work[f] # Absent
  /\ \E c \in IF file[f] = snap[f] THEN {work[f]} ELSE Merges(f, file[f], work[f]) :
       file' = [file EXCEPT ![f] = c]
  /\ UNCHANGED <<snap, work, count>>

Discard == snap' = Nothing /\ work' = Nothing /\ UNCHANGED <<file, count>>

Next ==
  \/ Discard
  \/ \E f \in Files : CopyFile(f) \/ Drop(f) \/ Install(f)
  \/ \E f \in Files, c \in Contents \cup {Absent} : Edit(f, c) \/ Work(f, c)

vars == <<file, snap, work, count>>
Spec == Init /\ [][Next]_vars
=============================================================================
