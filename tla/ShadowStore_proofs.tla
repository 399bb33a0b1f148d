------------------------ MODULE ShadowStore_proofs ------------------------
(***************************************************************************)
(* Proofs about ShadowStore for any set of files, any contents and any     *)
(* bounds: type correctness, the agreement of HEAD with the transaction in *)
(* memory, that a commit never silently overwrites another's work and      *)
(* carries every staged edit, that a commit cut short can be finished, and *)
(* that a store which nobody crosses implements OptimisticFiles.           *)
(***************************************************************************)
EXTENDS ShadowStore, SequenceTheorems, TLAPS

USE ContentsAssumption, BoundsAssumption, MarkerAssumption

LEMMA StampedType == ASSUME TypeOK, NEW c \in Contents \cup {Absent}
                     PROVE  Stamped(c) \in Version \cup {Absent}
  BY DEF Stamped, TypeOK, Version

LEMMA SigType == ASSUME NEW v \in Version \cup {Absent}
                 PROVE  Sig(v) \in Signature \cup {Absent}
  BY DEF Sig, Version, Signature

LEMMA DataType == ASSUME NEW v \in Version \cup {Absent}
                  PROVE  DataOf(v) \in Contents \cup {Absent}
  BY DEF DataOf, Version

LEMMA NothingType == Nothing \in Tree /\ Nothing \in Hashes /\ Nothing \in Metas
                     /\ Nothing \in [Files -> Planned \cup {Absent}]
  BY DEF Nothing, Tree, Hashes, Metas

LEMMA WriteType == ASSUME NEW t \in Tree, NEW f \in Files, NEW v \in Version \cup {Absent}
                   PROVE  [t EXCEPT ![f] = v] \in Tree /\ [t EXCEPT ![f] = v] # NoDir
<1>1. [t EXCEPT ![f] = v] \in Tree
  BY DEF Tree
<1>2. QED
  BY <1>1

\* What is planned for a file is some contents, merged or not.
LEMMA MergedType ==
  ASSUME TypeOK, NEW f \in Files, dir # NoDir, dir[f] # Absent
  PROVE  /\ dir[f].data \in Contents
         /\ MergeOutcomes(MergeArgs(f)[1], MergeArgs(f)[2], MergeArgs(f)[3]) \subseteq Contents
<1>1. dir[f].data \in Contents
  BY DEF TypeOK, Tree, Version
<1>2. \A o \in Contents, g \in Contents, t \in Contents :
        MergeOutcomes(o, g, t) \subseteq Contents
  BY DEF MergeOutcomes
<1>3. \A c \in Contents \cup {Absent} : OrEmpty(c) \in Contents
  BY DEF OrEmpty
<1>4. DataOf(real[f]) \in Contents \cup {Absent}
  BY DataType DEF TypeOK, Tree
<1>5. QED
  BY <1>1, <1>2, <1>3, <1>4 DEF MergeArgs

LEMMA NoSavepointsType == <<>> \in Seq(Savepoint)
  OBVIOUS

\* A savepoint stack survives a push and a pop.
LEMMA PushType == ASSUME NEW s \in Seq(Savepoint), NEW e \in Savepoint
                  PROVE  Append(s, e) \in Seq(Savepoint)
  OBVIOUS

LEMMA PopType == ASSUME NEW s \in Seq(Savepoint), s # <<>>
                 PROVE  /\ Front(s) \in Seq(Savepoint)
                        /\ Last(s) \in Savepoint
                        /\ Last(s) = s[Len(s)]
                        /\ Len(Front(s)) = Len(s) - 1
                        /\ \A i \in 1..Len(Front(s)) : Front(s)[i] = s[i]
<1>1. Len(s) \in Nat /\ Len(s) # 0 /\ \A i \in 1..Len(s) : s[i] \in Savepoint
  OBVIOUS
<1>2. \A i \in 1..(Len(s) - 1) : s[i] \in Savepoint
  BY <1>1
<1>3. /\ SubSeq(s, 1, Len(s) - 1) \in Seq(Savepoint)
      /\ Len(SubSeq(s, 1, Len(s) - 1)) = Len(s) - 1
      /\ \A i \in 1..(Len(s) - 1) : SubSeq(s, 1, Len(s) - 1)[i] = s[i]
  <2> DEFINE n == Len(s) - 1
  <2>1. n \in Int /\ 1 \in Int /\ n >= 0
    BY <1>1
  <2>2. /\ SubSeq(s, 1, n) \in Seq(Savepoint)
        /\ Len(SubSeq(s, 1, n)) = IF 1 <= n THEN n - 1 + 1 ELSE 0
        /\ \A i \in 1..(n - 1 + 1) : SubSeq(s, 1, n)[i] = s[1 + i - 1]
    BY <1>2, <2>1, SubSeqProperties
  <2>3. n - 1 + 1 = n /\ (IF 1 <= n THEN n - 1 + 1 ELSE 0) = n
    <3>1. \A k \in Int : k >= 0 => k - 1 + 1 = k /\ (IF 1 <= k THEN k - 1 + 1 ELSE 0) = k
      OBVIOUS
    <3>2. QED
      BY <2>1, <3>1
  <2>4. \A i \in 1..n : SubSeq(s, 1, n)[i] = s[i]
    <3> TAKE i \in 1..n
    <3>1. 1 + i - 1 = i /\ i \in 1..(n - 1 + 1)
      BY <2>1
    <3>2. QED
      BY <2>2, <3>1
  <2>5. QED
    BY <2>2, <2>3, <2>4
<1>4. QED
  BY <1>1, <1>3 DEF Front, Last

-----------------------------------------------------------------------------
(* The inductive invariant                                                 *)

\* Where the transaction is while each call runs.
Control ==
  /\ pc \in {"saving", "savingCommit", "planning", "applying", "cleaning"} =>
       active /\ dir # NoDir
  /\ pc \in {"closed", "cloning", "unlinking"} => ~active
  /\ pc = "cloning" => head = NoHead /\ dir # NoDir
  /\ ~active => saves = <<>>
  /\ HeadTracksMemory

\* The hashes h and the signatures m were taken from the copies the agent got.
Honest(h) == \A f \in Files \ crossed : h[f] = DataOf(seen[f])
TrueTo(m) == \A f \in Files : m[f] = Sig(seen[f])

\* So are those of the memory, of every savepoint and of HEAD; a clone is
\* honest about the files it has finished with.
Bases ==
  /\ active => Honest(base) /\ TrueTo(meta)
  /\ \A i \in 1..Len(saves) : Honest(saves[i].base)
  /\ head \notin {NoHead, Torn} => Honest(head.base) /\ TrueTo(head.meta)
  /\ pc = "cloning" =>
       /\ TrueTo(meta)
       /\ \A f \in Files \ crossed :
            IF f \in todo
            THEN seen[f] = Absent \/ DataOf(real[f]) = DataOf(seen[f])
            ELSE base[f] = DataOf(seen[f])

\* What a planned, unmerged copy is about to replace.
Harmless(f) ==
  plan[f].merged \/ Blind(f, real[f]) \/ DataOf(real[f]) = DataOf(seen[f])
Plans ==
  /\ pc \notin {"planning", "applying"} => plan = Nothing
  /\ pc = "planning" => \A f \in todo : plan[f] = Absent
  /\ pc = "applying" => \A f \in todo : plan[f] # Absent
  /\ pc = "planning" =>
       \A f \in Files \ (late \cup crossed) : plan[f] # Absent => Harmless(f)
  /\ NoSilentOverwrite

IInv == TypeOK /\ Control /\ Bases /\ Plans

-----------------------------------------------------------------------------
(* Types                                                                   *)

LEMMA TypeInit == Init => TypeOK
<1> SUFFICES ASSUME Init PROVE TypeOK
  OBVIOUS
<1>1. [data : Payloads, sec : {0}] \subseteq Version
  BY DEF Version
<1>2. real \in Tree
  BY <1>1 DEF Init, Tree
<1>3. saves \in Seq(Savepoint) /\ base \in Hashes /\ meta \in Metas /\ seen \in Tree
      /\ plan \in [Files -> Planned \cup {Absent}]
  BY NothingType, NoSavepointsType DEF Init
<1>4. clock \in 0..MaxSec /\ writes \in 0..MaxWrites
  BY DEF Init
<1>5. QED
  BY <1>2, <1>3, <1>4 DEF Init, TypeOK

USE DEF vars, disk, memory, local, ghosts, Goto

LEMMA TypeStep == TypeOK /\ Control /\ Plans /\ [Next]_vars => TypeOK'
<1> SUFFICES ASSUME TypeOK, Control, Plans, [Next]_vars PROVE TypeOK'
  OBVIOUS
<1> USE DEF TypeOK
<1>1. CASE Tick
  BY <1>1 DEF Tick
<1>2. ASSUME NEW f \in Files, NEW c \in Payloads \cup {Absent}, HumanEdit(f, c)
      PROVE  TypeOK'
  <2>1. Stamped(c) \in Version \cup {Absent}
    BY StampedType
  <2>2. real' \in Tree /\ writes' \in 0..MaxWrites
    BY <1>2, <2>1 DEF HumanEdit, Tree, CountWrite
  <2>3. QED
    BY <1>2, <2>2 DEF HumanEdit
<1>3. ASSUME NEW f \in Files, NEW c \in Payloads \cup {Absent}, ShellWrite(f, c)
      PROVE  TypeOK'
  <2>1. Stamped(c) \in Version \cup {Absent}
    BY StampedType
  <2>2. dir' \in Tree /\ writes' \in 0..MaxWrites
    BY <1>3, <2>1 DEF ShellWrite, Tree, CountWrite
  <2>3. QED
    BY <1>3, <2>2 DEF ShellWrite
<1>4. CASE Crash
  BY <1>4, NothingType, NoSavepointsType DEF Crash, Forget
<1>5. CASE Open
  BY <1>5 DEF Open, Manifests
<1>6. CASE BeginNested
  <2>1. [staged |-> staged, base |-> base] \in Savepoint
    BY DEF Savepoint
  <2>2. saves' \in Seq(Savepoint)
    BY <1>6, <2>1, PushType DEF BeginNested
  <2>3. QED
    BY <1>6, <2>2 DEF BeginNested
<1>7. CASE BeginClone
  BY <1>7, NothingType DEF BeginClone
<1>8. ASSUME NEW f \in Files, CloneCopy(f) PROVE TypeOK'
  <2>1. real[f].data \in Contents /\ dir \in Tree
    BY <1>8 DEF CloneCopy, Control, Tree, Version
  <2>2. /\ Stamped(real[f].data) \in Version \cup {Absent}
        /\ Sig(Stamped(real[f].data)) \in Signature \cup {Absent}
    BY <2>1, StampedType, SigType
  <2>3. dir' \in Tree /\ meta' \in Metas /\ seen' \in Tree
    BY <1>8, <2>1, <2>2 DEF CloneCopy, Tree, Metas
  <2>4. QED
    BY <1>8, <2>3 DEF CloneCopy
<1>9. ASSUME NEW f \in Files, CloneHash(f) PROVE TypeOK'
  <2>1. base' \in Hashes
    BY <1>9, DataType DEF CloneHash, Hashes, Tree
  <2>2. QED
    BY <1>9, <2>1 DEF CloneHash
<1>10. CASE BeginDone
  BY <1>10 DEF BeginDone
<1>11. CASE SaveHead
  BY <1>11 DEF SaveHead, Manifest, Manifests
<1>12. ASSUME NEW f \in Files, NEW c \in Payloads, Stage(f, c) PROVE TypeOK'
  <2>1. Stamped(c) \in Version \cup {Absent}
    BY StampedType
  <2>2. dir' \in Tree /\ writes' \in 0..MaxWrites
    BY <1>12, <2>1 DEF Stage, Tree, CountWrite, Control, HeadTracksMemory
  <2>3. QED
    BY <1>12, <2>2 DEF Stage
<1>13. ASSUME NEW f \in Files, MarkStaged(f) PROVE TypeOK'
  BY <1>13 DEF MarkStaged
<1>14. CASE Diff
  BY <1>14 DEF Diff, Discovered
<1>15. CASE CommitSavepoint
  BY <1>15, PopType DEF CommitSavepoint
<1>16. CASE RollbackSavepoint
  BY <1>16, PopType DEF RollbackSavepoint, Savepoint
<1>17. CASE CommitStart
  BY <1>17 DEF CommitStart, Discovered
<1>18. ASSUME NEW f \in Files, PlanFile(f) PROVE TypeOK'
  <2>1. dir # NoDir
    BY <1>18 DEF PlanFile, Control
  <2>2. dir[f] # Absent =>
          /\ dir[f].data \in Contents
          /\ MergeOutcomes(MergeArgs(f)[1], MergeArgs(f)[2], MergeArgs(f)[3]) \subseteq Contents
    BY <2>1, MergedType
  <2>3. plan' \in [Files -> Planned \cup {Absent}]
    <3>1. CASE PlanCopy(f)
      BY <3>1, <2>2 DEF PlanCopy, Planned
    <3>2. CASE PlanMerge(f)
      BY <3>2, <2>2 DEF PlanMerge, Planned
    <3>3. QED
      BY <1>18, <3>1, <3>2 DEF PlanFile
  <2>4. QED
    BY <1>18, <2>3 DEF PlanFile
<1>19. ASSUME NEW f \in Files, PlanConflict(f) PROVE TypeOK'
  BY <1>19, NothingType DEF PlanConflict
<1>20. CASE ApplyStart
  BY <1>20 DEF ApplyStart
<1>21. ASSUME NEW f \in Files, ApplyFile(f) PROVE TypeOK'
  <2>1. plan[f].data \in Contents
    BY <1>21 DEF ApplyFile, Plans, Planned
  <2>2. Stamped(plan[f].data) \in Version \cup {Absent}
    BY <2>1, StampedType
  <2>3. real' \in Tree
    BY <1>21, <2>2 DEF ApplyFile, Tree
  <2>4. QED
    BY <1>21, <2>3 DEF ApplyFile
<1>22. CASE ApplyFail
  BY <1>22, NothingType DEF ApplyFail
<1>23. CASE ApplyDone
  BY <1>23, NothingType DEF ApplyDone
<1>24. CASE RollbackAll
  BY <1>24 DEF RollbackAll
<1>25. ASSUME NEW f \in Files, CleanFile(f) PROVE TypeOK'
  <2>1. dir' \in Tree
    BY <1>25 DEF CleanFile, Control, Tree
  <2>2. QED
    BY <1>25, <2>1 DEF CleanFile
<1>26. CASE CleanDone
  BY <1>26, NothingType, NoSavepointsType DEF CleanDone
<1>27. CASE UnlinkHead
  BY <1>27 DEF UnlinkHead
<1>28. CASE UNCHANGED vars
  BY <1>28
<1>29. QED
  BY <1>1, <1>2, <1>3, <1>4, <1>5, <1>6, <1>7, <1>8, <1>9, <1>10, <1>11, <1>12,
     <1>13, <1>14, <1>15, <1>16, <1>17, <1>18, <1>19, <1>20, <1>21, <1>22, <1>23,
     <1>24, <1>25, <1>26, <1>27, <1>28 DEF Next, Calls, Others

-----------------------------------------------------------------------------
(* HEAD and memory                                                         *)

LEMMA ControlInit == Init => Control
  BY DEF Init, Control, HeadTracksMemory

LEMMA ControlStep == TypeOK /\ Control /\ [Next]_vars => Control'
<1> SUFFICES ASSUME TypeOK, Control, [Next]_vars PROVE Control'
  OBVIOUS
<1> USE DEF Control, HeadTracksMemory, Manifest
<1>0. Nothing # NoDir
  BY NothingType
<1>1. CASE Tick
  BY <1>1 DEF Tick
<1>2. ASSUME NEW f \in Files, NEW c \in Payloads \cup {Absent},
             HumanEdit(f, c) \/ ShellWrite(f, c)
      PROVE  Control'
  <2>1. CASE HumanEdit(f, c)
    BY <2>1 DEF HumanEdit
  <2>2. CASE ShellWrite(f, c)
    <3>1. dir' # NoDir
      BY <2>2, WriteType, StampedType DEF ShellWrite, TypeOK
    <3>2. QED
      BY <2>2, <3>1 DEF ShellWrite
  <2>3. QED
    BY <1>2, <2>1, <2>2
<1>3. CASE Crash
  BY <1>3 DEF Crash, Forget
<1>4. CASE Open
  <2>1. CASE head \in {NoHead, Torn} \/ dir = NoDir
    BY <1>4, <2>1 DEF Open
  <2>2. CASE ~(head \in {NoHead, Torn} \/ dir = NoDir)
    <3>1. head = [staged |-> head.staged, base |-> head.base, meta |-> head.meta]
      BY <2>2 DEF TypeOK, Manifests
    <3>2. QED
      BY <1>4, <2>2, <3>1 DEF Open
  <2>3. QED
    BY <2>1, <2>2
<1>5. CASE BeginNested \/ CommitSavepoint \/ RollbackSavepoint
  BY <1>5 DEF BeginNested, CommitSavepoint, RollbackSavepoint
<1>6. CASE BeginClone
  BY <1>0, <1>6 DEF BeginClone
<1>7. ASSUME NEW f \in Files, CloneCopy(f) \/ CloneHash(f) PROVE Control'
  <2>1. CASE CloneCopy(f)
    <3>1. real[f].data \in Contents
      BY <2>1 DEF CloneCopy, TypeOK, Tree, Version
    <3>2. dir' # NoDir
      BY <2>1, <3>1, WriteType, StampedType DEF CloneCopy, TypeOK
    <3>3. QED
      BY <2>1, <3>2 DEF CloneCopy
  <2>2. CASE CloneHash(f)
    BY <2>2 DEF CloneHash
  <2>3. QED
    BY <1>7, <2>1, <2>2
<1>8. CASE BeginDone \/ SaveHead
  BY <1>8 DEF BeginDone, SaveHead, TypeOK
<1>9. ASSUME NEW f \in Files, NEW c \in Payloads, Stage(f, c) PROVE Control'
  <2>1. dir' # NoDir
    BY <1>9, WriteType, StampedType DEF Stage, TypeOK
  <2>2. QED
    BY <1>9, <2>1 DEF Stage
<1>10. ASSUME NEW f \in Files, MarkStaged(f) PROVE Control'
  BY <1>10 DEF MarkStaged
<1>11. CASE Diff \/ CommitStart \/ RollbackAll
  BY <1>11 DEF Diff, CommitStart, RollbackAll
<1>12. ASSUME NEW f \in Files, PlanFile(f) \/ PlanConflict(f) \/ ApplyFile(f)
       PROVE  Control'
  BY <1>12 DEF PlanFile, PlanConflict, ApplyFile
<1>13. CASE ApplyStart \/ ApplyFail \/ ApplyDone
  BY <1>13 DEF ApplyStart, ApplyFail, ApplyDone
<1>14. ASSUME NEW f \in Files, CleanFile(f) PROVE Control'
  <2>1. dir' # NoDir
    BY <1>14 DEF CleanFile, TypeOK, Tree
  <2>2. QED
    BY <1>14, <2>1 DEF CleanFile
<1>15. CASE CleanDone \/ UnlinkHead
  BY <1>15 DEF CleanDone, UnlinkHead
<1>16. CASE UNCHANGED vars
  BY <1>16
<1>17. QED
  BY <1>1, <1>2, <1>3, <1>4, <1>5, <1>6, <1>7, <1>8, <1>9, <1>10, <1>11, <1>12,
     <1>13, <1>14, <1>15, <1>16 DEF Next, Calls, Others

-----------------------------------------------------------------------------
(* Hashes and signatures are those of what the agent was given             *)

LEMMA SigAbsent == ASSUME NEW v \in Version \cup {Absent}
                   PROVE  Sig(v) = Absent <=> v = Absent
  BY DEF Sig, Version, Signature

LEMMA StampedData == ASSUME NEW c \in Contents, clock \in 0..MaxSec
                     PROVE  Stamped(c) # Absent /\ DataOf(Stamped(c)) = c
  BY DEF Stamped, DataOf, Version

LEMMA BasesInit == Init => Bases
  BY DEF Init, Bases

\* A step that touches none of the variables involved keeps Bases.
LEMMA BasesFrame ==
  ASSUME Bases, UNCHANGED <<active, base, meta, saves, head, seen, crossed>>, pc' # "cloning"
  PROVE  Bases'
  BY DEF Bases, Honest, TrueTo, Sig, DataOf

LEMMA BasesStep == TypeOK /\ Control /\ Bases /\ [Next]_vars => Bases'
<1> SUFFICES ASSUME TypeOK, Control, Bases, [Next]_vars PROVE Bases'
  OBVIOUS
<1> USE DEF Bases, Honest, TrueTo
<1>1. CASE Tick
  BY <1>1 DEF Tick, Sig
<1>2. ASSUME NEW f \in Files, NEW c \in Payloads \cup {Absent}, HumanEdit(f, c)
      PROVE  Bases'
  <2>1. CASE pc = "cloning"
    <3>1. crossed \subseteq crossed'
      BY <1>2 DEF HumanEdit
    <3>2. f \in todo \ crossed' => seen[f] = Absent
      <4>1. f \in todo \ crossed' => Sig(seen[f]) = Absent
        BY <1>2, <2>1 DEF HumanEdit, Copied
      <4>2. seen[f] \in Version \cup {Absent}
        BY DEF TypeOK, Tree
      <4>3. QED
        BY <4>1, <4>2, SigAbsent
    <3>3. \A g \in Files \ {f} : real'[g] = real[g]
      BY <1>2 DEF HumanEdit, TypeOK, Tree
    <3>4. QED
      BY <1>2, <2>1, <3>1, <3>2, <3>3 DEF HumanEdit, Sig, DataOf
  <2>2. CASE pc # "cloning"
    BY <1>2, <2>2 DEF HumanEdit, Sig, DataOf
  <2>3. QED
    BY <2>1, <2>2
<1>3. ASSUME NEW f \in Files, NEW c \in Payloads \cup {Absent}, ShellWrite(f, c)
      PROVE  Bases'
  BY <1>3 DEF ShellWrite, Sig, DataOf
<1>4. CASE Crash
  BY <1>4 DEF Crash, Forget, Sig, DataOf
<1>5. CASE Open
  BY <1>5 DEF Open, Sig, DataOf, Control
<1>6. CASE BeginNested
  <2>1. \A i \in 1..Len(saves') :
          saves'[i].base = IF i = Len(saves) + 1 THEN base ELSE saves[i].base
    BY <1>6 DEF BeginNested, TypeOK
  <2>2. Len(saves') = Len(saves) + 1 /\ Len(saves) \in Nat
    BY <1>6 DEF BeginNested, TypeOK
  <2>3. QED
    BY <1>6, <2>1, <2>2 DEF BeginNested, Sig, DataOf, Control
<1>7. CASE BeginClone
  <2>1. head' = NoHead /\ Len(saves') = 0 /\ ~active'
    BY <1>7 DEF BeginClone, Control, HeadTracksMemory
  <2>2. QED
    BY <1>7, <2>1 DEF BeginClone, Nothing, Sig
<1>8. ASSUME NEW f \in Files, CloneCopy(f) PROVE Bases'
  <2>1. head' = NoHead /\ Len(saves') = 0 /\ ~active' /\ pc = "cloning" /\ pc' = "cloning"
    BY <1>8 DEF CloneCopy, Control
  <2>2. real[f].data \in Contents /\ DataOf(real[f]) = real[f].data
    BY <1>8 DEF CloneCopy, TypeOK, Tree, Version, DataOf
  <2>3. seen'[f] = Stamped(real[f].data) /\ meta'[f] = Sig(Stamped(real[f].data))
    BY <1>8 DEF CloneCopy, TypeOK, Tree, Metas
  <2>4. \A g \in Files \ {f} : seen'[g] = seen[g] /\ meta'[g] = meta[g]
    BY <1>8 DEF CloneCopy, TypeOK, Tree, Metas
  <2>5. DataOf(seen'[f]) = DataOf(real[f])
    BY <2>2, <2>3, StampedData DEF TypeOK
  <2>6. \A g \in Files : meta'[g] = Sig(seen'[g])
    BY <2>1, <2>3, <2>4
  <2>7. f \in todo /\ UNCHANGED <<todo, real, base, crossed>>
    BY <1>8 DEF CloneCopy
  <2>8. \A g \in Files \ {f} : DataOf(seen'[g]) = DataOf(seen[g])
    BY <2>4
  <2>9. \A g \in Files \ crossed' :
          IF g \in todo'
          THEN seen'[g] = Absent \/ DataOf(real'[g]) = DataOf(seen'[g])
          ELSE base'[g] = DataOf(seen'[g])
    <3> TAKE g \in Files \ crossed'
    <3>1. CASE g = f
      BY <2>5, <2>7, <3>1
    <3>2. CASE g # f
      BY <2>1, <2>4, <2>7, <2>8, <3>2
    <3>3. QED
      BY <3>1, <3>2
  <2>10. QED
    BY <2>1, <2>6, <2>9
<1>9. ASSUME NEW f \in Files, CloneHash(f) PROVE Bases'
  <2>1. head' = NoHead /\ Len(saves') = 0 /\ ~active' /\ pc = "cloning" /\ pc' = "cloning"
    BY <1>9 DEF CloneHash, Control
  <2>2. f \notin crossed => DataOf(real[f]) = DataOf(seen[f])
    <3>1. seen[f] \in Version \cup {Absent}
      BY DEF TypeOK, Tree
    <3>2. CASE Copied(f)
      <4>1. seen[f] # Absent
        BY <2>1, <3>1, <3>2, SigAbsent DEF Copied
      <4>2. QED
        BY <1>9, <2>1, <4>1 DEF CloneHash
    <3>3. CASE real[f] = Absent /\ ~Copied(f)
      <4>1. seen[f] = Absent
        BY <1>9, <2>1, <3>1, <3>3, SigAbsent DEF Copied, CloneHash
      <4>2. QED
        BY <3>3, <4>1
    <3>4. QED
      BY <1>9, <3>2, <3>3 DEF CloneHash
  <2>3. base'[f] = DataOf(real[f]) /\ \A g \in Files \ {f} : base'[g] = base[g]
    BY <1>9 DEF CloneHash, TypeOK, Hashes
  <2>4. QED
    BY <1>9, <2>1, <2>2, <2>3 DEF CloneHash, Sig, DataOf
<1>10. CASE BeginDone
  BY <1>10 DEF BeginDone, Control, Sig, DataOf
<1>11. CASE SaveHead
  BY <1>11 DEF SaveHead, Manifest, Control, Sig, DataOf
<1>12. ASSUME NEW f \in Files, MarkStaged(f) \/ \E c \in Payloads : Stage(f, c)
       PROVE  Bases'
  BY <1>12, BasesFrame DEF Stage, MarkStaged
<1>13. CASE Diff \/ CommitStart \/ RollbackAll \/ ApplyStart \/ ApplyFail \/ ApplyDone
  BY <1>13, BasesFrame DEF Diff, CommitStart, RollbackAll, ApplyStart, ApplyFail, ApplyDone
<1>14. CASE CommitSavepoint \/ RollbackSavepoint
  <2>1. /\ Len(saves') = Len(saves) - 1 /\ Len(saves) \in Nat
        /\ \A i \in 1..Len(saves') : saves'[i] = saves[i]
        /\ Last(saves) = saves[Len(saves)] /\ Len(saves) # 0
    BY <1>14, PopType DEF CommitSavepoint, RollbackSavepoint, TypeOK
  <2>2. Honest(Last(saves).base)
    BY <2>1
  <2>3. /\ \A i \in 1..Len(saves') : Honest(saves'[i].base)
        /\ pc' # "cloning" /\ active' = active /\ active
        /\ UNCHANGED <<meta, head, seen, crossed>>
        /\ base' = base \/ base' = Last(saves).base
    BY <1>14, <2>1 DEF CommitSavepoint, RollbackSavepoint
  <2>4. QED
    BY <2>2, <2>3 DEF Sig, DataOf
<1>15. ASSUME NEW f \in Files,
              PlanFile(f) \/ PlanConflict(f) \/ ApplyFile(f) \/ CleanFile(f)
       PROVE  Bases'
  BY <1>15, BasesFrame DEF PlanFile, PlanConflict, ApplyFile, CleanFile
<1>16. CASE CleanDone \/ UnlinkHead
  <2>1. ~active' /\ Len(saves') = 0 /\ pc' # "cloning" /\ UNCHANGED <<seen, crossed>>
    BY <1>16 DEF CleanDone, UnlinkHead, Control
  <2>2. head' = head \/ head' = NoHead
    BY <1>16 DEF CleanDone, UnlinkHead
  <2>3. QED
    BY <2>1, <2>2 DEF Sig, DataOf
<1>17. CASE UNCHANGED vars
  BY <1>17 DEF Sig, DataOf
<1>18. QED
  BY <1>1, <1>2, <1>3, <1>4, <1>5, <1>6, <1>7, <1>8, <1>9, <1>10, <1>11, <1>12,
     <1>13, <1>14, <1>15, <1>16, <1>17 DEF Next, Calls, Others

-----------------------------------------------------------------------------
(* What a commit is about to write                                         *)

LEMMA PlansInit == Init => Plans
  BY DEF Init, Plans, NoSilentOverwrite

\* A step that leaves the plan alone and keeps the call out of the commit.
LEMMA PlansFrame ==
  ASSUME Plans, UNCHANGED plan, {pc, pc'} \cap {"planning", "applying"} = {}
  PROVE  Plans'
  BY DEF Plans, NoSilentOverwrite

\* A planned copy passed the conflict test, so it is harmless.
LEMMA PlanCopyHarmless ==
  ASSUME TypeOK, NEW f \in Files, ~Conflict(f),
         base[f] = DataOf(seen[f]), meta[f] = Sig(seen[f])
  PROVE  Blind(f, real[f]) \/ DataOf(real[f]) = DataOf(seen[f])
<1>1. seen[f] \in Version \cup {Absent} /\ real[f] \in Version \cup {Absent}
  BY DEF TypeOK, Tree
<1>2. CASE base[f] = Absent
  BY <1>2 DEF Conflict, DataOf
<1>3. CASE base[f] # Absent /\ DataOf(real[f]) = base[f]
  BY <1>3
<1>4. CASE base[f] # Absent /\ meta[f] # Absent /\ Sig(real[f]) = meta[f]
  BY <1>1, <1>4, SigAbsent DEF Blind
<1>5. QED
  BY <1>2, <1>3, <1>4 DEF Conflict

LEMMA PlansStep == TypeOK /\ Control /\ Bases /\ Plans /\ [Next]_vars => Plans'
<1> SUFFICES ASSUME TypeOK, Control, Bases, Plans, [Next]_vars PROVE Plans'
  OBVIOUS
<1> USE DEF Plans, NoSilentOverwrite, Harmless
<1>1. CASE Tick
  BY <1>1 DEF Tick, Blind, Sig, DataOf
<1>2. ASSUME NEW f \in Files, NEW c \in Payloads \cup {Absent}, HumanEdit(f, c)
      PROVE  Plans'
  <2>1. \A g \in Files \ {f} : real'[g] = real[g]
    BY <1>2 DEF HumanEdit, TypeOK, Tree
  <2>2. late \subseteq late' /\ crossed \subseteq crossed' /\ UNCHANGED <<pc, todo, plan, seen>>
    BY <1>2 DEF HumanEdit
  <2>3. CASE pc = "planning"
    <3>1. f \in late' \/ plan[f] = Absent
      BY <1>2, <2>3 DEF HumanEdit
    <3>2. QED
      BY <2>1, <2>2, <2>3, <3>1 DEF Blind, Sig, DataOf
  <2>4. CASE pc = "applying"
    <3>1. f \in late' \/ f \notin todo
      BY <1>2, <2>4 DEF HumanEdit
    <3>2. todo \subseteq Files
      BY DEF TypeOK
    <3>3. QED
      BY <2>1, <2>2, <2>4, <3>1, <3>2 DEF Blind, Sig, DataOf
  <2>5. QED
    BY <2>2, <2>3, <2>4
<1>3. ASSUME NEW f \in Files, NEW c \in Payloads \cup {Absent}, ShellWrite(f, c)
      PROVE  Plans'
  BY <1>3 DEF ShellWrite, Blind, Sig, DataOf
<1>4. CASE Crash
  BY <1>4 DEF Crash, Forget, Nothing
<1>5. CASE Open \/ BeginNested \/ BeginClone \/ BeginDone \/ Diff
  BY <1>5, PlansFrame DEF Open, BeginNested, BeginClone, BeginDone, Diff
<1>6. CASE CommitSavepoint \/ RollbackSavepoint \/ CommitStart \/ RollbackAll
  BY <1>6, PlansFrame DEF CommitSavepoint, RollbackSavepoint, CommitStart, RollbackAll
<1>7. CASE CleanDone \/ UnlinkHead
  BY <1>7, PlansFrame DEF CleanDone, UnlinkHead
<1>8. ASSUME NEW f \in Files, CloneCopy(f) \/ CloneHash(f) \/ MarkStaged(f) \/ CleanFile(f)
      PROVE  Plans'
  BY <1>8, PlansFrame DEF CloneCopy, CloneHash, MarkStaged, CleanFile
<1>9. ASSUME NEW f \in Files, NEW c \in Payloads, Stage(f, c) PROVE Plans'
  BY <1>9, PlansFrame DEF Stage
<1>10. CASE SaveHead
  BY <1>10 DEF SaveHead, Nothing, TypeOK
<1>11. ASSUME NEW f \in Files, PlanFile(f) PROVE Plans'
  <2>1. /\ pc = "planning" /\ pc' = "planning" /\ todo' = todo \ {f}
        /\ UNCHANGED <<real, seen, late, crossed>>
    BY <1>11 DEF PlanFile
  <2>2. \A g \in Files \ {f} : plan'[g] = plan[g]
    BY <1>11 DEF PlanFile, PlanCopy, PlanMerge, TypeOK
  <2>3. f \notin crossed => plan'[f] = Absent \/ plan'[f].merged
                           \/ Blind(f, real[f]) \/ DataOf(real[f]) = DataOf(seen[f])
    <3>1. CASE PlanCopy(f)
      BY <2>1, <3>1, PlanCopyHarmless DEF PlanCopy, Control, Bases, Honest, TrueTo
    <3>2. CASE PlanMerge(f)
      BY <3>2 DEF PlanMerge, TypeOK
    <3>3. CASE plan' = plan
      BY <1>11, <3>3 DEF PlanFile
    <3>4. QED
      BY <1>11, <3>1, <3>2, <3>3 DEF PlanFile
  <2>4. \A g \in todo' : g \in Files \ {f} /\ plan'[g] = Absent
    BY <2>1, <2>2 DEF TypeOK
  <2>5. \A g \in Files : Blind(g, real[g])' = Blind(g, real[g])
    BY <2>1 DEF Blind, Sig
  <2>6. \A g \in Files \ (late' \cup crossed') : plan'[g] # Absent => Harmless(g)'
    <3> TAKE g \in Files \ (late' \cup crossed')
    <3>1. CASE g = f
      BY <2>1, <2>3, <2>5, <3>1
    <3>2. CASE g # f
      BY <2>1, <2>2, <2>5, <3>2
    <3>3. QED
      BY <3>1, <3>2
  <2>7. QED
    BY <2>1, <2>4, <2>6
<1>12. ASSUME NEW f \in Files, PlanConflict(f) PROVE Plans'
  BY <1>12 DEF PlanConflict
<1>13. CASE ApplyStart
  BY <1>13 DEF ApplyStart, Blind, Sig, DataOf
<1>14. ASSUME NEW f \in Files, ApplyFile(f) PROVE Plans'
  <2>1. \A g \in Files \ {f} : real'[g] = real[g]
    BY <1>14 DEF ApplyFile, TypeOK, Tree
  <2>2. todo \subseteq Files
    BY DEF TypeOK
  <2>3. QED
    BY <1>14, <2>1, <2>2 DEF ApplyFile, Blind, Sig, DataOf
<1>15. CASE ApplyFail \/ ApplyDone
  BY <1>15 DEF ApplyFail, ApplyDone
<1>16. CASE UNCHANGED vars
  BY <1>16 DEF Blind, Sig, DataOf
<1>17. QED
  BY <1>1, <1>2, <1>3, <1>4, <1>5, <1>6, <1>7, <1>8, <1>9, <1>10, <1>11, <1>12,
     <1>13, <1>14, <1>15, <1>16 DEF Next, Calls, Others

-----------------------------------------------------------------------------
LEMMA Inductive == Spec => []IInv
<1>1. Init => IInv
  BY TypeInit, ControlInit, BasesInit, PlansInit DEF IInv
<1>2. IInv /\ [Next]_vars => IInv'
  BY TypeStep, ControlStep, BasesStep, PlansStep DEF IInv
<1>3. QED
  BY <1>1, <1>2, PTL DEF Spec

\* Every variable of the store keeps its type.
THEOREM TypeCorrect == Spec => []TypeOK
<1>1. IInv => TypeOK
  BY DEF IInv
<1>2. QED
  BY <1>1, Inductive, PTL

\* Between calls, and throughout the planning and the writing of a commit, HEAD
\* is the transaction in memory and its directory exists, whenever processes die.
THEOREM HeadIsMemory == Spec => []HeadTracksMemory
<1>1. IInv => HeadTracksMemory
  BY DEF IInv, Control
<1>2. QED
  BY <1>1, Inductive, PTL

\* A commit replaces a workspace file without merging only if the file still
\* holds what the agent's copy was made from, outside the code's two windows and
\* its blind spot, after any number of savepoints, crashes and recoveries.
THEOREM NoLostUpdate == Spec => []NoSilentOverwrite
<1>1. IInv => NoSilentOverwrite
  BY DEF IInv, Plans
<1>2. QED
  BY <1>1, Inductive, PTL

\* Both together: what a call finds when it starts, and a process that opens anew.
THEOREM StoreIsSound == Spec => []StoreSound
  BY TypeCorrect, HeadIsMemory, PTL DEF StoreSound

-----------------------------------------------------------------------------
(* A commit carries the agent's work                                       *)

\* What a commit is to carry is staged by the time it saves HEAD, and planned once
\* the loop has passed it.
Carries ==
  /\ pc \in {"savingCommit", "planning", "applying"} =>
       \A f \in Files \ late : dir[f] # Absent /\ Noticeable(f) => f \in staged
  /\ pc \in {"planning", "applying"} =>
       /\ acked = staged
       /\ \A f \in Files \ late :
            dir[f] # Absent /\ f \in staged /\ (pc = "planning" => f \notin todo) => plan[f] # Absent

\* A step outside the commit, or into one of its later phases.
LEMMA CarriesFrame ==
  ASSUME Carries, pc' \notin {"savingCommit", "planning", "applying"}
  PROVE  Carries'
  BY DEF Carries

\* What a shell command changed outside the blind spot is discovered.
LEMMA NoticeableDiscovered ==
  ASSUME TypeOK, Bases, active, dir # NoDir,
         NEW f \in Files, dir[f] # Absent, Noticeable(f)
  PROVE  f \in Discovered
<1>1. dir[f] \in Version /\ dir[f].data \in Contents /\ DataOf(dir[f]) = dir[f].data
  BY DEF TypeOK, Tree, Version, DataOf
<1>2. seen[f] \in Version \cup {Absent} /\ meta[f] = Sig(seen[f]) /\ base[f] = DataOf(seen[f])
  BY DEF TypeOK, Tree, Bases, Honest, TrueTo, Noticeable
<1>3. meta[f] = Absent \/ Sig(dir[f]) # meta[f]
  BY <1>2, SigAbsent DEF Noticeable, Blind
<1>4. CASE base[f] # Absent
  BY <1>1, <1>2, <1>3, <1>4 DEF Discovered, Unlike, Noticeable
<1>5. CASE base[f] = Absent
  <2>1. seen[f] = Absent
    BY <1>2, <1>5 DEF DataOf, Version
  <2>2. ASSUME NEW g \in Files, NameOf[g] = NameOf[f] PROVE base[g] # dir[f].data
    <3>1. g \notin crossed /\ DataOf(seen[g]) # DataOf(dir[f])
      BY <2>1, <2>2 DEF Noticeable
    <3>2. QED
      BY <1>1, <3>1 DEF Bases, Honest
  <2>3. QED
    BY <1>3, <1>5, <2>2 DEF Discovered, Unlike
<1>6. QED
  BY <1>4, <1>5

LEMMA CarriesStep == TypeOK /\ Control /\ Bases /\ Carries /\ [Next]_vars => Carries'
<1> SUFFICES ASSUME TypeOK, Control, Bases, Carries, [Next]_vars PROVE Carries'
  OBVIOUS
<1> USE DEF Carries, Noticeable, Blind
<1>1. CASE Tick
  BY <1>1 DEF Tick, Sig, DataOf
<1>2. ASSUME NEW f \in Files, NEW c \in Payloads \cup {Absent}, HumanEdit(f, c)
      PROVE  Carries'
  <2>1. CASE pc \in {"savingCommit", "planning", "applying"}
    <3>1. /\ late \subseteq late' /\ crossed' = crossed
          /\ UNCHANGED <<pc, dir, seen, staged, acked, plan, todo>>
      BY <1>2, <2>1 DEF HumanEdit
    <3>2. QED
      BY <3>1 DEF Sig, DataOf
  <2>2. CASE pc \notin {"savingCommit", "planning", "applying"}
    BY <1>2, <2>2 DEF HumanEdit
  <2>3. QED
    BY <2>1, <2>2
<1>3. ASSUME NEW f \in Files, NEW c \in Payloads \cup {Absent}, ShellWrite(f, c)
      PROVE  Carries'
  <2>1. \A g \in Files \ {f} : dir'[g] = dir[g]
    BY <1>3 DEF ShellWrite, TypeOK, Tree
  <2>2. UNCHANGED <<pc, seen, crossed, staged, acked, plan, todo>>
    BY <1>3 DEF ShellWrite
  <2>3. CASE pc \in {"savingCommit", "planning", "applying"}
    <3>1. late' = late \cup {f}
      BY <1>3, <2>3 DEF ShellWrite
    <3>2. QED
      BY <2>1, <2>2, <3>1 DEF Sig, DataOf
  <2>4. QED
    BY <2>2, <2>3
<1>4. CASE Crash
  BY <1>4 DEF Crash, Forget
<1>5. CASE Open \/ BeginNested \/ BeginClone \/ BeginDone \/ Diff
  BY <1>5 DEF Open, BeginNested, BeginClone, BeginDone, Diff
<1>6. CASE CommitSavepoint \/ RollbackSavepoint \/ RollbackAll \/ CleanDone \/ UnlinkHead
  BY <1>6 DEF CommitSavepoint, RollbackSavepoint, RollbackAll, CleanDone, UnlinkHead
<1>7. CASE CommitStart
  <2>1. /\ pc' = "savingCommit" /\ active /\ dir # NoDir
        /\ staged' = staged \cup Discovered
        /\ UNCHANGED <<dir, seen, crossed, late>>
    BY <1>7 DEF CommitStart, Control, HeadTracksMemory
  <2>2. \A f \in Files : dir[f] # Absent /\ Noticeable(f) => f \in Discovered
    BY <2>1, NoticeableDiscovered
  <2>3. \A f \in Files : Noticeable(f)' => Noticeable(f)
    BY <2>1 DEF Sig, DataOf
  <2> HIDE DEF Noticeable
  <2>4. QED
    BY <2>1, <2>2, <2>3
<1>8. CASE SaveHead
  <2>1. CASE pc = "saving"
    BY <1>8, <2>1 DEF SaveHead
  <2>2. CASE pc = "savingCommit"
    BY <1>8, <2>2 DEF SaveHead, Sig, DataOf
  <2>3. QED
    BY <1>8, <2>1, <2>2 DEF SaveHead
<1>9. ASSUME NEW f \in Files, CloneCopy(f) \/ CloneHash(f) \/ MarkStaged(f) \/ CleanFile(f)
      PROVE  Carries'
  BY <1>9 DEF CloneCopy, CloneHash, MarkStaged, CleanFile
<1>10. ASSUME NEW f \in Files, NEW c \in Payloads, Stage(f, c) PROVE Carries'
  BY <1>10 DEF Stage
<1>11. ASSUME NEW f \in Files, PlanFile(f) PROVE Carries'
  <2>1. /\ pc = "planning" /\ pc' = "planning" /\ todo' = todo \ {f}
        /\ UNCHANGED <<dir, seen, crossed, late, staged, acked>>
    BY <1>11 DEF PlanFile
  <2>2. \A g \in Files \ {f} : plan'[g] = plan[g]
    BY <1>11 DEF PlanFile, PlanCopy, PlanMerge, TypeOK
  <2>3. dir[f] # Absent => plan'[f] # Absent
    <3>1. CASE PlanCopy(f)
      <4>1. plan'[f] = [data |-> dir[f].data, merged |-> FALSE]
        BY <3>1 DEF PlanCopy, TypeOK
      <4>2. dir[f].data \in Contents
        BY <2>1, <3>1 DEF PlanCopy, TypeOK, Tree, Version, Control
      <4>3. plan'[f] \in Planned
        BY <4>1, <4>2 DEF Planned
      <4>4. QED
        BY <4>3
    <3>2. CASE PlanMerge(f)
      <4>1. dir[f] # Absent /\ dir # NoDir
        BY <2>1, <3>2 DEF PlanMerge, Control
      <4>2. PICK c \in Contents : plan' = [plan EXCEPT ![f] = [data |-> c, merged |-> TRUE]]
        BY <3>2, <4>1, MergedType DEF PlanMerge
      <4>3. plan'[f] = [data |-> c, merged |-> TRUE] /\ plan'[f] \in Planned
        BY <4>2 DEF TypeOK, Planned
      <4>4. QED
        BY <4>3
    <3>3. QED
      BY <1>11, <3>1, <3>2 DEF PlanFile
  <2>4. QED
    BY <2>1, <2>2, <2>3 DEF Sig, DataOf
<1>12. ASSUME NEW f \in Files, PlanConflict(f) PROVE Carries'
  BY <1>12 DEF PlanConflict
<1>13. CASE ApplyStart
  BY <1>13 DEF ApplyStart, Sig, DataOf
<1>14. ASSUME NEW f \in Files, ApplyFile(f) PROVE Carries'
  BY <1>14 DEF ApplyFile, Sig, DataOf
<1>15. CASE ApplyFail \/ ApplyDone
  BY <1>15 DEF ApplyFail, ApplyDone
<1>16. CASE UNCHANGED vars
  BY <1>16 DEF Sig, DataOf, vars, disk, memory, local, ghosts
<1>17. QED
  BY <1>1, <1>2, <1>3, <1>4, <1>5, <1>6, <1>7, <1>8, <1>9, <1>10, <1>11, <1>12,
     <1>13, <1>14, <1>15, <1>16 DEF Next, Calls, Others

\* A commit that gets as far as writing carries every file that HEAD recorded as
\* staged and every one that a shell command changed outside the blind spot.
THEOREM WorkIsCarried == Spec => []CommitCarriesWork
<1>1. Init => Carries
  BY DEF Init, Carries
<1>2. IInv /\ Carries /\ [Next]_vars => Carries'
  BY CarriesStep DEF IInv
<1>3. Carries => CommitCarriesWork
  BY DEF Carries, CommitCarriesWork
<1>4. QED
  BY <1>1, <1>2, <1>3, Inductive, PTL DEF Spec

\* A plan that is no merge is the agent's file, unless that changed since.
Copies ==
  \A f \in Files \ late : plan[f] # Absent /\ ~plan[f].merged =>
    dir # NoDir /\ dir[f] # Absent /\ plan[f].data = dir[f].data
\* What was installed as the agent has it is still that, and is planned as that.
InstalledIs(f) ==
  /\ dir # NoDir /\ dir[f] # Absent /\ real[f] # Absent /\ DataOf(real[f]) = DataOf(dir[f])
  /\ plan[f] # Absent => plan[f].data = DataOf(real[f])
HalfDone == Copies /\ \A f \in installed : InstalledIs(f)

LEMMA HalfDoneFrame ==
  ASSUME HalfDone, UNCHANGED <<real, dir, plan, late, installed>> PROVE HalfDone'
  BY DEF HalfDone, Copies, InstalledIs, DataOf

\* No plan is left when no commit runs.
LEMMA NoPlan == ASSUME Plans, pc \notin {"planning", "applying"} PROVE \A f \in Files : plan[f] = Absent
  BY DEF Plans, Nothing

\* Planning a file that was installed gives the same contents: the shadow file is copied, or
\* merged with its equal.
LEMMA PlansTheSame ==
  ASSUME TypeOK, NEW f \in Files, dir # NoDir, dir[f] # Absent, real[f] # Absent,
         DataOf(real[f]) = DataOf(dir[f]), PlanCopy(f) \/ PlanMerge(f)
  PROVE  plan'[f].data = DataOf(real[f])
<1>1. /\ dir[f] \in Version /\ DataOf(dir[f]) = dir[f].data /\ dir[f].data \in Contents
      /\ DataOf(real[f]) = dir[f].data /\ OrEmpty(DataOf(real[f])) = dir[f].data
  BY DEF TypeOK, Tree, Version, DataOf, OrEmpty
<1>2. CASE PlanCopy(f)
  BY <1>1, <1>2 DEF PlanCopy, TypeOK
<1>3. CASE PlanMerge(f)
  <2>1. \A g : \A o \in Contents : MergeOutcomes(o, g, o) = {o}
    BY DEF MergeOutcomes
  <2>2. MergeOutcomes(MergeArgs(f)[1], MergeArgs(f)[2], MergeArgs(f)[3]) = {dir[f].data}
    BY <1>1, <2>1 DEF MergeArgs
  <2>3. plan' = [plan EXCEPT ![f] = [data |-> dir[f].data, merged |-> TRUE]]
    BY <1>3, <2>2 DEF PlanMerge
  <2>4. QED
    BY <1>1, <2>3 DEF TypeOK
<1>4. QED
  BY <1>2, <1>3

LEMMA HalfDoneStep == TypeOK /\ Control /\ Plans /\ HalfDone /\ [Next]_vars => HalfDone'
<1> SUFFICES ASSUME TypeOK, Control, Plans, HalfDone, [Next]_vars PROVE HalfDone'
  OBVIOUS
<1>1. CASE Tick \/ BeginNested \/ BeginDone \/ SaveHead \/ Diff \/ CommitSavepoint \/ RollbackSavepoint
           \/ CommitStart \/ ApplyStart \/ RollbackAll \/ UnlinkHead \/ UNCHANGED vars
  BY <1>1, HalfDoneFrame DEF Tick, BeginNested, BeginDone, SaveHead, Diff, CommitSavepoint, RollbackSavepoint,
     CommitStart, ApplyStart, RollbackAll, UnlinkHead, vars, disk, local, ghosts
<1>2. ASSUME NEW f \in Files, CloneHash(f) \/ MarkStaged(f) PROVE HalfDone'
  BY <1>2, HalfDoneFrame DEF CloneHash, MarkStaged, disk, local, ghosts
\* The plan is forgotten, and the files stay.
<1>3. ASSUME plan' = Nothing, installed' \subseteq installed, UNCHANGED <<real, dir>> PROVE HalfDone'
  BY <1>3 DEF HalfDone, Copies, InstalledIs, Nothing, DataOf, TypeOK
<1>4. CASE Crash \/ ApplyFail \/ ApplyDone
  BY <1>3, <1>4 DEF Crash, Forget, ApplyFail, ApplyDone, disk
<1>5. ASSUME NEW f \in Files, PlanConflict(f) PROVE HalfDone'
  BY <1>3, <1>5 DEF PlanConflict, disk
\* Nothing is planned, and nothing counts as installed.
<1>6. ASSUME plan' = plan, pc \notin {"planning", "applying"}, installed' = {} PROVE HalfDone'
  BY <1>6, NoPlan DEF HalfDone, Copies
<1>7. CASE Open
  <2>1. CASE head \in {NoHead, Torn} \/ dir = NoDir
    BY <1>6, <1>7, <2>1 DEF Open
  <2>2. CASE ~(head \in {NoHead, Torn} \/ dir = NoDir)
    BY <1>7, <2>2, HalfDoneFrame DEF Open
  <2>3. QED
    BY <2>1, <2>2
<1>8. CASE BeginClone \/ CleanDone
  BY <1>6, <1>8 DEF BeginClone, CleanDone
\* A file is written, and no longer counts as installed.
<1>9. ASSUME NEW f \in Files, installed' = installed \ {f}, plan' = plan, dir # NoDir, dir' # NoDir,
             \A g \in Files \ {f} : real'[g] = real[g] /\ dir'[g] = dir[g],
             \/ pc \notin {"planning", "applying"}
             \/ late \subseteq late' /\ (dir'[f] = dir[f] \/ f \in late')
      PROVE  HalfDone'
  <2>1. \A g \in installed' : InstalledIs(g)'
    BY <1>9 DEF HalfDone, InstalledIs, DataOf, TypeOK
  <2>2. Copies'
    BY <1>9, NoPlan DEF HalfDone, Copies
  <2>3. QED
    BY <2>1, <2>2 DEF HalfDone
<1>10. ASSUME NEW f \in Files, NEW c \in Payloads \cup {Absent}, HumanEdit(f, c) PROVE HalfDone'
  <2>1. /\ installed' = installed \ {f} /\ plan' = plan /\ dir' = dir /\ late \subseteq late'
        /\ \A g \in Files \ {f} : real'[g] = real[g]
    BY <1>10 DEF HumanEdit, local, TypeOK, Tree
  <2>2. CASE dir = NoDir
    <3>1. installed' = {} /\ pc \notin {"planning", "applying"}
      BY <2>1, <2>2 DEF HalfDone, InstalledIs, Control
    <3>2. QED
      BY <1>6, <2>1, <3>1
  <2>3. CASE dir # NoDir
    BY <1>9, <2>1, <2>3
  <2>4. QED
    BY <2>2, <2>3
<1>11. ASSUME NEW f \in Files, NEW c \in Payloads \cup {Absent}, ShellWrite(f, c) PROVE HalfDone'
  <2>1. /\ installed' = installed \ {f} /\ plan' = plan /\ dir # NoDir /\ real' = real
        /\ dir' = [dir EXCEPT ![f] = Stamped(c)] /\ late \subseteq late'
        /\ pc \in {"planning", "applying"} => f \in late'
    BY <1>11 DEF ShellWrite, local
  <2>2. dir' # NoDir /\ \A g \in Files \ {f} : dir'[g] = dir[g]
    BY <2>1, StampedType, WriteType DEF TypeOK, Tree
  <2>3. QED
    BY <1>9, <2>1, <2>2
<1>12. ASSUME NEW f \in Files, NEW c \in Payloads, Stage(f, c) PROVE HalfDone'
  <2>1. /\ installed' = installed \ {f} /\ plan' = plan /\ dir # NoDir /\ real' = real /\ pc = "idle"
        /\ dir' = [dir EXCEPT ![f] = Stamped(c)]
    BY <1>12 DEF Stage, Control, HeadTracksMemory
  <2>2. dir' # NoDir /\ \A g \in Files \ {f} : dir'[g] = dir[g]
    BY <2>1, StampedType, WriteType DEF TypeOK, Tree
  <2>3. QED
    BY <1>9, <2>1, <2>2
<1>13. ASSUME NEW f \in Files, CleanFile(f) PROVE HalfDone'
  <2>1. /\ installed' = installed \ {f} /\ plan' = plan /\ dir # NoDir /\ real' = real /\ pc = "cleaning"
        /\ dir' = [dir EXCEPT ![f] = Absent]
    BY <1>13 DEF CleanFile, Control
  <2>2. dir' # NoDir /\ \A g \in Files \ {f} : dir'[g] = dir[g]
    BY <2>1, WriteType DEF TypeOK, Tree
  <2>3. QED
    BY <1>9, <2>1, <2>2
<1>14. ASSUME NEW f \in Files, CloneCopy(f) PROVE HalfDone'
  <2>1. pc = "cloning" /\ plan' = plan /\ installed' = installed /\ real' = real /\ dir # NoDir
        /\ dir' = [dir EXCEPT ![f] = Stamped(real[f].data)] /\ real[f] # Absent
    BY <1>14 DEF CloneCopy, Control
  <2>2. real[f].data \in Contents
    BY <2>1 DEF TypeOK, Tree, Version
  <2>3. dir' # NoDir /\ dir'[f] = Stamped(real[f].data) /\ \A g \in Files \ {f} : dir'[g] = dir[g]
    BY <2>1, <2>2, StampedType, WriteType DEF TypeOK, Tree
  <2>4. DataOf(dir'[f]) = DataOf(real[f]) /\ dir'[f] # Absent
    BY <2>1, <2>2, <2>3, StampedData, StampedType DEF TypeOK, DataOf, Stamped, Version
  <2>5. \A g \in installed' : InstalledIs(g)'
    BY <2>1, <2>3, <2>4, NoPlan DEF HalfDone, InstalledIs, TypeOK, DataOf
  <2>6. Copies'
    BY <2>1, NoPlan DEF Copies
  <2>7. QED
    BY <2>5, <2>6 DEF HalfDone
<1>15. ASSUME NEW f \in Files, PlanFile(f) PROVE HalfDone'
  <2>1. UNCHANGED <<real, dir, late, installed>>
    BY <1>15 DEF PlanFile, disk, ghosts
  <2>2. \A g \in Files \ {f} : plan'[g] = plan[g]
    BY <1>15 DEF PlanFile, PlanCopy, PlanMerge, TypeOK
  <2>3. CASE PlanCopy(f) \/ PlanMerge(f)
    <3>1. dir[f] # Absent /\ dir # NoDir
      BY <1>15, <2>3 DEF PlanFile, PlanCopy, PlanMerge, Control
    <3>2. ~plan'[f].merged => plan'[f].data = dir[f].data
      BY <2>3 DEF PlanCopy, PlanMerge, TypeOK
    <3>3. f \in installed => plan'[f].data = DataOf(real[f])
      BY <2>3, <3>1, PlansTheSame DEF HalfDone, InstalledIs
    <3>4. Copies'
      BY <2>1, <2>2, <3>1, <3>2 DEF HalfDone, Copies
    <3>5. \A g \in installed' : InstalledIs(g)'
      BY <2>1, <2>2, <3>3 DEF HalfDone, InstalledIs, DataOf, TypeOK
    <3>6. QED
      BY <3>4, <3>5 DEF HalfDone
  <2>4. CASE plan' = plan
    BY <2>1, <2>4, HalfDoneFrame
  <2>5. QED
    BY <1>15, <2>3, <2>4 DEF PlanFile
<1>16. ASSUME NEW f \in Files, ApplyFile(f) PROVE HalfDone'
  <2>1. /\ pc = "applying" /\ dir # NoDir /\ plan[f] # Absent /\ plan[f].data \in Contents
        /\ UNCHANGED <<dir, plan, late>> /\ real' = [real EXCEPT ![f] = Stamped(plan[f].data)]
        /\ installed' = IF plan[f].merged \/ f \in late THEN installed \ {f} ELSE installed \cup {f}
    BY <1>16 DEF ApplyFile, Control, Plans, TypeOK, Planned
  <2>2. real'[f] = Stamped(plan[f].data) /\ \A g \in Files \ {f} : real'[g] = real[g]
    BY <2>1 DEF TypeOK, Tree
  <2>3. real'[f] # Absent /\ DataOf(real'[f]) = plan[f].data
    BY <2>1, <2>2, StampedData, StampedType DEF TypeOK, DataOf, Stamped, Version
  <2>4. f \in installed' => dir[f] # Absent /\ plan[f].data = dir[f].data
    BY <2>1 DEF HalfDone, Copies
  <2>5. f \in installed' => InstalledIs(f)'
    BY <2>1, <2>3, <2>4 DEF InstalledIs, DataOf
  <2>6. \A g \in installed' \ {f} : InstalledIs(g)'
    BY <2>1, <2>2 DEF HalfDone, InstalledIs, DataOf, TypeOK
  <2>7. Copies'
    BY <2>1 DEF HalfDone, Copies
  <2>8. QED
    BY <2>5, <2>6, <2>7 DEF HalfDone
<1>17. QED
  BY <1>1, <1>2, <1>4, <1>5, <1>7, <1>8, <1>10, <1>11, <1>12, <1>13, <1>14, <1>15, <1>16
  DEF Next, Calls, Others

\* Of a commit that stopped half way, by an error or with its process, what was installed
\* as the agent has it, and nobody wrote since, neither blocks a later attempt nor is
\* changed by it.
THEOREM HalfDoneRetries == Spec => HalfDoneIsRetryable
<1>1. Init => HalfDone
  BY DEF Init, HalfDone, Copies, Nothing
<1>2. IInv /\ HalfDone /\ [Next]_vars => HalfDone'
  BY HalfDoneStep DEF IInv
<1>3. Spec => []HalfDone
  BY <1>1, <1>2, Inductive, PTL DEF Spec
<1>4. ASSUME IInv, HalfDone, NEW f \in installed
      PROVE  ~PlanConflict(f) /\ ~Rewrites(f)
  <2>1. f \in Files /\ InstalledIs(f)
    BY <1>4 DEF IInv, TypeOK, HalfDone
  <2>2. dir[f] \in Version /\ OrEmpty(DataOf(real[f])) = dir[f].data
    BY <1>4, <2>1 DEF IInv, TypeOK, Tree, Version, DataOf, OrEmpty, InstalledIs
  <2>3. ~PlanConflict(f)
    BY <2>2 DEF PlanConflict, MergeArgs, MergeMayFail
  <2>4. ASSUME ApplyFile(f) PROVE DataOf(real'[f]) = DataOf(real[f])
    <3>1. plan[f].data \in Contents /\ plan[f].data = DataOf(real[f]) /\ real'[f] = Stamped(plan[f].data)
      BY <1>4, <2>1, <2>4 DEF ApplyFile, IInv, Plans, TypeOK, Tree, Planned, InstalledIs
    <3>2. QED
      BY <1>4, <3>1, StampedData DEF IInv, TypeOK
  <2>5. QED
    BY <2>3, <2>4 DEF Rewrites
<1>5. IInv /\ HalfDone => [\A f \in installed : ~PlanConflict(f) /\ ~Rewrites(f)]_vars
  BY <1>4
<1>6. QED
  BY <1>3, <1>5, Inductive, PTL DEF HalfDoneIsRetryable

-----------------------------------------------------------------------------
(* The store keeps the promise of OptimisticFiles                          *)

\* Undisturbed, what was written since the clone is younger than it.
Fresh ==
  dir # NoDir => \A f \in Files : seen[f] # Absent /\ real[f] # Absent =>
                   DataOf(real[f]) = DataOf(seen[f]) \/ real[f].sec > seen[f].sec
\* What is planned for a file is what OptimisticFiles may install there.
Installs(f) ==
  /\ dir[f] # Absent
  /\ plan[f].data \in IF DataOf(real[f]) = DataOf(seen[f]) THEN {dir[f].data}
                      ELSE MergeOutcomes(MergeArgs(f)[1], MergeArgs(f)[2], MergeArgs(f)[3])
PlansInstall ==
  pc \in {"planning", "applying"} =>
    \A f \in Files : plan[f] # Absent /\ (pc = "applying" => f \in todo) => Installs(f)
Alone == crossed = {} /\ Fresh /\ PlansInstall

\* A write of the workspace, by a person or by a commit, after the second of the clone.
LEMMA FreshWrite ==
  ASSUME TypeOK, Fresh, NEW f \in Files, NEW c \in Contents \cup {Absent}, Settled(f),
         real' = [real EXCEPT ![f] = Stamped(c)], UNCHANGED <<dir, seen>>
  PROVE  Fresh'
<1>1. real'[f] = Stamped(c) /\ \A g \in Files \ {f} : real'[g] = real[g]
  BY DEF TypeOK, Tree
<1>2. c # Absent => Stamped(c).sec = clock
  BY DEF Stamped
<1>3. c = Absent => Stamped(c) = Absent
  BY DEF Stamped
<1>4. QED
  BY <1>1, <1>2, <1>3 DEF Fresh, Settled, DataOf

LEMMA FreshStep ==
  ASSUME TypeOK, Control, Fresh, Plans, Quiet, [Next]_vars PROVE Fresh'
<1>1. CASE UNCHANGED <<real, dir, seen>>
  BY <1>1 DEF Fresh, DataOf
<1>2. ASSUME NEW f \in Files, NEW c \in Payloads \cup {Absent}, HumanEdit(f, c) PROVE Fresh'
  BY <1>2, FreshWrite DEF HumanEdit, Undisturbed
<1>3. ASSUME NEW f \in Files, ApplyFile(f) PROVE Fresh'
  <2>1. plan[f].data \in Contents
    BY <1>3 DEF ApplyFile, Plans, TypeOK, Planned
  <2>2. QED
    BY <1>3, <2>1, FreshWrite DEF ApplyFile
<1>4. CASE UNCHANGED <<real, seen>> /\ (dir # NoDir \/ dir' = NoDir)
  BY <1>4 DEF Fresh, DataOf
<1>5. CASE BeginClone
  BY <1>5 DEF BeginClone, Fresh, Nothing
<1>6. ASSUME NEW f \in Files, CloneCopy(f) PROVE Fresh'
  <2>1. /\ seen'[f] = Stamped(real[f].data) /\ real' = real /\ dir # NoDir
        /\ \A g \in Files \ {f} : seen'[g] = seen[g]
    BY <1>6 DEF CloneCopy, TypeOK, Tree, Control
  <2>2. DataOf(seen'[f]) = DataOf(real'[f])
    <3>1. real[f].data \in Contents /\ DataOf(real[f]) = real[f].data
      BY <1>6 DEF CloneCopy, TypeOK, Tree, Version, DataOf
    <3>2. QED
      BY <2>1, <3>1, StampedData DEF TypeOK
  <2>3. \A g \in Files \ {f} : DataOf(seen'[g]) = DataOf(seen[g]) /\ DataOf(real'[g]) = DataOf(real[g])
    BY <2>1
  <2>4. QED
    BY <2>1, <2>2, <2>3 DEF Fresh
<1>7. CASE Tick \/ Crash \/ Open \/ BeginNested \/ BeginDone \/ SaveHead \/ Diff
  BY <1>1, <1>4, <1>7 DEF Tick, Crash, Open, BeginNested, BeginDone, SaveHead, Diff, disk, ghosts
<1>8. CASE CommitSavepoint \/ RollbackSavepoint \/ CommitStart \/ ApplyStart \/ ApplyFail
           \/ ApplyDone \/ RollbackAll \/ CleanDone \/ UnlinkHead
  BY <1>1, <1>4, <1>8 DEF CommitSavepoint, RollbackSavepoint, CommitStart, ApplyStart, ApplyFail,
     ApplyDone, RollbackAll, CleanDone, UnlinkHead, disk, ghosts
<1>9. ASSUME NEW f \in Files, CloneHash(f) \/ MarkStaged(f) \/ PlanFile(f) \/ PlanConflict(f) \/ CleanFile(f)
      PROVE  Fresh'
  BY <1>1, <1>4, <1>9 DEF CloneHash, MarkStaged, PlanFile, PlanConflict, CleanFile, Control, disk, ghosts
<1>10. ASSUME NEW f \in Files, NEW c \in Payloads \cup {Absent}, ShellWrite(f, c) PROVE Fresh'
  BY <1>4, <1>10 DEF ShellWrite
<1>11. ASSUME NEW f \in Files, NEW c \in Payloads, Stage(f, c) PROVE Fresh'
  BY <1>4, <1>11 DEF Stage, Control, HeadTracksMemory, ghosts
<1>12. CASE UNCHANGED vars
  BY <1>1, <1>12 DEF vars, disk, ghosts
<1>13. QED
  BY <1>2, <1>3, <1>5, <1>6, <1>7, <1>8, <1>9, <1>10, <1>11, <1>12 DEF Next, Calls, Others

\* The conflict test tells exactly whether the workspace file is what the copy
\* was taken from.
LEMMA ConflictExact ==
  ASSUME TypeOK, Bases, Control, Fresh, crossed = {}, pc = "planning", NEW f \in Files
  PROVE  Conflict(f) <=> DataOf(real[f]) # DataOf(seen[f])
<1>1. /\ seen[f] \in Version \cup {Absent} /\ real[f] \in Version \cup {Absent}
      /\ base[f] = DataOf(seen[f]) /\ meta[f] = Sig(seen[f]) /\ dir # NoDir
  BY DEF TypeOK, Tree, Bases, Honest, TrueTo, Control
<1>2. \A v \in Version : DataOf(v) = v.data /\ v.data \in Contents /\ v.data # Absent /\ v.sec \in Nat
  BY DEF Version, DataOf, TypeOK
<1>3. CASE base[f] = Absent
  BY <1>1, <1>2, <1>3 DEF Conflict, DataOf
<1>4. CASE base[f] # Absent
  <2>1. seen[f] \in Version
    BY <1>1, <1>4 DEF DataOf
  <2>2. meta[f] # Absent
    BY <1>1, <2>1, SigAbsent
  <2>3. ASSUME Sig(real[f]) = meta[f] PROVE DataOf(real[f]) = DataOf(seen[f])
    <3>1. real[f] \in Version
      BY <1>1, <2>2, <2>3, SigAbsent
    <3>2. real[f].sec = seen[f].sec
      BY <1>1, <2>1, <2>3, <3>1 DEF Sig
    <3>3. QED
      BY <1>1, <1>2, <2>1, <3>1, <3>2 DEF Fresh
  <2>4. QED
    BY <1>1, <1>4, <2>2, <2>3 DEF Conflict
<1>5. QED
  BY <1>3, <1>4

LEMMA PlansInstallStep ==
  ASSUME TypeOK, Control, Bases, Plans, Alone, Quiet, [Next]_vars PROVE PlansInstall'
<1> USE DEF PlansInstall
<1>1. ASSUME UNCHANGED <<real, dir, seen, plan>>
      PROVE  \A f \in Files : Installs(f)' = Installs(f)
  BY <1>1 DEF Installs, MergeArgs, DataOf
<1>2. ASSUME pc' \notin {"planning", "applying"} PROVE PlansInstall'
  BY <1>2
<1>3. CASE UNCHANGED <<real, dir, seen, plan, pc, todo>>
  BY <1>1, <1>3 DEF Alone
<1>4. ASSUME NEW f \in Files, NEW c \in Payloads \cup {Absent}, HumanEdit(f, c) \/ ShellWrite(f, c)
      PROVE  PlansInstall'
  BY <1>2, <1>4 DEF HumanEdit, ShellWrite, Undisturbed, local
<1>5. CASE Crash \/ Open \/ BeginNested \/ BeginClone \/ BeginDone \/ Diff \/ CommitSavepoint
           \/ RollbackSavepoint \/ CommitStart \/ ApplyFail \/ ApplyDone \/ RollbackAll
           \/ CleanDone \/ UnlinkHead
  BY <1>2, <1>5 DEF Crash, Forget, Open, BeginNested, BeginClone, BeginDone, Diff, CommitSavepoint,
     RollbackSavepoint, CommitStart, ApplyFail, ApplyDone, RollbackAll, CleanDone, UnlinkHead, Goto, local
<1>6. ASSUME NEW f \in Files,
             CloneCopy(f) \/ CloneHash(f) \/ MarkStaged(f) \/ PlanConflict(f) \/ CleanFile(f)
      PROVE  PlansInstall'
  BY <1>2, <1>6 DEF CloneCopy, CloneHash, MarkStaged, PlanConflict, CleanFile, Goto, local
<1>7. ASSUME NEW f \in Files, NEW c \in Payloads, Stage(f, c) PROVE PlansInstall'
  BY <1>2, <1>7 DEF Stage, Goto
<1>8. CASE SaveHead
  <2>1. plan' = Nothing
    BY <1>8 DEF SaveHead, Plans
  <2>2. QED
    BY <2>1 DEF Nothing
<1>9. ASSUME NEW f \in Files, PlanFile(f) PROVE PlansInstall'
  <2>1. pc = "planning" /\ pc' = "planning" /\ dir # NoDir /\ UNCHANGED <<real, dir, seen>>
    BY <1>9 DEF PlanFile, disk, ghosts, Control
  <2>2. \A g \in Files \ {f} : plan'[g] = plan[g]
    BY <1>9 DEF PlanFile, PlanCopy, PlanMerge, TypeOK
  <2>3. \A g \in Files \ {f} : plan'[g] # Absent => Installs(g)'
    BY <2>1, <2>2 DEF Alone, Installs, MergeArgs, DataOf
  <2>4. Conflict(f) <=> DataOf(real[f]) # DataOf(seen[f])
    BY <2>1, ConflictExact DEF Alone
  <2>5. plan'[f] # Absent => Installs(f)'
    <3>1. CASE PlanCopy(f)
      <4>1. plan'[f].data = dir[f].data /\ dir[f] # Absent /\ ~Conflict(f)
        BY <3>1 DEF PlanCopy, TypeOK
      <4>2. QED
        BY <2>1, <2>4, <4>1 DEF Installs, DataOf
    <3>2. CASE PlanMerge(f)
      <4>1. PICK c \in MergeOutcomes(MergeArgs(f)[1], MergeArgs(f)[2], MergeArgs(f)[3]) :
              plan' = [plan EXCEPT ![f] = [data |-> c, merged |-> TRUE]]
        BY <3>2 DEF PlanMerge
      <4>2. plan'[f].data = c /\ dir[f] # Absent /\ Conflict(f)
        BY <3>2, <4>1 DEF PlanMerge, TypeOK
      <4>3. QED
        BY <2>1, <2>4, <4>2 DEF Installs, DataOf, MergeArgs
    <3>3. CASE plan' = plan /\ dir[f] = Absent
      <4>1. plan[f] = Absent
        BY <1>9, <2>1 DEF PlanFile, Plans
      <4>2. QED
        BY <3>3, <4>1
    <3>4. QED
      BY <1>9, <3>1, <3>2, <3>3 DEF PlanFile
  <2>6. QED
    BY <2>1, <2>3, <2>5
<1>10. CASE ApplyStart
  BY <1>1, <1>10 DEF ApplyStart, Alone, disk, ghosts
<1>11. ASSUME NEW f \in Files, ApplyFile(f) PROVE PlansInstall'
  <2>1. /\ pc = "applying" /\ pc' = "applying" /\ todo' = todo \ {f} /\ UNCHANGED <<dir, seen, plan>>
        /\ \A g \in Files \ {f} : real'[g] = real[g]
    BY <1>11 DEF ApplyFile, TypeOK, Tree
  <2>2. \A g \in Files \ {f} : Installs(g)' = Installs(g)
    BY <2>1 DEF Installs, MergeArgs, DataOf
  <2>3. QED
    BY <2>1, <2>2 DEF Alone
<1>12. CASE Tick \/ UNCHANGED vars
  BY <1>3, <1>12 DEF Tick, vars, disk, local, ghosts
<1>13. QED
  BY <1>4, <1>5, <1>6, <1>7, <1>8, <1>9, <1>10, <1>11, <1>12 DEF Next, Calls, Others

LEMMA AloneStep ==
  ASSUME TypeOK, Control, Bases, Plans, Alone, Quiet, [Next]_vars PROVE Alone'
<1>1. crossed' = {}
  <2>1. ASSUME NEW f \in Files, NEW c \in Payloads \cup {Absent}, HumanEdit(f, c) PROVE crossed' = {}
    BY <2>1 DEF HumanEdit, Undisturbed, Alone
  <2>2. CASE crossed' = crossed
    BY <2>2 DEF Alone
  <2>3. QED
    BY <2>1, <2>2 DEF Next, Calls, Others, Tick, ShellWrite, Crash, Open, BeginNested, BeginClone,
       CloneCopy, CloneHash, BeginDone, SaveHead, Stage, MarkStaged, Diff, CommitSavepoint,
       RollbackSavepoint, CommitStart, PlanFile, PlanConflict, ApplyStart, ApplyFile, ApplyFail,
       ApplyDone, RollbackAll, CleanFile, CleanDone, UnlinkHead, vars, ghosts
<1>2. Fresh'
  BY FreshStep DEF Alone
<1>3. QED
  BY <1>1, <1>2, PlansInstallStep DEF Alone

\* The step simulation: each step of the store is one of OptimisticFiles.

LEMMA HeldType ==
  ASSUME NEW t \in Tree PROVE Held(t) \in [Files -> Contents \cup {Absent}]
  BY DataType DEF Held, Tree

\* A write of one file.
LEMMA HeldIs ==
  ASSUME NEW t \in Tree, NEW u \in Tree, NEW f \in Files, NEW c \in Contents \cup {Absent},
         DataOf(u[f]) = c, \A g \in Files \ {f} : u[g] = t[g]
  PROVE  Held(u) = [Held(t) EXCEPT ![f] = c]
  BY DEF Held

LEMMA StampedHeld ==
  ASSUME TypeOK, NEW c \in Contents \cup {Absent} PROVE DataOf(Stamped(c)) = c
  BY StampedData DEF TypeOK, Stamped, DataOf

LEMMA HumanEditPromised ==
  ASSUME TypeOK, NEW f \in Files, NEW c \in Payloads \cup {Absent}, HumanEdit(f, c)
  PROVE  Promise!Edit(f, c)
<1>1. c \in Contents \cup {Absent}
  OBVIOUS
<1>2. /\ real \in Tree /\ real' \in Tree /\ DataOf(real'[f]) = c
      /\ \A g \in Files \ {f} : real'[g] = real[g]
  <2>1. real \in Tree /\ real' = [real EXCEPT ![f] = Stamped(c)] /\ DataOf(Stamped(c)) = c
    BY <1>1, StampedHeld DEF HumanEdit, TypeOK
  <2>2. real' \in Tree
    BY <1>1, <2>1, WriteType, StampedType
  <2>3. QED
    BY <2>1, <2>2 DEF Tree
<1>3. Held(real') = [Held(real) EXCEPT ![f] = c]
  BY <1>1, <1>2, HeldIs
<1>4. UNCHANGED <<dir, seen>> /\ writes' = writes + 1
  BY DEF HumanEdit, CountWrite
<1>5. QED
  BY <1>3, <1>4 DEF Promise!Edit

LEMMA AgentWritePromised ==
  ASSUME NEW f \in Files, NEW c \in Contents \cup {Absent}, dir \in Tree, dir' \in Tree,
         DataOf(dir'[f]) = c, \A g \in Files \ {f} : dir'[g] = dir[g],
         writes' = writes + 1, UNCHANGED <<real, seen>>
  PROVE  Promise!Work(f, c)
<1>1. Held(dir') = [Held(dir) EXCEPT ![f] = c]
  BY HeldIs
<1>2. QED
  BY <1>1 DEF Promise!Work

LEMMA AgentStepPromised ==
  ASSUME TypeOK, Control, NEW f \in Files, NEW c \in Payloads \cup {Absent},
         ShellWrite(f, c) \/ (c \in Payloads /\ Stage(f, c))
  PROVE  Promise!Work(f, c)
<1>1. dir \in Tree /\ dir' = [dir EXCEPT ![f] = Stamped(c)] /\ c \in Contents \cup {Absent}
  BY DEF ShellWrite, Stage, TypeOK, Control, HeadTracksMemory
<1>2. /\ dir' \in Tree /\ DataOf(dir'[f]) = c
      /\ \A g \in Files \ {f} : dir'[g] = dir[g]
  <2>1. dir' \in Tree
    BY <1>1, WriteType, StampedType
  <2>2. DataOf(Stamped(c)) = c
    BY <1>1, StampedHeld
  <2>3. QED
    BY <1>1, <2>1, <2>2 DEF Tree
<1>3. writes' = writes + 1 /\ UNCHANGED <<real, seen>>
  BY DEF ShellWrite, Stage, CountWrite, ghosts
<1>4. QED
  BY <1>1, <1>2, <1>3, AgentWritePromised

LEMMA CopyPromised ==
  ASSUME TypeOK, Control, NEW f \in Files, CloneCopy(f) PROVE Promise!CopyFile(f)
<1> DEFINE c == real[f].data
<1>1. real[f] # Absent /\ c \in Contents /\ DataOf(real[f]) = c
  BY DEF CloneCopy, TypeOK, Tree, Version, DataOf
<1>2. /\ dir \in Tree /\ dir' = [dir EXCEPT ![f] = Stamped(c)]
      /\ seen \in Tree /\ seen' = [seen EXCEPT ![f] = Stamped(c)]
  BY DEF CloneCopy, Control, TypeOK
<1> HIDE DEF c
<1>3. Stamped(c) \in Version \cup {Absent} /\ DataOf(Stamped(c)) = c
  BY <1>1, StampedHeld, StampedType
<1>4. /\ dir' \in Tree /\ DataOf(dir'[f]) = c /\ \A g \in Files \ {f} : dir'[g] = dir[g]
  BY <1>2, <1>3, WriteType DEF Tree
<1>5. /\ seen' \in Tree /\ DataOf(seen'[f]) = c /\ \A g \in Files \ {f} : seen'[g] = seen[g]
  BY <1>2, <1>3, WriteType DEF Tree
<1>6. dir \in Tree /\ seen \in Tree
  BY <1>2
<1>7. Held(dir') = [Held(dir) EXCEPT ![f] = c]
  BY ONLY <1>1, <1>4, <1>6, HeldIs, f \in Files
<1>8. Held(seen') = [Held(seen) EXCEPT ![f] = c]
  BY ONLY <1>1, <1>5, <1>6, HeldIs, f \in Files
<1>9. Held(real)[f] = c /\ c # Absent
  BY <1>1 DEF Held
<1>10. UNCHANGED <<real, writes>> /\ dir # NoDir /\ dir' # NoDir
  BY <1>4, <1>6 DEF CloneCopy
<1>11. QED
  BY <1>7, <1>8, <1>9, <1>10 DEF Promise!CopyFile

LEMMA InstallPromised ==
  ASSUME TypeOK, Control, Plans, PlansInstall, NEW f \in Files, ApplyFile(f)
  PROVE  Promise!Install(f)
<1>1. /\ pc = "applying" /\ f \in todo /\ real' = [real EXCEPT ![f] = Stamped(plan[f].data)]
      /\ UNCHANGED <<dir, seen, writes>> /\ dir # NoDir
  BY DEF ApplyFile, Control
<1>2. Installs(f) /\ plan[f].data \in Contents
  BY <1>1 DEF PlansInstall, Plans, TypeOK, Planned
<1>3. Held(real') = [Held(real) EXCEPT ![f] = plan[f].data]
  <2>1. real \in Tree /\ Stamped(plan[f].data) \in Version \cup {Absent}
        /\ DataOf(Stamped(plan[f].data)) = plan[f].data
    BY <1>2, StampedHeld, StampedType DEF TypeOK
  <2>2. /\ real' \in Tree /\ DataOf(real'[f]) = plan[f].data
        /\ \A g \in Files \ {f} : real'[g] = real[g]
    BY <1>1, <2>1, WriteType DEF Tree
  <2>3. real \in Tree /\ plan[f].data \in Contents
    BY <1>2, <2>1
  <2>4. QED
    BY ONLY <2>2, <2>3, HeldIs, f \in Files
<1>4. /\ dir[f] \in Version /\ DataOf(dir[f]) = dir[f].data /\ dir[f].data \in Contents
      /\ DataOf(real[f]) \in Contents \cup {Absent}
  BY <1>1, <1>2, DataType DEF Installs, TypeOK, Tree, Version, DataOf
<1>5. /\ Held(dir)[f] = dir[f].data /\ Held(real)[f] = DataOf(real[f])
      /\ Held(seen)[f] = DataOf(seen[f])
  BY <1>4 DEF Held
<1>6. MergeOutcomes(MergeArgs(f)[1], MergeArgs(f)[2], MergeArgs(f)[3])
        = MergeOutcomes(OrEmpty(DataOf(real[f])), OrEmpty(GitHead[f]), dir[f].data)
  BY DEF MergeArgs
<1>7. plan[f].data \in IF Held(real)[f] = Held(seen)[f] THEN {Held(dir)[f]}
                       ELSE MergesOf(f, Held(real)[f], Held(dir)[f])
  BY <1>2, <1>4, <1>5, <1>6 DEF Installs, MergesOf
<1>8. QED
  BY <1>1, <1>3, <1>4, <1>5, <1>7 DEF Promise!Install

LEMMA DropPromised ==
  ASSUME TypeOK, Control, NEW f \in Files, CleanFile(f) PROVE Promise!Drop(f)
<1>1. dir \in Tree /\ dir # NoDir /\ UNCHANGED <<real, seen, writes>>
  BY DEF CleanFile, Control, TypeOK, ghosts
<1>2. /\ dir' \in Tree /\ dir' # NoDir /\ DataOf(dir'[f]) = Absent
      /\ \A g \in Files \ {f} : dir'[g] = dir[g]
  BY <1>1, WriteType DEF CleanFile, DataOf, Tree
<1>3. Held(dir') = [Held(dir) EXCEPT ![f] = Absent]
  BY <1>1, <1>2, HeldIs
<1>4. QED
  BY <1>1, <1>2, <1>3 DEF Promise!Drop

LEMMA DiscardPromised ==
  ASSUME UNCHANGED <<real, writes>>, dir' = NoDir \/ (dir' = Nothing /\ seen' = Nothing)
  PROVE  Promise!Discard
<1>1. Held(Nothing) = Nothing
  BY DEF Held, Nothing, DataOf
<1>2. QED
  BY <1>1 DEF Promise!Discard, Promise!Nothing, Nothing

LEMMA StepPromised ==
  ASSUME TypeOK, Control, Plans, PlansInstall, [Next]_vars
  PROVE  [Promise!Next]_(Promise!vars)
<1> USE DEF Promise!Next
<1>1. ASSUME NEW f \in Files, NEW c \in Payloads \cup {Absent}, HumanEdit(f, c) \/ ShellWrite(f, c)
      PROVE  Promise!Next
  BY <1>1, HumanEditPromised, AgentStepPromised
<1>2. ASSUME NEW f \in Files, NEW c \in Payloads, Stage(f, c) PROVE Promise!Next
  BY <1>2, AgentStepPromised
<1>3. ASSUME NEW f \in Files, CloneCopy(f) PROVE Promise!Next
  BY <1>3, CopyPromised
<1>4. ASSUME NEW f \in Files, ApplyFile(f) PROVE Promise!Next
  BY <1>4, InstallPromised
<1>5. ASSUME NEW f \in Files, CleanFile(f) PROVE Promise!Next
  BY <1>5, DropPromised
<1>6. CASE BeginClone \/ CleanDone
  BY <1>6, DiscardPromised DEF BeginClone, CleanDone
<1>7. CASE UNCHANGED <<real, dir, seen, writes>>
  BY <1>7 DEF Promise!vars
<1>8. CASE Open
  BY <1>7, <1>8, DiscardPromised DEF Open
<1>9. CASE Tick \/ Crash \/ BeginNested \/ BeginDone \/ SaveHead \/ Diff
  BY <1>7, <1>9 DEF Tick, Crash, BeginNested, BeginDone, SaveHead, Diff, disk, ghosts
<1>10. CASE CommitSavepoint \/ RollbackSavepoint \/ CommitStart \/ ApplyStart \/ ApplyFail
            \/ ApplyDone \/ RollbackAll \/ UnlinkHead
  BY <1>7, <1>10 DEF CommitSavepoint, RollbackSavepoint, CommitStart, ApplyStart, ApplyFail,
     ApplyDone, RollbackAll, UnlinkHead, disk, ghosts
<1>11. ASSUME NEW f \in Files, CloneHash(f) \/ MarkStaged(f) \/ PlanFile(f) \/ PlanConflict(f)
       PROVE  [Promise!Next]_(Promise!vars)
  BY <1>7, <1>11 DEF CloneHash, MarkStaged, PlanFile, PlanConflict, disk, ghosts
<1>12. CASE UNCHANGED vars
  BY <1>7, <1>12 DEF vars, disk, ghosts
<1>13. QED
  BY <1>1, <1>2, <1>3, <1>4, <1>5, <1>6, <1>8, <1>9, <1>10, <1>11, <1>12 DEF Next, Calls, Others

\* While nobody disturbs a clone or a commit, the store implements OptimisticFiles:
\* whatever is staged, rolled back, recovered or torn, the agent's version reaches a
\* file only if nobody else changed it, or as a merge.
THEOREM PromiseIsKept == Quiet => (Spec => KeepsPromise)
<1> SUFFICES ASSUME Quiet PROVE Spec => KeepsPromise
  OBVIOUS
<1>1. Init => Promise!Init
  <2> SUFFICES ASSUME Init PROVE Promise!Init
    OBVIOUS
  <2>1. real \in Tree
    BY TypeInit DEF TypeOK
  <2>2. Held(real) \in [Files -> Contents \cup {Absent}]
    BY <2>1, DataType DEF Held, Tree
  <2>3. QED
    BY <2>2 DEF Init, Promise!Init, Promise!Hold, Promise!Nothing, Nothing
<1>2. Init => Alone
  BY DEF Init, Alone, Fresh, PlansInstall
<1>3. IInv /\ Alone /\ [Next]_vars => Alone'
  BY AloneStep DEF IInv
<1>4. IInv /\ Alone /\ [Next]_vars => [Promise!Next]_(Promise!vars)
  BY StepPromised DEF IInv, Alone
<1>5. QED
  BY <1>1, <1>2, <1>3, <1>4, Inductive, PTL DEF Spec, KeepsPromise, Promise!Spec
=============================================================================
