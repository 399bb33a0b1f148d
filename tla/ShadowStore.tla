---------------------------- MODULE ShadowStore ----------------------------
(***************************************************************************)
(* The transactional shadow workspace of curd-core/src/transaction.rs, as  *)
(* one process sees it: `begin' clones the workspace into a shadow         *)
(* directory, agents write there, `commit' plans every staged file and     *)
(* then copies the planned files back, `rollback' throws the shadow away.  *)
(* The manifest .curd/shadow/HEAD lets a later process recover the         *)
(* transaction.  The process is behind a mutex, so its calls do not        *)
(* interleave with each other; they do interleave, at every disk access,   *)
(* with people editing the workspace, with shell jobs writing into the     *)
(* shadow directory, with the clock, and with the death of the process.    *)
(*                                                                         *)
(* Hashes are abstracted to the contents they identify; a metadata         *)
(* signature is a size and a modification second, as in the code.          *)
(***************************************************************************)
EXTENDS Naturals, Sequences, SequencesExt

CONSTANTS
  Files,      \* relative paths
  Contents,   \* what a file may hold
  Payloads,   \* the contents people and agents write
  Empty,      \* the empty file, which `git merge-file' is given for a missing side
  Woven,      \* the result of a clean merge of two different edits
  SizeOf,     \* size in bytes of each content
  NameOf,     \* last component of each path
  GitHead,    \* the version of each file in git's HEAD, or Absent
  MaxSec,     \* bound: last value of the clock, in seconds
  MaxDepth,   \* bound: nested savepoints
  MaxWrites,  \* bound: writes by people and agents together
  MayCrash,   \* whether the process may die (and an apply may fail)
  Quiet,      \* whether others stay away while a clone or a commit is running
  Absent, NoDir, NoHead, Torn

ASSUME ContentsAssumption ==
  /\ Payloads \subseteq Contents
  /\ {Empty, Woven} \subseteq Contents
  /\ SizeOf \in [Contents -> Nat]
  /\ GitHead \in [Files -> Contents \cup {Absent}]
ASSUME BoundsAssumption ==
  /\ MaxSec \in Nat /\ MaxDepth \in Nat /\ MaxWrites \in Nat
  /\ MayCrash \in BOOLEAN /\ Quiet \in BOOLEAN

VARIABLES
  clock,   \* wall clock, in seconds
  writes,  \* writes so far (bound)
  real,    \* the workspace
  dir,     \* the shadow directory that memory or HEAD names
  head,    \* .curd/shadow/HEAD
  active, staged, base, meta, saves,   \* the fields of ShadowStore
  pc,      \* where the running call is
  todo,    \* the files its loop has yet to visit
  plan,    \* the plan directory of a commit
  \* history variables
  seen,    \* what each file held, and when, as `begin' copied it
  crossed, \* files a person wrote between the copy and the hash of `begin'
  acked,   \* the staged files of the last HEAD written
  late,    \* files changed by others after the running commit planned them
  applied, \* files an unfinished commit has already installed
  installed \* of those of any attempt, the ones that are as the agent has them and that
            \* nobody wrote since

disk   == <<real, dir, head>>
memory == <<active, staged, base, meta, saves>>
local  == <<pc, todo, plan>>
ghosts == <<seen, crossed, acked, late, applied, installed>>
vars   == <<clock, writes, disk, memory, local, ghosts>>

Version   == [data : Contents, sec : 0..MaxSec]
Tree      == [Files -> Version \cup {Absent}]
Signature == [size : Nat, sec : 0..MaxSec]
Hashes    == [Files -> Contents \cup {Absent}]
Metas     == [Files -> Signature \cup {Absent}]
Manifests == [staged : SUBSET Files, base : Hashes, meta : Metas]
Savepoint == [staged : SUBSET Files, base : Hashes]
Planned   == [data : Contents, merged : BOOLEAN]

\* The markers are none of the values they stand beside.
ASSUME MarkerAssumption ==
  /\ Absent \notin Contents /\ Absent \notin Version
  /\ Absent \notin Signature /\ Absent \notin Planned
  /\ NoDir \notin Tree /\ NoHead \notin Manifests /\ Torn \notin Manifests
  /\ NoHead # Torn

Nothing     == [f \in Files |-> Absent]
Manifest    == [staged |-> staged, base |-> base, meta |-> meta]
DataOf(v)   == IF v = Absent THEN Absent ELSE v.data
Sig(v)      == IF v = Absent THEN Absent ELSE [size |-> SizeOf[v.data], sec |-> v.sec]
Stamped(c)  == IF c = Absent THEN Absent ELSE [data |-> c, sec |-> clock]
Goto(label) == pc' = label
CountWrite  == writes < MaxWrites /\ writes' = writes + 1

TypeOK ==
  /\ clock \in 0..MaxSec /\ writes \in 0..MaxWrites
  /\ real \in Tree
  /\ dir \in Tree \cup {NoDir}
  /\ head \in Manifests \cup {NoHead, Torn}
  /\ active \in BOOLEAN
  /\ staged \subseteq Files
  /\ base \in Hashes
  /\ meta \in Metas
  /\ saves \in Seq(Savepoint)
  /\ pc \in {"closed", "idle", "cloning", "saving", "savingCommit",
             "planning", "applying", "cleaning", "unlinking"}
  /\ todo \subseteq Files
  /\ plan \in [Files -> Planned \cup {Absent}]
  /\ seen \in Tree
  /\ crossed \subseteq Files /\ acked \subseteq Files /\ late \subseteq Files /\ applied \subseteq Files
  /\ installed \subseteq Files

Init ==
  /\ clock = 0 /\ writes = 0
  /\ real \in [Files -> [data : Payloads, sec : {0}] \cup {Absent}]
  /\ dir = NoDir /\ head = NoHead
  /\ active = FALSE /\ staged = {} /\ base = Nothing /\ meta = Nothing /\ saves = <<>>
  /\ pc = "closed" /\ todo = {} /\ plan = Nothing
  /\ seen = Nothing /\ crossed = {} /\ acked = {} /\ late = {} /\ applied = {}
  /\ installed = {}

-----------------------------------------------------------------------------
(* Everybody else.                                                         *)

\* With Quiet, others leave the workspace alone while a call walks over it,
\* and nobody, a commit included, writes a file for the rest of the second in
\* which it was cloned.
Settled(f) == dir # NoDir /\ seen[f] # Absent => clock > seen[f].sec
Undisturbed(f) ==
  Quiet => Settled(f) /\ pc \notin {"cloning", "savingCommit", "planning", "applying"}

Tick == clock < MaxSec /\ clock' = clock + 1 /\ UNCHANGED <<writes, disk, memory, local, ghosts>>

\* `begin' has copied the file and not hashed it yet.
Copied(f) == f \in todo /\ meta[f] # Absent

\* A person, an editor or git rewrites, creates or deletes a workspace file.
HumanEdit(f, c) ==
  /\ CountWrite
  /\ Undisturbed(f)
  /\ real' = [real EXCEPT ![f] = Stamped(c)]
  /\ late' = IF \/ pc = "planning" /\ f \notin todo
                \/ pc = "applying" /\ f \in todo
             THEN late \cup {f} ELSE late
  /\ crossed' = IF pc = "cloning" /\ Copied(f) THEN crossed \cup {f} ELSE crossed
  /\ installed' = installed \ {f}
  /\ UNCHANGED <<clock, dir, head, memory, local, seen, acked, applied>>

\* A shell command of the agent writes or deletes a file of the shadow.
ShellWrite(f, c) ==
  /\ CountWrite
  /\ active /\ dir # NoDir
  /\ pc \in {"idle", "saving", "savingCommit", "planning", "applying"}
  /\ Undisturbed(f)
  /\ dir' = [dir EXCEPT ![f] = Stamped(c)]
  /\ late' = IF pc \in {"idle", "saving"} THEN late ELSE late \cup {f}
  /\ installed' = installed \ {f}
  /\ UNCHANGED <<clock, real, head, memory, local, seen, crossed, acked, applied>>

-----------------------------------------------------------------------------
(* Opening, dying.                                                         *)

\* ShadowStore::new and load_head.
Open ==
  /\ pc = "closed"
  /\ IF head \in {NoHead, Torn} \/ dir = NoDir
     THEN /\ head' = NoHead /\ dir' = NoDir
          /\ acked' = {} /\ installed' = {}
          /\ UNCHANGED memory
     ELSE /\ active' = TRUE
          /\ staged' = head.staged /\ base' = head.base /\ meta' = head.meta
          /\ UNCHANGED <<head, dir, saves, acked, installed>>
  /\ Goto("idle")
  /\ UNCHANGED <<clock, writes, real, todo, plan, seen, crossed, late, applied>>

Forget ==
  /\ active' = FALSE /\ staged' = {} /\ base' = Nothing /\ meta' = Nothing /\ saves' = <<>>
  /\ pc' = "closed" /\ todo' = {} /\ plan' = Nothing /\ late' = {}

\* The process dies; in the middle of fs::write(HEAD) it leaves a torn file.
Crash ==
  /\ MayCrash /\ pc # "closed"
  /\ Forget
  /\ \/ head' = head
     \/ pc \in {"saving", "savingCommit"} /\ head' = Torn
  /\ UNCHANGED <<clock, writes, real, dir, seen, crossed, acked, applied, installed>>

-----------------------------------------------------------------------------
(* begin                                                                   *)

\* begin on an active store: push a savepoint; HEAD is not rewritten.
BeginNested ==
  /\ pc = "idle" /\ active /\ Len(saves) < MaxDepth
  /\ saves' = Append(saves, [staged |-> staged, base |-> base])
  /\ UNCHANGED <<clock, writes, disk, active, staged, base, meta, local, ghosts>>

BeginClone ==
  /\ pc = "idle" /\ ~active
  /\ dir' = Nothing /\ base' = Nothing /\ meta' = Nothing
  /\ seen' = Nothing /\ crossed' = {} /\ acked' = {} /\ applied' = {} /\ installed' = {}
  /\ todo' = Files /\ Goto("cloning")
  /\ UNCHANGED <<clock, writes, real, head, active, staged, saves, plan, late>>

\* The walk yields a file: copy it, then stat the copy.
CloneCopy(f) ==
  /\ pc = "cloning" /\ f \in todo /\ real[f] # Absent
  /\ \A g \in Files : ~Copied(g)
  /\ dir'  = [dir  EXCEPT ![f] = Stamped(real[f].data)]
  /\ meta' = [meta EXCEPT ![f] = Sig(Stamped(real[f].data))]
  /\ seen' = [seen EXCEPT ![f] = Stamped(real[f].data)]
  /\ UNCHANGED <<clock, writes, real, head, active, staged, base, saves, local, crossed, acked, late, applied, installed>>

\* Mutant: the base of a file is kept with its signature.
CloneHashStat(f) ==
  /\ pc = "cloning" /\ f \in todo
  /\ Copied(f) \/ (real[f] = Absent /\ \A g \in Files : ~Copied(g))
  /\ base' = [base EXCEPT ![f] = real[f]]
  /\ todo' = todo \ {f}
  /\ UNCHANGED <<clock, writes, disk, active, staged, meta, saves, pc, plan, ghosts>>

\* ... and hash the original, which may have changed or gone since the copy;
\* a path that has no file yet is not yielded at all.
CloneHash(f) ==
  /\ pc = "cloning" /\ f \in todo
  /\ Copied(f) \/ (real[f] = Absent /\ \A g \in Files : ~Copied(g))
  /\ base' = [base EXCEPT ![f] = DataOf(real[f])]
  /\ todo' = todo \ {f}
  /\ UNCHANGED <<clock, writes, disk, active, staged, meta, saves, pc, plan, ghosts>>

BeginDone ==
  /\ pc = "cloning" /\ todo = {}
  /\ active' = TRUE /\ staged' = {}
  /\ Goto("saving")
  /\ UNCHANGED <<clock, writes, disk, base, meta, saves, todo, plan, ghosts>>

\* write_head, the last disk access of the call (before the planning loop in commit).
SaveHead ==
  /\ pc \in {"saving", "savingCommit"}
  /\ head' = Manifest /\ acked' = staged
  /\ IF pc = "saving"
     THEN Goto("idle") /\ UNCHANGED todo
     ELSE Goto("planning") /\ todo' = staged
  /\ UNCHANGED <<clock, writes, real, dir, memory, plan, seen, crossed, late, applied, installed>>

-----------------------------------------------------------------------------
(* Working in the shadow                                                   *)

\* stage: write the shadow file, remember the path, save HEAD.
Stage(f, c) ==
  /\ CountWrite
  /\ pc = "idle" /\ active
  /\ dir' = [dir EXCEPT ![f] = Stamped(c)]
  /\ staged' = staged \cup {f}
  /\ Goto("saving") /\ installed' = installed \ {f}
  /\ UNCHANGED <<clock, real, head, active, base, meta, saves, todo, plan, seen, crossed, acked, late, applied>>

MarkStaged(f) ==
  /\ pc = "idle" /\ active
  /\ staged' = staged \cup {f}
  /\ Goto("saving")
  /\ UNCHANGED <<clock, writes, disk, active, base, meta, saves, todo, plan, ghosts>>

\* Mutant: the search by file name also serves paths that have a base.
UnlikeAnyNamesake(f) == ~\E g \in Files : NameOf[g] = NameOf[f] /\ base[g] = dir[f].data

\* The hash of a shadow file differs from that of its base or, for a path without
\* a base, from the base of every path that ends in the same file name.
Unlike(f) ==
  IF base[f] # Absent THEN base[f] # dir[f].data
  ELSE ~\E g \in Files : NameOf[g] = NameOf[f] /\ base[g] = dir[f].data

\* Mutant: an edit that keeps the size of a file is not discovered.
DiscoveredBySize ==
  {f \in Files : dir[f] # Absent /\ (meta[f] = Absent \/ SizeOf[dir[f].data] # meta[f].size) /\ Unlike(f)}

\* discover_implicit_changes adds the shadow files whose signature moved and
\* whose contents are new.
Discovered ==
  {f \in Files : dir[f] # Absent /\ (meta[f] = Absent \/ Sig(dir[f]) # meta[f]) /\ Unlike(f)}

Diff ==
  /\ pc = "idle" /\ active
  /\ staged' = staged \cup Discovered
  /\ Goto("saving")
  /\ UNCHANGED <<clock, writes, disk, active, base, meta, saves, todo, plan, ghosts>>

CommitSavepoint ==
  /\ pc = "idle" /\ active /\ saves # <<>>
  /\ saves' = Front(saves)
  /\ UNCHANGED <<clock, writes, disk, active, staged, base, meta, local, ghosts>>

\* Mutant: rolling back to a savepoint forgets to rewrite HEAD.
RollbackSavepointUnsaved ==
  /\ pc = "idle" /\ active /\ saves # <<>>
  /\ staged' = Last(saves).staged /\ base' = Last(saves).base
  /\ saves' = Front(saves)
  /\ UNCHANGED <<clock, writes, disk, active, meta, local, ghosts>>

\* rollback inside a savepoint: the two maps go back, the shadow files stay.
RollbackSavepoint ==
  /\ pc = "idle" /\ active /\ saves # <<>>
  /\ staged' = Last(saves).staged /\ base' = Last(saves).base
  /\ saves' = Front(saves)
  /\ Goto("saving")
  /\ UNCHANGED <<clock, writes, disk, active, meta, todo, plan, ghosts>>

-----------------------------------------------------------------------------
(* commit and the final rollback                                           *)

CommitStart ==
  /\ pc = "idle" /\ active /\ saves = <<>>
  /\ staged' = staged \cup Discovered
  /\ applied' = {}
  /\ Goto("savingCommit")
  /\ UNCHANGED <<clock, writes, disk, active, base, meta, saves, todo, plan, seen, crossed, acked, late, installed>>

\* Mutant: the prefilter looks at the size alone.
SameSize(v, m)    == v # Absent /\ m # Absent /\ SizeOf[v.data] = m.size
ConflictBySize(f) ==
  IF base[f] # Absent
  THEN ~SameSize(real[f], meta[f]) /\ DataOf(real[f]) # base[f]
  ELSE real[f] # Absent

\* Did the workspace file change under the transaction?
Conflict(f) ==
  IF base[f] # Absent
  THEN /\ meta[f] = Absent \/ Sig(real[f]) # meta[f]
       /\ DataOf(real[f]) # base[f]
  ELSE real[f] # Absent

OrEmpty(c) == IF c = Absent THEN Empty ELSE c

\* git merge-file, the workspace file as ours, git's HEAD as base, the shadow
\* file as theirs: the contents it can produce; none if it reports a conflict.
\* Two different edits may or may not touch the same lines.
MergeOutcomes(ours, origin, theirs) ==
  IF ours = theirs \/ theirs = origin THEN {ours}
  ELSE IF ours = origin THEN {theirs} ELSE {Woven}
MergeMayFail(ours, origin, theirs) == ours # theirs /\ ours # origin /\ theirs # origin

MergeArgs(f) == <<OrEmpty(DataOf(real[f])), OrEmpty(GitHead[f]), dir[f].data>>

PlanCopy(f) ==
  /\ dir[f] # Absent /\ ~Conflict(f)
  /\ plan' = [plan EXCEPT ![f] = [data |-> dir[f].data, merged |-> FALSE]]

PlanMerge(f) ==
  /\ dir[f] # Absent /\ Conflict(f)
  /\ \E c \in MergeOutcomes(MergeArgs(f)[1], MergeArgs(f)[2], MergeArgs(f)[3]) :
       plan' = [plan EXCEPT ![f] = [data |-> c, merged |-> TRUE]]

\* One iteration of the planning loop.  A staged path with no shadow file is
\* skipped: deletions are not carried over.
PlanFile(f) ==
  /\ pc = "planning" /\ f \in todo
  /\ PlanCopy(f) \/ PlanMerge(f) \/ (dir[f] = Absent /\ plan' = plan)
  /\ todo' = todo \ {f}
  /\ UNCHANGED <<clock, writes, disk, memory, pc, ghosts>>

\* Mutant: any conflict fails the commit, without trying to merge.
PlanConflictUnmerged(f) ==
  /\ pc = "planning" /\ f \in todo /\ dir[f] # Absent /\ Conflict(f)
  /\ plan' = Nothing /\ todo' = {} /\ late' = {} /\ pc' = "idle"
  /\ UNCHANGED <<clock, writes, disk, memory, seen, crossed, acked, applied, installed>>

\* A merge conflict: the call fails, the transaction stays open.
PlanConflict(f) ==
  /\ pc = "planning" /\ f \in todo
  /\ dir[f] # Absent /\ Conflict(f)
  /\ MergeMayFail(MergeArgs(f)[1], MergeArgs(f)[2], MergeArgs(f)[3])
  /\ plan' = Nothing /\ todo' = {} /\ late' = {} /\ Goto("idle")
  /\ UNCHANGED <<clock, writes, disk, memory, seen, crossed, acked, applied, installed>>

ApplyStart ==
  /\ pc = "planning" /\ todo = {}
  /\ todo' = {f \in Files : plan[f] # Absent}
  /\ Goto("applying")
  /\ UNCHANGED <<clock, writes, disk, memory, plan, ghosts>>

ApplyFile(f) ==
  /\ pc = "applying" /\ f \in todo
  /\ Quiet => Settled(f)
  /\ real' = [real EXCEPT ![f] = Stamped(plan[f].data)]
  /\ todo' = todo \ {f}
  /\ applied' = IF todo = {f} THEN {} ELSE applied \cup {f}
  /\ installed' = IF plan[f].merged \/ f \in late THEN installed \ {f} ELSE installed \cup {f}
  /\ UNCHANGED <<clock, writes, dir, head, memory, pc, plan, seen, crossed, acked, late>>

\* fs::copy fails: the call returns the error and leaves the rest unwritten.
ApplyFail ==
  /\ MayCrash /\ pc = "applying" /\ todo # {}
  /\ plan' = Nothing /\ todo' = {} /\ late' = {} /\ Goto("idle")
  /\ UNCHANGED <<clock, writes, disk, memory, seen, crossed, acked, applied, installed>>

ApplyDone ==
  /\ pc = "applying" /\ todo = {}
  /\ plan' = Nothing /\ todo' = Files /\ late' = {} /\ Goto("cleaning")
  /\ UNCHANGED <<clock, writes, disk, memory, seen, crossed, acked, applied, installed>>

RollbackAll ==
  /\ pc = "idle" /\ active /\ saves = <<>>
  /\ todo' = Files /\ Goto("cleaning")
  /\ UNCHANGED <<clock, writes, disk, memory, plan, ghosts>>

\* cleanup_shadow is remove_dir_all: file by file, then the directory.
CleanFile(f) ==
  /\ pc = "cleaning" /\ f \in todo
  /\ dir' = [dir EXCEPT ![f] = Absent]
  /\ todo' = todo \ {f} /\ installed' = installed \ {f}
  /\ UNCHANGED <<clock, writes, real, head, memory, pc, plan, seen, crossed, acked, late, applied>>

CleanDone ==
  /\ pc = "cleaning" /\ todo = {}
  /\ dir' = NoDir
  /\ active' = FALSE /\ staged' = {} /\ meta' = Nothing /\ saves' = <<>>
  /\ Goto("unlinking") /\ installed' = {}
  /\ UNCHANGED <<clock, writes, real, head, base, todo, plan, seen, crossed, acked, late, applied>>

UnlinkHead ==
  /\ pc = "unlinking"
  /\ head' = NoHead /\ Goto("idle")
  /\ acked' = {}
  /\ UNCHANGED <<clock, writes, real, dir, memory, todo, plan, seen, crossed, late, applied, installed>>

-----------------------------------------------------------------------------
Calls ==
  \/ Open \/ BeginNested \/ BeginClone \/ BeginDone \/ SaveHead \/ Diff
  \/ CommitSavepoint \/ RollbackSavepoint \/ CommitStart \/ ApplyStart
  \/ ApplyDone \/ RollbackAll \/ CleanDone \/ UnlinkHead
  \/ \E f \in Files : \/ CloneCopy(f) \/ CloneHash(f) \/ MarkStaged(f)
                      \/ PlanFile(f) \/ PlanConflict(f) \/ ApplyFile(f) \/ CleanFile(f)
  \/ \E f \in Files, c \in Payloads : Stage(f, c)

Others ==
  \/ Tick \/ Crash \/ ApplyFail
  \/ \E f \in Files, c \in Payloads \cup {Absent} : HumanEdit(f, c) \/ ShellWrite(f, c)

Next == Calls \/ Others

Spec == Init /\ [][Next]_vars
-----------------------------------------------------------------------------
(* Safety                                                                  *)

\* Whenever no call is rewriting it, HEAD is exactly the transaction in memory,
\* and the directory it names exists: from the moment `begin' returns until the
\* last file of a commit is installed, a process that dies loses nothing.
HeadTracksMemory ==
  pc \in {"idle", "planning", "applying"} =>
    IF active THEN head = Manifest /\ dir # NoDir ELSE head = NoHead

\* The metadata prefilter cannot tell v from what `begin' copied.
Blind(f, v) == seen[f] # Absent /\ v # Absent /\ Sig(v) = Sig(seen[f])

\* A commit never overwrites somebody else's work without merging: a file it is
\* about to replace as it stands still holds what the agent's copy was made
\* from.  The exceptions are the code's two windows (an edit after the file was
\* planned, an edit between the copy and the hash of `begin') and its blind spot
\* (an edit of the same size in the second in which the file was cloned).
NoSilentOverwrite ==
  pc = "applying" =>
    \A f \in todo \ (late \cup crossed) :
      plan[f].merged \/ Blind(f, real[f]) \/ DataOf(real[f]) = DataOf(seen[f])

\* A commit that gets as far as writing carries all of the agent's work: every
\* file HEAD recorded as staged, before or after a crash, and every file a shell
\* command changed outside the blind spot, as long as it still exists in the
\* shadow.  A new file is noticed unless `begin' saw the same contents under
\* the same file name.
Noticeable(f) ==
  /\ f \notin crossed /\ ~Blind(f, dir[f])
  /\ DataOf(dir[f]) # DataOf(seen[f])
  /\ seen[f] = Absent => \A g \in Files :
       NameOf[g] = NameOf[f] => g \notin crossed /\ DataOf(seen[g]) # DataOf(dir[f])
CommitCarriesWork ==
  pc = "applying" =>
    \A f \in Files \ late :
      dir[f] # Absent /\ (f \in acked \/ Noticeable(f)) => plan[f] # Absent

\* A commit that stopped half way, by an error or with its process, can be repeated: what
\* it installed as the agent has it, and nobody wrote since in the workspace or in the
\* shadow, is not the conflict that blocks a later attempt, whose hash of the base
\* no longer fits, nor does a later attempt change it.  Of a file that was installed
\* as a merge nothing is said: it differs from both sides and may conflict with them.
Rewrites(f) == ApplyFile(f) /\ DataOf(real'[f]) # DataOf(real[f])
HalfDoneIsRetryable == [][\A f \in installed : ~PlanConflict(f) /\ ~Rewrites(f)]_vars

\* transaction.rs says of commit that changes reach the disk atomically: no
\* commit ends, by an error or by the death of the process, with some of its
\* files installed and others not.
CommitAllOrNothing == pc \in {"idle", "closed"} => applied = {}
-----------------------------------------------------------------------------
(* Refinement                                                              *)

Held(tree) == [f \in Files |-> DataOf(tree[f])]
MergesOf(f, ours, theirs) == MergeOutcomes(OrEmpty(ours), OrEmpty(GitHead[f]), theirs)

Promise == INSTANCE OptimisticFiles WITH
  file   <- Held(real),
  snap   <- IF dir = NoDir THEN Nothing ELSE Held(seen),
  work   <- IF dir = NoDir THEN Nothing ELSE Held(dir),
  count  <- writes,
  Merges <- MergesOf

\* While nobody disturbs a clone or a commit, every step of the store, crashes
\* and recoveries included, is a step of OptimisticFiles on the workspace, the
\* agent's copy, and what the copy was made of: the agent's version of a file
\* replaces a file nobody else changed, or is merged.
KeepsPromise == Promise!Spec

\* The store in every state: its variables keep their types, and HEAD the memory.
StoreSound == TypeOK /\ HeadTracksMemory
=============================================================================
