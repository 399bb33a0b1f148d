--------------------------- MODULE ProposalGate ---------------------------
(***************************************************************************)
(* Change proposals and the gate they put before a commit (context.rs:     *)
(* handle_proposal, handle_workspace).  A proposal is a file: run_gate     *)
(* simulates and crawls and notes the snapshot of the workspace, approve   *)
(* wants that snapshot unchanged, and commit wants the workspace at the    *)
(* approved snapshot.  Every call reads the file, awaits, and writes its   *)
(* own copy back.  A snapshot hashes the files of the workspace; what a    *)
(* transaction has staged lies in a hidden directory that it skips.        *)
(* Contents are numbered by the write that made them.                      *)
(***************************************************************************)
EXTENDS Naturals

CONSTANTS
  Proposals, Callers,
  MaxWrites,  \* bound on the edits of a behavior
  None

ASSUME CallersAssumption == Proposals # {} /\ Callers # {}
ASSUME WritesAssumption == MaxWrites \in Nat /\ None \notin Nat

Contents  == 0..MaxWrites
Proposal  == [status: {"open", "gated", "approved", "rejected"}, passed: BOOLEAN,
              gated: Contents \cup {None}, approved: Contents \cup {None}]
Kinds     == {"approve", "reject", "run_gate", "commit"}
Places    == {"idle", "loaded", "scanned", "checked"}

VARIABLES
  writes,   \* the last write to the workspace or the shadow root
  work,     \* the write that the files of the workspace stem from: their snapshot
  staged,   \* the last write staged in the open transaction, 0 for none yet
  file,     \* .curd/proposals
  at, kind, id, mine, snap, waived,  \* each call: where it is, what it is, its
            \* proposal, the copy it loaded, the snapshot it took, allow_unapproved
  gates, approvals,  \* history: snapshots that gates passed on, and approved ones
  seen,     \* history: what was staged when a proposal was last approved
  crowded   \* history: calls during which something else happened

calls   == <<at, kind, id, mine, snap, waived>>
disk    == <<writes, work, staged>>
history == <<gates, approvals, seen>>
vars    == <<disk, file, calls, history, crowded>>

TypeOK ==
  /\ writes \in Contents /\ work \in Contents /\ staged \in Contents \cup {None}
  /\ file \in [Proposals -> Proposal \cup {None}]
  /\ at \in [Callers -> Places] /\ kind \in [Callers -> Kinds] /\ id \in [Callers -> Proposals]
  /\ mine \in [Callers -> Proposal \cup {None}] /\ snap \in [Callers -> Contents]
  /\ waived \in [Callers -> BOOLEAN]
  /\ gates \subseteq Proposals \X Contents /\ approvals \subseteq Proposals \X Contents
  /\ seen \in [Proposals -> Contents \cup {None}] /\ crowded \subseteq Callers

SomeProposal == CHOOSE p \in Proposals : TRUE  \* the proposal of a caller without a call
Init ==
  /\ writes = 0 /\ work = 0 /\ staged = None
  /\ file = [p \in Proposals |-> None]
  /\ at = [c \in Callers |-> "idle"] /\ kind = [c \in Callers |-> "commit"]
  /\ id = [c \in Callers |-> SomeProposal]
  /\ mine = [c \in Callers |-> None] /\ snap = [c \in Callers |-> 0]
  /\ waived = [c \in Callers |-> FALSE]
  /\ gates = {} /\ approvals = {} /\ seen = [p \in Proposals |-> None]
  /\ crowded = {}
-----------------------------------------------------------------------------
\* Others see a step; a call ends having seen its own steps only, or not.
Crowd(others) == crowded' = crowded \cup {d \in others : at[d] # "idle"}
Stays(c) == Crowd(Callers \ {c})
Goto(c, place) ==
  /\ at' = [at EXCEPT ![c] = place] /\ Stays(c)
  /\ UNCHANGED <<kind, id, mine, snap, waived>>
Leave(c) ==
  /\ crowded' = (crowded \cup {d \in Callers : at[d] # "idle"}) \ {c}
  /\ at' = [at EXCEPT ![c] = "idle"] /\ mine' = [mine EXCEPT ![c] = None]
  /\ snap' = [snap EXCEPT ![c] = 0] /\ waived' = [waived EXCEPT ![c] = FALSE]
  /\ kind' = [kind EXCEPT ![c] = "commit"] /\ id' = [id EXCEPT ![c] = SomeProposal]
Save(c, proposal) == file' = [file EXCEPT ![id[c]] = proposal]

\* An edit lands in the transaction, or in the workspace when none is open.
Edit ==
  /\ writes < MaxWrites /\ writes' = writes + 1
  /\ IF staged = None THEN work' = writes + 1 /\ UNCHANGED staged
     ELSE staged' = writes + 1 /\ UNCHANGED work
  /\ Crowd(Callers) /\ UNCHANGED <<file, calls, history>>

\* workspace begin and rollback.
Begin ==
  /\ staged = None /\ staged' = 0
  /\ Crowd(Callers) /\ UNCHANGED <<writes, work, file, calls, history>>
Rollback ==
  /\ staged # None /\ staged' = None
  /\ Crowd(Callers) /\ UNCHANGED <<writes, work, file, calls, history>>

\* open writes a new proposal, with artifacts the caller supplies, whatever the
\* id named before.
Open(p) ==
  /\ \E passed \in BOOLEAN :
       file' = [file EXCEPT ![p] = [status |-> "open", passed |-> passed,
                                    gated |-> None, approved |-> None]]
  /\ Crowd(Callers) /\ UNCHANGED <<disk, calls, history>>

Send(c) ==
  /\ at[c] = "idle" /\ Stays(c)
  /\ \E k \in Kinds, p \in Proposals, w \in BOOLEAN :
       /\ k # "commit" => file[p] # None /\ ~w
       /\ kind' = [kind EXCEPT ![c] = k] /\ id' = [id EXCEPT ![c] = p]
       /\ mine' = [mine EXCEPT ![c] = IF k = "commit" THEN None ELSE file[p]]
       /\ waived' = [waived EXCEPT ![c] = w]
  /\ at' = [at EXCEPT ![c] = "loaded"]
  /\ UNCHANGED <<disk, file, snap, history>>

\* compute_workspace_snapshot_id_async.
Scan(c) ==
  /\ at[c] = "loaded" /\ kind[c] # "reject" /\ ~waived[c]
  /\ snap' = [snap EXCEPT ![c] = work] /\ at' = [at EXCEPT ![c] = "scanned"] /\ Stays(c)
  /\ UNCHANGED <<disk, file, kind, id, mine, waived, history>>

\* Mutant: the name of the action is stored for the status.
RejectByName(c) ==
  /\ at[c] = "loaded" /\ kind[c] = "reject"
  /\ Save(c, [mine[c] EXCEPT !.status = kind[c]]) /\ Leave(c)
  /\ UNCHANGED <<disk, history>>

Reject(c) ==
  /\ at[c] = "loaded" /\ kind[c] = "reject"
  /\ Save(c, [mine[c] EXCEPT !.status = "rejected"]) /\ Leave(c)
  /\ UNCHANGED <<disk, history>>

\* The artifacts are made after the snapshot that is noted with them.
RunGate(c) ==
  /\ at[c] = "scanned" /\ kind[c] = "run_gate"
  /\ \E ok \in BOOLEAN :
       /\ Save(c, [mine[c] EXCEPT !.passed = ok, !.gated = snap[c],
                                  !.status = IF ok THEN "gated" ELSE "open"])
       /\ gates' = IF ok THEN gates \cup {<<id[c], snap[c]>>} ELSE gates
  /\ Leave(c)
  /\ UNCHANGED <<disk, approvals, seen>>

\* Mutant: snapshot drift since the gate goes unnoticed.
CanApproveDrifted(c) == mine[c].passed /\ mine[c].gated # None
\* can_approve_proposal.
CanApprove(c) == mine[c].passed /\ mine[c].gated = snap[c]

Approve(c) ==
  /\ at[c] = "scanned" /\ kind[c] = "approve" /\ Leave(c)
  /\ IF CanApprove(c)
     THEN /\ Save(c, [mine[c] EXCEPT !.status = "approved", !.approved = snap[c]])
          /\ approvals' = approvals \cup {<<id[c], snap[c]>>}
          /\ seen' = [seen EXCEPT ![id[c]] = staged]
     ELSE UNCHANGED <<file, approvals, seen>>
  /\ UNCHANGED <<disk, gates>>

\* Mutant: any snapshot will do once the proposal was approved.
CommittableOnce(c) == file[id[c]] # None /\ file[id[c]].approved = snap[c]
\* What commit wants of its proposal, read after the snapshot.
Committable(c) ==
  /\ file[id[c]] # None /\ file[id[c]].status = "approved"
  /\ file[id[c]].approved = snap[c]

Check(c) ==
  /\ kind[c] = "commit"
  /\ \/ at[c] = "loaded" /\ waived[c] /\ Goto(c, "checked")
     \/ at[c] = "scanned" /\ IF Committable(c) THEN Goto(c, "checked") ELSE Leave(c)
  /\ UNCHANGED <<disk, file, history>>

\* The engine commits: the workspace takes over what was staged.
Commit(c) ==
  /\ at[c] = "checked" /\ Leave(c) /\ staged # None
  /\ work' = (IF staged = 0 THEN work ELSE staged) /\ staged' = None
  /\ UNCHANGED <<writes, file, history>>

\* A call reaches its time limit; a commit may also be refused by the review
\* thresholds, or fail.
GiveUp(c) ==
  /\ at[c] # "idle" /\ Leave(c)
  /\ UNCHANGED <<disk, file, history>>
-----------------------------------------------------------------------------
Next ==
  \/ Edit \/ Begin \/ Rollback \/ \E p \in Proposals : Open(p)
  \/ \E c \in Callers : \/ Send(c) \/ Scan(c) \/ Reject(c) \/ RunGate(c) \/ Approve(c)
                        \/ Check(c) \/ Commit(c) \/ GiveUp(c)
Spec == Init /\ [][Next]_vars
-----------------------------------------------------------------------------
(* Properties                                                              *)

\* However calls overlap, a commit that the gate lets through names a proposal
\* that was approved, after a gate had passed, for a snapshot the workspace had
\* during that call.
GatedCommit(c) == at[c] = "checked" /\ ~waived[c]
CommitsWentThroughTheGate ==
  \A c \in Callers : GatedCommit(c) =>
    <<id[c], snap[c]>> \in gates \cap approvals

\* A gated commit, if nothing else happened during that call, finds the proposal
\* still approved, and for the very workspace it is applied to.
Lands(c) == GatedCommit(c) /\ staged # None /\ at'[c] = "idle" /\ staged' = None
CommitsAreApproved ==
  [][\A c \in Callers : Lands(c) /\ c \notin crowded =>
       /\ file[id[c]] # None /\ file[id[c]].status = "approved"
       /\ file[id[c]].approved = work]_vars

\* An approval that is not stale is for the changes that the commit makes.
CommitsWhatWasApproved ==
  [][\A c \in Callers : Lands(c) /\ staged # 0 => staged = seen[id[c]]]_vars

\* The proposals in every state: they have their types, and what was committed under
\* one went through its gate.
ProposalsSound == TypeOK /\ CommitsWentThroughTheGate
=============================================================================
