--------------------------- MODULE Collaboration ---------------------------
(***************************************************************************)
(* The participants of a workspace and the overrides of its humans         *)
(* (collab.rs; context.rs: require_bound_role, handle_bind_participant_    *)
(* role, handle_claim_human_override, handle_release_human_override, and   *)
(* the lock table that dispatch_tool reads before a risky call).  Every    *)
(* call loads the collaboration file, changes its copy and writes it back; *)
(* a write first empties the file.  Each server keeps its own lock table   *)
(* in memory.  A call that is refused changes nothing and is left out.     *)
(***************************************************************************)
EXTENDS Naturals, FiniteSets

\* Roles of participants and what they allow (collab.rs, context.rs).
Capabilities == {"Read", "Search", "Graph", "Doc", "PlanCreate", "PlanSimulate", "PlanCompare",
                 "PlanReview", "VariantPromote", "WorkspaceMutate", "WorkspaceCommit", "RoleBind"}
ReadCaps == {"Read", "Search", "Graph", "Doc"}
ParticipantRole == {"owner", "editor", "planner", "reviewer", "observer"}

\* Mutant: an editor may bind roles.
EditorsBind(role) ==
  CASE role \in {"owner", "editor"} -> Capabilities
    [] role = "planner"  -> ReadCaps \cup {"PlanCreate", "PlanSimulate", "PlanCompare"}
    [] role = "reviewer" -> ReadCaps \cup {"PlanCompare", "PlanReview"}
    [] OTHER             -> ReadCaps
\* The capabilities that role_allows grants.
Allows(role) ==
  CASE role = "owner"    -> Capabilities
    [] role = "editor"   -> Capabilities \ {"RoleBind"}
    [] role = "planner"  -> ReadCaps \cup {"PlanCreate", "PlanSimulate", "PlanCompare"}
    [] role = "reviewer" -> ReadCaps \cup {"PlanCompare", "PlanReview"}
    [] OTHER             -> ReadCaps

CONSTANTS
  Persons,   \* participant ids
  Servers,   \* processes that serve the workspace
  Slots,     \* calls that can be under way at once
  Keys,      \* resources an override can name
  BindRoles, \* roles that a bind call may ask for
  Ttl,       \* ttl_secs of a claim
  EditTtl,   \* the 300 seconds of the lock that an edit takes
  MaxTime, MaxBegins, \* bounds on the clock and on the calls of a behaviour
  RequireBound, RequireToken, HumanOwnerFirst, \* [collaboration] settings
  Nobody

ASSUME CollabAssumption ==
  /\ Servers # {} /\ Keys # {}
  /\ Nobody \notin Persons /\ BindRoles \subseteq ParticipantRole
  /\ Ttl \in Nat /\ EditTtl \in Nat /\ MaxTime \in Nat /\ MaxBegins \in Nat
  /\ {RequireBound, RequireToken, HumanOwnerFirst} \subseteq BOOLEAN

\* "how" is history: what let the binding through.
Ways    == {"first", "unread"} \cup ParticipantRole
Binding == [role: ParticipantRole, human: BOOLEAN, how: Ways]
Unbound == [role |-> "observer", human |-> FALSE, how |-> "observer"]
Expiry  == 0..(MaxTime + Ttl + EditTtl)
Lock    == [key: Keys, by: Persons, until: Expiry]
File    == [bound: SUBSET Persons, part: [Persons -> Binding], locks: SUBSET Lock,
            boot: Persons \cup {Nobody}]
Entry   == [human: BOOLEAN, until: Expiry]
RequestKinds   == {"bind", "claim", "release"}
Creds   == {"none", "good", "bad"} \* no token; one for the bound public key; another key
PCs     == {"idle", "check", "load", "empty", "write", "table"}
Request == [kind: RequestKinds, pc: PCs, who: Persons \cup {Nobody}, cred: Creds,
            target: Persons \cup {Nobody}, key: Keys,
            role: ParticipantRole, human: BOOLEAN, srv: Servers, how: Ways, copy: File,
            behind: BOOLEAN, mixed: BOOLEAN]

VARIABLES
  file, unreadable, \* the collaboration file, and whether it cannot be parsed
  table,            \* lock table of each server: at most one entry a key
  request,          \* the calls under way
  moment, begins,
  claimed           \* history: claims that were acknowledged and still stand

collabVars == <<file, unreadable, table, request, moment, begins, claimed>>

NoFile == [bound |-> {}, part |-> [p \in Persons |-> Unbound], locks |-> {}, boot |-> Nobody]
Idle  == [kind |-> "bind", pc |-> "idle", who |-> Nobody, cred |-> "none", target |-> Nobody, key |-> CHOOSE k \in Keys : TRUE,
          role |-> "observer", human |-> FALSE, srv |-> CHOOSE s \in Servers : TRUE,
          how |-> "observer", copy |-> NoFile, behind |-> FALSE, mixed |-> FALSE]

CollabTypeOK ==
  /\ file \in File /\ unreadable \in BOOLEAN
  /\ table \in [Servers -> [Keys -> SUBSET Entry]]
  /\ request \in [Slots -> Request]
  /\ \A c \in Slots : request[c].pc = "idle" => request[c].who = Nobody /\ ~request[c].behind
  /\ moment \in 0..MaxTime /\ begins \in 0..MaxBegins
  /\ claimed \subseteq (Servers \X Lock)

\* The servers start on a new workspace, or on one that everybody is bound to.
Everybody == [NoFile EXCEPT !.bound = Persons,
  !.part = [p \in Persons |-> [role |-> "owner", human |-> TRUE, how |-> "owner"]]]
CollabInit ==
  /\ file \in {NoFile, Everybody} /\ unreadable = FALSE
  /\ table = [s \in Servers |-> [k \in Keys |-> {}]]
  /\ request = [c \in Slots |-> Idle]
  /\ moment = 0 /\ begins = 0 /\ claimed = {}
-----------------------------------------------------------------------------
(* Who may call                                                            *)

DefaultRole(human) == IF human THEN "owner" ELSE "planner" \* as the settings ship

\* require_bound_role and role_allows: may p, with this token, use cap?
Capable(p, cred, saysHuman, cap) ==
  IF p \in file.bound
  THEN /\ cred = "none" /\ RequireToken => file.part[p].human
       /\ cred # "bad"
       /\ cap \in Allows(file.part[p].role)
  ELSE /\ ~RequireBound
       /\ RequireToken => saysHuman
       /\ cap \in Allows(DefaultRole(saysHuman))
IsHuman(p, saysHuman) == IF p \in file.bound THEN file.part[p].human ELSE saysHuman

At(c, pc) == request[c].pc = pc
Become(c, pc) == request' = [request EXCEPT ![c].pc = pc]
\* Mutant: the call ends and who made it stays.
EndHalf(c) == Become(c, "idle")
End(c) == request' = [request EXCEPT ![c] = Idle]
-----------------------------------------------------------------------------
(* bind_participant_role                                                   *)

\* Without a token the caller is the participant that the call binds.  A file
\* that cannot be read counts as one without participants, and as no objection.
BeginBind(c) ==
  \E p, q \in Persons, cred \in Creds, role \in BindRoles, h \in BOOLEAN, s \in Servers :
    LET first == unreadable \/ file.bound = {} IN
    /\ At(c, "idle") /\ begins < MaxBegins /\ begins' = begins + 1
    /\ cred = "none" => p = q
    /\ ~unreadable /\ file.bound = {} /\ HumanOwnerFirst => h /\ role = "owner"
    /\ request' = [request EXCEPT ![c] = [Idle EXCEPT
         !.kind = "bind", !.pc = IF first THEN "load" ELSE "check",
         !.who = IF first THEN Nobody ELSE p, !.cred = IF first THEN "none" ELSE cred,
         !.target = q, !.role = role, !.human = h, !.srv = s,
         !.how = IF unreadable THEN "unread" ELSE "first"]]
    /\ UNCHANGED <<file, unreadable, table, moment, claimed>>

\* The capability is asked of the file as it is read for the second time.
CheckBind(c) ==
  LET r == request[c] IN
  /\ At(c, "check") /\ ~unreadable
  /\ Capable(r.who, r.cred, r.human, "RoleBind")
  /\ request' = [request EXCEPT ![c] = [r EXCEPT !.pc = "load", !.who = Nobody, !.cred = "none",
       !.how = IF r.who \in file.bound THEN file.part[r.who].role ELSE DefaultRole(r.human)]]
  /\ UNCHANGED <<file, unreadable, table, moment, begins, claimed>>

BindIn(f, r) ==
  [f EXCEPT !.bound = @ \cup {r.target},
            !.part[r.target] = [role |-> r.role, human |-> r.human, how |-> r.how],
            !.boot = IF r.how \in {"first", "unread"} /\ @ = Nobody THEN r.target ELSE @]
-----------------------------------------------------------------------------
(* claim_human_override and release_human_override                         *)

BeginOverride(c) ==
  \E kind \in {"claim", "release"}, p \in Persons, cred \in Creds, k \in Keys, s \in Servers,
     h \in BOOLEAN :
    /\ At(c, "idle") /\ ~unreadable /\ begins < MaxBegins /\ begins' = begins + 1
    /\ Capable(p, cred, h, "WorkspaceMutate") /\ IsHuman(p, h)
    /\ request' = [request EXCEPT ![c] = [Idle EXCEPT
         !.kind = kind, !.pc = "load", !.who = p, !.key = k, !.srv = s]]
    /\ UNCHANGED <<file, unreadable, table, moment, claimed>>

\* Mutant: a claim adds its lock to those of others on the key.
ClaimBeside(f, r) ==
  [f EXCEPT !.locks = {l \in @ : l.until > moment}
                        \cup {[key |-> r.key, by |-> r.who, until |-> moment + Ttl]}]
\* A claim drops what has expired and whatever lock there is on its key.
ClaimIn(f, r) ==
  [f EXCEPT !.locks = {l \in @ : l.until > moment /\ l.key # r.key}
                        \cup {[key |-> r.key, by |-> r.who, until |-> moment + Ttl]}]
\* Mutant: a release drops every lock of its caller and every lock on its key.
ReleaseAll(f, r) == [f EXCEPT !.locks = {l \in @ : l.by # r.who /\ l.key # r.key}]
ReleaseIn(f, r) == [f EXCEPT !.locks = {l \in @ : ~(l.by = r.who /\ l.key = r.key)}]
-----------------------------------------------------------------------------
(* Load, change, save                                                      *)

LoadFile(c) ==
  LET r == request[c] IN
  /\ At(c, "load") /\ ~unreadable
  /\ request' = [request EXCEPT ![c].pc = "empty",
       ![c].copy = CASE r.kind = "bind"    -> BindIn(file, r)
                     [] r.kind = "claim"   -> ClaimIn(file, r)
                     [] OTHER              -> ReleaseIn(file, r)]
  /\ UNCHANGED <<file, unreadable, table, moment, begins, claimed>>

\* fs::write opens the file, which empties it, ...
EmptyFile(c) ==
  /\ At(c, "empty") /\ unreadable' = TRUE
  /\ Become(c, "write")
  /\ UNCHANGED <<file, table, moment, begins, claimed>>

\* ... and writes.  Two writes into one emptied file can leave a mixture.
WriteFile(c) ==
  LET r == request[c] IN
  /\ At(c, "write") /\ file' = r.copy
  /\ unreadable' \in (IF r.mixed THEN BOOLEAN ELSE {FALSE})
  /\ request' = [d \in Slots |->
       IF d = c THEN IF r.kind = "bind" THEN Idle
                  ELSE [r EXCEPT !.pc = "table", !.copy = NoFile, !.behind = FALSE, !.mixed = FALSE]
       ELSE [request[d] EXCEPT !.behind = @ \/ request[d].pc \in {"empty", "write"},
                               !.mixed = @ \/ request[d].pc = "write"]]
  /\ UNCHANGED <<table, moment, begins, claimed>>

\* A call that finds the file unreadable gives up, before it changed anything.
GiveUp(c) ==
  /\ request[c].pc \in {"check", "load"} /\ unreadable /\ End(c)
  /\ UNCHANGED <<file, unreadable, table, moment, begins, claimed>>
\* One that lacks the capability is refused.
BindRefused(c) ==
  /\ At(c, "check") /\ ~unreadable /\ End(c)
  /\ ~Capable(request[c].who, request[c].cred, request[c].human, "RoleBind")
  /\ UNCHANGED <<file, unreadable, table, moment, begins, claimed>>

\* After the file, the lock table of the server: a release takes the entry out
\* whoever made it.
Tabled(c) ==
  LET r == request[c]
      mine == [key |-> r.key, by |-> r.who, until |-> moment + Ttl]
  IN
  /\ At(c, "table") /\ End(c)
  /\ table' = [table EXCEPT ![r.srv][r.key] =
       IF r.kind = "claim" THEN {[human |-> TRUE, until |-> moment + Ttl]} ELSE {}]
  /\ claimed' = {x \in claimed : ~(x[1] = r.srv /\ x[2].key = r.key)}
                  \cup (IF r.kind = "claim" THEN {<<r.srv, mine>>} ELSE {})
  /\ UNCHANGED <<file, unreadable, moment, begins>>
-----------------------------------------------------------------------------
(* Edits, time, restarts                                                   *)

\* Mutant: expired entries are dropped and nobody is refused.
EditUnchecked(s, k, human) ==
  LET left == [j \in Keys |-> {e \in table[s][j] : e.until > moment}] IN
  /\ table' = [table EXCEPT ![s] = [left EXCEPT ![k] = {[human |-> human, until |-> moment + EditTtl]}]]
  /\ claimed' = IF human THEN {x \in claimed : ~(x[1] = s /\ x[2].key = k)} ELSE claimed
  /\ UNCHANGED <<file, unreadable, request, moment, begins>>

\* A risky call on k passes the table of its server, and takes the key for
\* whoever it says it is: over an agent's entry, or over a human's if it says
\* it is the human, whose claim is then as long as an edit's.
Edit(s, k, human) ==
  LET left == [j \in Keys |-> {e \in table[s][j] : e.until > moment}] IN
  /\ (\E e \in left[k] : e.human) => human
  /\ table' = [table EXCEPT ![s] = [left EXCEPT ![k] = {[human |-> human, until |-> moment + EditTtl]}]]
  /\ claimed' = IF human THEN {x \in claimed : ~(x[1] = s /\ x[2].key = k)} ELSE claimed
  /\ UNCHANGED <<file, unreadable, request, moment, begins>>

\* A refused edit still drops what has expired.
EditRefused(s, k) ==
  LET left == [j \in Keys |-> {e \in table[s][j] : e.until > moment}] IN
  /\ \E e \in left[k] : e.human
  /\ table' = [table EXCEPT ![s] = left]
  /\ UNCHANGED <<file, unreadable, request, moment, begins, claimed>>

TimePasses ==
  /\ moment < MaxTime /\ moment' = moment + 1
  /\ UNCHANGED <<file, unreadable, table, request, begins, claimed>>

\* A server dies and comes back: its calls stop where they are, even between
\* emptying the file and writing it, and its table starts empty.
Restart(s) ==
  /\ request' = [c \in Slots |-> IF request[c].srv = s THEN Idle ELSE request[c]]
  /\ table' = [table EXCEPT ![s] = [k \in Keys |-> {}]]
  /\ claimed' = {x \in claimed : x[1] # s}
  /\ UNCHANGED <<file, unreadable, moment, begins>>

CollabNext ==
  \/ \E c \in Slots : \/ BeginBind(c) \/ CheckBind(c) \/ BeginOverride(c) \/ LoadFile(c) \/ EmptyFile(c)
                      \/ WriteFile(c) \/ GiveUp(c) \/ BindRefused(c) \/ Tabled(c)
  \/ \E s \in Servers, k \in Keys, h \in BOOLEAN : Edit(s, k, h)
  \/ \E s \in Servers, k \in Keys : EditRefused(s, k)
  \/ TimePasses
  \/ \E s \in Servers : Restart(s)
CollabSpec == CollabInit /\ [][CollabNext]_collabVars
-----------------------------------------------------------------------------
(* Properties                                                              *)

\* However calls overlap, a key is claimed by at most one participant in the
\* file: nobody is told of two humans who both hold it.
OneClaimPerKey == \A l, m \in file.locks : l.key = m.key => l = m

\* Every binding was let through by an owner, or made when nobody was bound and
\* then, as the settings ask, for a human owner - also when two first calls
\* race - or by a call that could not read the file.
OwnersVouch ==
  \A p \in file.bound :
    LET bound == file.part[p] IN
    \/ bound.how \in {"owner", "unread"}
    \/ bound.how = "first" /\ (HumanOwnerFirst => bound.role = "owner" /\ bound.human)

\* A claim that was acknowledged keeps agents out of its key on that server until
\* it expires, a human claims, releases or edits that key there, or the server
\* restarts: no edit of an agent and no call on another key takes it away.
ClaimsHold ==
  \A x \in claimed : x[2].until > moment =>
    \E e \in table[x[1]][x[2].key] : e.human /\ e.until >= x[2].until

\* A write takes a binding out of the file, or a live claim that its call does not
\* replace or release, only if the file changed between its load and its write.
LostOnlyToOverlap ==
  [][\A c \in Slots :
       LET r == request[c]
           Own(l) == l.key = r.key /\ r.kind # "bind" /\ (r.kind = "release" => l.by = r.who)
       IN  At(c, "write") /\ request'[c].pc \in {"idle", "table"} /\ file' # file /\ ~r.behind
           => /\ file.bound \subseteq file'.bound
                /\ \A l \in file.locks : l.until > moment => Own(l) \/ l \in file'.locks]_collabVars

\* What a workspace may rely on: the bindings and claims of the file and of the lock
\* tables above hold in every state, and a write takes away only what it may.
CollabKeeps ==
  [](CollabTypeOK /\ OneClaimPerKey /\ OwnersVouch /\ ClaimsHold) /\ LostOnlyToOverlap
=============================================================================
