------------------------- MODULE Participants_proofs -------------------------
(***************************************************************************)
(* Proofs about those who work in a workspace, for any number of them.     *)
(* Collaboration: the file of participants has one lock a key, bindings    *)
(* that somebody vouched for, and what a call found granted, unless calls  *)
(* of two servers overlap.  Variants: reviews, promotions, lists and       *)
(* workspaces last, through retention and calls that cross, unless two     *)
(* work on one record at once.  PlanGate: however requests interleave and  *)
(* time out, budgets and the active plan are safe, and the plan gate is    *)
(* safe for every connection that waits for its answers and whose active   *)
(* plan never reaches its time limit.                                      *)
(***************************************************************************)
EXTENDS Collaboration, Variants, PlanGate, FiniteSetTheorems, SequenceTheorems, WellFoundedInduction, TLAPS

-----------------------------------------------------------------------------
(* Collaboration                                                           *)

\* A file as the properties want it: one lock a key, and every binding vouched for.
Vouched(b) ==
  \/ b.how \in {"owner", "unread"}
  \/ b.how = "first" /\ (HumanOwnerFirst => b.role = "owner" /\ b.human)
SoundFile(f) ==
  /\ \A l, m \in f.locks : l.key = m.key => l = m
  /\ \A p \in f.bound : Vouched(f.part[p])
\* What a call carries: its copy is such a file, and a binding about to be made is
\* vouched for.
SoundCall(r) ==
  /\ SoundFile(r.copy)
  /\ r.pc = "check" => r.kind = "bind" /\ r.who \in Persons
  /\ r.kind = "bind" /\ r.pc # "idle" => r.target \in Persons
  /\ r.kind = "bind" /\ r.pc = "load" => Vouched(r)
  /\ r.kind # "bind" => r.who \in Persons
\* The copy that a call is about to write still has what the file f has at m, but for
\* what the call takes out, unless another call has written since.
TakesOut(r, l) == l.key = r.key /\ r.kind # "bind" /\ (r.kind = "release" => l.by = r.who)
Covers(r, f, m) ==
  r.pc \in {"empty", "write"} /\ ~r.behind =>
    /\ f.bound \subseteq r.copy.bound
    /\ \A l \in f.locks : l.until > m => TakesOut(r, l) \/ l \in r.copy.locks
\* Each call, with the types of calls.
GoodCall(r, f, m) ==
  /\ r \in Request /\ (r.pc = "idle" => r.who = Nobody /\ ~r.behind)
  /\ SoundCall(r) /\ Covers(r, f, m)
CollabInv ==
  CollabTypeOK /\ SoundFile(file) /\ ClaimsHold /\ \A c \in Slots : GoodCall(request[c], file, moment)
-----------------------------------------------------------------------------
LEMMA NoFileTyped == NoFile \in File /\ SoundFile(NoFile) /\ NoFile.bound = {} /\ NoFile.locks = {}
  BY DEF NoFile, File, Unbound, Binding, Ways, ParticipantRole, SoundFile

LEMMA IdleTyped ==
  /\ Idle \in Request /\ Idle.pc = "idle" /\ Idle.who = Nobody /\ ~Idle.behind
  /\ \A f, m : GoodCall(Idle, f, m)
<1>1. (CHOOSE k \in Keys : TRUE) \in Keys /\ (CHOOSE s \in Servers : TRUE) \in Servers
  BY CollabAssumption
<1>2. Idle \in Request
  BY <1>1, NoFileTyped DEF Idle, Request, RequestKinds, PCs, Creds, ParticipantRole, Ways
<1>3. Idle.pc = "idle" /\ Idle.who = Nobody /\ ~Idle.behind /\ Idle.kind = "bind" /\ Idle.copy = NoFile
  BY DEF Idle
<1> QED BY <1>2, <1>3, NoFileTyped DEF GoodCall, SoundCall, Covers

\* As time passes, fewer claims are left to cover.
LEMMA CoversOn ==
  ASSUME NEW r, NEW f \in File, NEW m \in Nat, NEW n \in Nat, m <= n, GoodCall(r, f, m)
  PROVE  GoodCall(r, f, n)
<1>1. \A l \in f.locks : l.until \in Nat
  BY CollabAssumption DEF File, Lock, Expiry
<1> QED BY <1>1 DEF GoodCall, Covers

\* What the types say of the clock, of locks and of entries.
LEMMA Numbers ==
  ASSUME CollabTypeOK
  PROVE  /\ moment \in Nat /\ MaxTime \in Nat /\ Ttl \in Nat /\ EditTtl \in Nat /\ moment <= MaxTime
         /\ Expiry \subseteq Nat
         /\ \A s \in Servers, k \in Keys : table[s][k] \in SUBSET Entry
         /\ \A e \in Entry : e.until \in Nat
         /\ \A l \in Lock : l.until \in Nat /\ l.key \in Keys
         /\ \A x \in claimed : x[1] \in Servers /\ x[2] \in Lock
         /\ moment + Ttl \in Expiry /\ moment + EditTtl \in Expiry
  BY CollabAssumption DEF CollabTypeOK, Expiry, Entry, Lock

LEMMA CollabStarts == CollabInit => CollabInv
<1> SUFFICES ASSUME CollabInit PROVE CollabInv OBVIOUS
<1> USE DEF CollabInit
<1>1. Everybody \in File /\ SoundFile(Everybody)
  BY DEF Everybody, NoFile, File, Binding, Ways, ParticipantRole, SoundFile, Vouched
<1>2. request \in [Slots -> Request] /\ \A c \in Slots : request[c] = Idle
  BY IdleTyped
<1>3. table \in [Servers -> [Keys -> SUBSET Entry]] /\ claimed \subseteq (Servers \X Lock)
  OBVIOUS
<1>4. moment \in 0..MaxTime /\ begins \in 0..MaxBegins
  BY CollabAssumption
<1>5. file \in File /\ unreadable \in BOOLEAN
  BY <1>1, NoFileTyped
<1>6. CollabTypeOK
  BY <1>2, <1>3, <1>4, <1>5, IdleTyped DEF CollabTypeOK
<1> QED BY <1>1, <1>2, <1>6, NoFileTyped, IdleTyped DEF CollabInv, ClaimsHold

\* A step of one call that leaves file, tables, clock and claims alone.
LEMMA CallMoves ==
  ASSUME CollabInv, NEW c \in Slots, NEW r, GoodCall(r, file, moment),
         request' \in [Slots -> Request], request'[c] = r,
         \A d \in Slots \ {c} : request'[d] = request[d],
         UNCHANGED <<file, table, moment, claimed>>,
         unreadable' \in BOOLEAN, begins' \in 0..MaxBegins
  PROVE  CollabInv'
<1>1. \A d \in Slots : GoodCall(request'[d], file, moment)
  BY DEF CollabInv
<1>2. CollabTypeOK'
  BY <1>1 DEF CollabInv, CollabTypeOK, GoodCall
<1> QED BY <1>1, <1>2 DEF CollabInv, ClaimsHold

\* The state of a call that changes a few of its fields.
LEMMA CallIs ==
  ASSUME CollabInv, NEW c \in Slots, NEW r \in Request, request' = [request EXCEPT ![c] = r]
  PROVE  /\ request' \in [Slots -> Request] /\ request'[c] = r
         /\ \A d \in Slots \ {c} : request'[d] = request[d]
  BY DEF CollabInv, CollabTypeOK

LEMMA BeginsOn ==
  ASSUME CollabInv, begins < MaxBegins, begins' = begins + 1  PROVE begins' \in 0..MaxBegins
<1>1. begins \in 0..MaxBegins /\ MaxBegins \in Nat
  BY CollabAssumption DEF CollabInv, CollabTypeOK
<1> QED BY <1>1

\* role_allows lets owners bind roles and nobody else.
LEMMA OnlyOwnersBind == \A role : "RoleBind" \in Allows(role) => role = "owner"
  BY DEF Allows, Capabilities, ReadCaps

LEMMA BeginBindKeeps == ASSUME CollabInv, NEW c \in Slots, BeginBind(c) PROVE CollabInv'
<1>1. PICK p, q \in Persons, cred \in Creds, role \in BindRoles, h \in BOOLEAN, s \in Servers :
        LET first == unreadable \/ file.bound = {} IN
        /\ At(c, "idle") /\ begins < MaxBegins /\ begins' = begins + 1
        /\ cred = "none" => p = q
        /\ ~unreadable /\ file.bound = {} /\ HumanOwnerFirst => h /\ role = "owner"
        /\ request' = [request EXCEPT ![c] = [Idle EXCEPT
             !.kind = "bind", !.pc = IF first THEN "load" ELSE "check",
             !.who = IF first THEN Nobody ELSE p, !.cred = IF first THEN "none" ELSE cred,
             !.target = q, !.role = role, !.human = h, !.srv = s,
             !.how = IF unreadable THEN "unread" ELSE "first"]]
        /\ UNCHANGED <<file, unreadable, table, moment, claimed>>
  BY DEF BeginBind
<1> DEFINE first == unreadable \/ file.bound = {}
           r == [Idle EXCEPT
             !.kind = "bind", !.pc = IF first THEN "load" ELSE "check",
             !.who = IF first THEN Nobody ELSE p, !.cred = IF first THEN "none" ELSE cred,
             !.target = q, !.role = role, !.human = h, !.srv = s,
             !.how = IF unreadable THEN "unread" ELSE "first"]
<1>2. r \in Request
  <2>1. role \in ParticipantRole
    BY CollabAssumption
  <2>2. (IF first THEN "load" ELSE "check") \in PCs /\ (IF first THEN Nobody ELSE p) \in Persons \cup {Nobody}
        /\ (IF first THEN "none" ELSE cred) \in Creds /\ (IF unreadable THEN "unread" ELSE "first") \in Ways
    BY DEF PCs, Creds, Ways
  <2> HIDE DEF first
  <2> QED BY <2>1, <2>2, IdleTyped DEF Request, RequestKinds
<1>3. /\ r.kind = "bind" /\ r.pc = (IF first THEN "load" ELSE "check") /\ r.target = q /\ r.role = role
      /\ r.human = h /\ r.how = (IF unreadable THEN "unread" ELSE "first") /\ r.copy = NoFile
      /\ first \/ r.who = p
  BY DEF Idle
<1>4. request' = [request EXCEPT ![c] = r]
  BY <1>1
<1> HIDE DEF r
<1>5. SoundCall(r)
  BY <1>1, <1>3, NoFileTyped DEF SoundCall, Vouched
<1>6. GoodCall(r, file, moment)
  BY <1>2, <1>3, <1>5 DEF GoodCall, Covers
<1>7. begins' \in 0..MaxBegins /\ unreadable' \in BOOLEAN
  <2>1. begins < MaxBegins /\ begins' = begins + 1 /\ unreadable' = unreadable
    BY <1>1
  <2>2. unreadable \in BOOLEAN
    BY DEF CollabInv, CollabTypeOK
  <2>3. begins' \in 0..MaxBegins
    BY <2>1, BeginsOn
  <2> QED BY <2>1, <2>2, <2>3
<1>8. UNCHANGED <<file, table, moment, claimed>>
  BY <1>1
<1> QED BY ONLY <1>2, <1>4, <1>6, <1>7, <1>8, CallMoves, CallIs, CollabInv, c \in Slots

LEMMA CheckBindKeeps == ASSUME CollabInv, NEW c \in Slots, CheckBind(c) PROVE CollabInv'
<1> DEFINE old == request[c]
           w == IF old.who \in file.bound THEN file.part[old.who].role ELSE DefaultRole(old.human)
           r == [old EXCEPT !.pc = "load", !.who = Nobody, !.cred = "none", !.how = w]
<1>1. old \in Request /\ old.pc = "check" /\ SoundCall(old) /\ GoodCall(old, file, moment)
  BY DEF CheckBind, At, CollabInv, GoodCall
<1>2. old.kind = "bind" /\ old.target \in Persons /\ SoundFile(old.copy) /\ ~(old.kind # "bind")
  BY <1>1 DEF SoundCall
<1>3. w = "owner"
  BY OnlyOwnersBind DEF CheckBind, Capable
<1>4. request' = [request EXCEPT ![c] = r]
  BY DEF CheckBind
<1>5. r \in Request
  BY <1>1, <1>3 DEF Request, PCs, Creds, Ways, ParticipantRole
<1>6. r.kind = old.kind /\ r.pc = "load" /\ r.target = old.target /\ r.copy = old.copy /\ r.how = w
  BY <1>1 DEF Request
<1> HIDE DEF r, w
<1>7. SoundCall(r)
  BY <1>2, <1>3, <1>6 DEF SoundCall, Vouched
<1>8. GoodCall(r, file, moment)
  BY <1>5, <1>6, <1>7 DEF GoodCall, Covers
<1>9. UNCHANGED <<file, unreadable, table, moment, begins, claimed>>
  BY DEF CheckBind
<1> QED BY <1>4, <1>5, <1>8, <1>9, CallMoves, CallIs DEF CollabInv, CollabTypeOK

LEMMA BeginOverrideKeeps == ASSUME CollabInv, NEW c \in Slots, BeginOverride(c) PROVE CollabInv'
<1>1. PICK way \in {"claim", "release"}, p \in Persons, k \in Keys, s \in Servers :
        /\ begins < MaxBegins /\ begins' = begins + 1
        /\ request' = [request EXCEPT ![c] = [Idle EXCEPT
             !.kind = way, !.pc = "load", !.who = p, !.key = k, !.srv = s]]
        /\ UNCHANGED <<file, unreadable, table, moment, claimed>>
  BY DEF BeginOverride
<1> DEFINE r == [Idle EXCEPT !.kind = way, !.pc = "load", !.who = p, !.key = k, !.srv = s]
<1>2. r \in Request
  BY IdleTyped DEF Request, RequestKinds, PCs
<1>3. r.kind = way /\ r.pc = "load" /\ r.who = p /\ r.copy = NoFile
  BY DEF Idle
<1>4. request' = [request EXCEPT ![c] = r]
  BY <1>1
<1> HIDE DEF r
<1>5. GoodCall(r, file, moment)
  BY <1>2, <1>3, NoFileTyped DEF GoodCall, SoundCall, Covers
<1>6. begins' \in 0..MaxBegins /\ unreadable' \in BOOLEAN
  BY <1>1, BeginsOn DEF CollabInv, CollabTypeOK
<1> QED BY <1>1, <1>2, <1>4, <1>5, <1>6, CallMoves, CallIs

\* What a call makes of the file that it loads.
LEMMA LoadedIsSound ==
  ASSUME CollabInv, NEW r \in Request, SoundCall(r), r.pc = "load",
         NEW g, g = CASE r.kind = "bind"  -> BindIn(file, r)
                      [] r.kind = "claim" -> ClaimIn(file, r)
                      [] OTHER            -> ReleaseIn(file, r)
  PROVE  /\ g \in File /\ SoundFile(g) /\ file.bound \subseteq g.bound
         /\ \A l \in file.locks : l.until > moment => TakesOut(r, l) \/ l \in g.locks
<1>1. file \in File /\ SoundFile(file) /\ moment + Ttl \in Expiry
  BY Numbers DEF CollabTypeOK, CollabInv
<1>2. CASE r.kind = "bind"
  <2>1. /\ r.target \in Persons /\ Vouched(r) /\ r.role \in ParticipantRole /\ r.human \in BOOLEAN
        /\ r.how \in Ways
    BY <1>2 DEF SoundCall, Request
  <2>2. g = BindIn(file, r)
    BY <1>2
  <2>3. /\ g \in File /\ g.locks = file.locks /\ g.bound = file.bound \cup {r.target}
        /\ g.part[r.target] = [role |-> r.role, human |-> r.human, how |-> r.how]
        /\ \A p \in Persons \ {r.target} : g.part[p] = file.part[p]
    <3> DEFINE b == [role |-> r.role, human |-> r.human, how |-> r.how]
               o == IF r.how \in {"first", "unread"} /\ file.boot = Nobody THEN r.target ELSE file.boot
    <3>1. b \in Binding /\ o \in Persons \cup {Nobody}
      BY <1>1, <2>1 DEF Binding, File
    <3>2. g = [file EXCEPT !.bound = file.bound \cup {r.target}, !.part = [file.part EXCEPT ![r.target] = b],
                           !.boot = o]
      BY <1>1, <2>1, <2>2 DEF BindIn, File
    <3> HIDE DEF b, o
    <3>3. /\ g.locks = file.locks /\ g.bound = file.bound \cup {r.target} /\ g.boot = o
          /\ g.part = [file.part EXCEPT ![r.target] = b]
      BY <1>1, <3>2 DEF File
    <3>4. file.part \in [Persons -> Binding] /\ file.bound \subseteq Persons /\ file.locks \subseteq Lock
      BY <1>1 DEF File
    <3>5. /\ g.part \in [Persons -> Binding] /\ g.part[r.target] = b
          /\ \A p \in Persons \ {r.target} : g.part[p] = file.part[p]
      BY <2>1, <3>1, <3>3, <3>4
    <3>6. g = [bound |-> g.bound, part |-> g.part, locks |-> g.locks, boot |-> g.boot]
      BY <1>1, <3>2 DEF File
    <3>7. g \in File
      BY <2>1, <3>1, <3>3, <3>4, <3>5, <3>6 DEF File
    <3> QED BY <3>3, <3>5, <3>7 DEF b
  <2>4. Vouched(g.part[r.target])
    BY <2>1, <2>3 DEF Vouched
  <2>5. file.bound \subseteq Persons
    BY <1>1 DEF File
  <2> QED BY <1>1, <2>3, <2>4, <2>5 DEF SoundFile
<1>3. CASE r.kind = "claim"
  <2>1. r.who \in Persons /\ r.key \in Keys
    BY <1>3 DEF SoundCall, Request
  <2>2. g = ClaimIn(file, r)
    BY <1>3
  <2> DEFINE mine == [key |-> r.key, by |-> r.who, until |-> moment + Ttl]
  <2>3. mine \in Lock
    BY <1>1, <2>1 DEF Lock
  <2>4. /\ g.bound = file.bound /\ g.part = file.part /\ g.boot = file.boot
        /\ g.locks = {l \in file.locks : l.until > moment /\ l.key # r.key} \cup {mine}
        /\ g \in File
    BY <1>1, <2>2, <2>3 DEF ClaimIn, File
  <2>5. mine.key = r.key
    OBVIOUS
  <2> HIDE DEF mine
  <2>6. \A l \in file.locks : l.until > moment => TakesOut(r, l) \/ l \in g.locks
    BY <2>4, <1>3 DEF TakesOut
  <2>7. \A l, m \in g.locks : l.key = m.key => l = m
    BY <1>1, <2>4, <2>5 DEF SoundFile
  <2> QED BY <1>1, <2>4, <2>6, <2>7 DEF SoundFile
<1>4. CASE r.kind = "release"
  <2>1. g = ReleaseIn(file, r)
    BY <1>4
  <2>2. /\ g.bound = file.bound /\ g.part = file.part /\ g.boot = file.boot
        /\ g.locks = {l \in file.locks : ~(l.by = r.who /\ l.key = r.key)}
        /\ g \in File
    BY <1>1, <2>1 DEF ReleaseIn, File
  <2> QED BY <1>1, <1>4, <2>2 DEF SoundFile, TakesOut
<1> QED BY <1>2, <1>3, <1>4 DEF Request, RequestKinds

LEMMA LoadFileKeeps == ASSUME CollabInv, NEW c \in Slots, LoadFile(c) PROVE CollabInv'
<1> DEFINE old == request[c]
           g == CASE old.kind = "bind"  -> BindIn(file, old)
                  [] old.kind = "claim" -> ClaimIn(file, old)
                  [] OTHER              -> ReleaseIn(file, old)
           r == [old EXCEPT !.pc = "empty", !.copy = g]
<1>1. request \in [Slots -> Request] /\ GoodCall(old, file, moment) /\ old.pc = "load"
  BY DEF LoadFile, At, CollabInv, CollabTypeOK
<1>2. old \in Request /\ SoundCall(old)
  BY <1>1 DEF GoodCall
<1>3. /\ g \in File /\ SoundFile(g) /\ file.bound \subseteq g.bound
      /\ \A l \in file.locks : l.until > moment => TakesOut(old, l) \/ l \in g.locks
  BY <1>1, <1>2, LoadedIsSound
<1>4. request' = [request EXCEPT ![c].pc = "empty", ![c].copy = g]
  BY DEF LoadFile
<1> HIDE DEF g
<1>5. request' = [request EXCEPT ![c] = r]
  BY <1>1, <1>2, <1>4 DEF Request
<1>6. r \in Request
  BY <1>2, <1>3 DEF Request, PCs
<1>7. /\ r.kind = old.kind /\ r.pc = "empty" /\ r.who = old.who /\ r.target = old.target /\ r.copy = g
      /\ r.key = old.key
  BY <1>2 DEF Request
<1> HIDE DEF r
<1>8. SoundCall(r)
  BY <1>1, <1>2, <1>3, <1>7 DEF SoundCall
<1>9. Covers(r, file, moment)
  BY <1>3, <1>7 DEF Covers, TakesOut
<1>10. GoodCall(r, file, moment)
  BY <1>6, <1>7, <1>8, <1>9 DEF GoodCall
<1>11. UNCHANGED <<file, unreadable, table, moment, begins, claimed>>
  BY DEF LoadFile
<1> QED BY <1>5, <1>6, <1>10, <1>11, CallMoves, CallIs DEF CollabInv, CollabTypeOK

LEMMA EmptyFileKeeps == ASSUME CollabInv, NEW c \in Slots, EmptyFile(c) PROVE CollabInv'
<1> DEFINE old == request[c]
           r == [old EXCEPT !.pc = "write"]
<1>1. request \in [Slots -> Request] /\ GoodCall(old, file, moment) /\ old.pc = "empty" /\ old \in Request
  BY DEF EmptyFile, At, CollabInv, CollabTypeOK
<1>2. request' = [request EXCEPT ![c] = r]
  BY <1>1 DEF EmptyFile, Become
<1>3. r \in Request
  BY <1>1 DEF Request, PCs
<1>4. /\ r.kind = old.kind /\ r.pc = "write" /\ r.who = old.who /\ r.target = old.target /\ r.copy = old.copy
      /\ r.key = old.key /\ r.behind = old.behind
  BY <1>1 DEF Request
<1> HIDE DEF r
<1>5. GoodCall(r, file, moment)
  BY <1>1, <1>3, <1>4 DEF GoodCall, SoundCall, Covers, TakesOut
<1>6. UNCHANGED <<file, table, moment, begins, claimed>> /\ unreadable' = TRUE
  BY DEF EmptyFile
<1> QED BY <1>2, <1>3, <1>5, <1>6, CallMoves, CallIs DEF CollabInv, CollabTypeOK

LEMMA EndKeeps ==
  ASSUME CollabInv, NEW c \in Slots, End(c), UNCHANGED <<file, unreadable, table, moment, begins, claimed>>
  PROVE  CollabInv'
  BY IdleTyped, CallMoves, CallIs DEF End, CollabInv, CollabTypeOK

\* A step that leaves file, calls and clock alone, and the claims as good as they were.
LEMMA TablesMove ==
  ASSUME CollabInv, UNCHANGED <<file, unreadable, request, moment, begins>>,
         table' \in [Servers -> [Keys -> SUBSET Entry]], claimed' \subseteq claimed,
         ClaimsHold'
  PROVE  CollabInv'
  BY DEF CollabInv, CollabTypeOK

LEMMA EditKeeps ==
  ASSUME CollabInv, NEW s \in Servers, NEW k \in Keys, NEW h \in BOOLEAN, Edit(s, k, h)
  PROVE  CollabInv'
<1> DEFINE left == [j \in Keys |-> {e \in table[s][j] : e.until > moment}]
           mine == [human |-> h, until |-> moment + EditTtl]
<1>1. CollabTypeOK /\ ClaimsHold /\ table \in [Servers -> [Keys -> SUBSET Entry]]
  BY DEF CollabInv, CollabTypeOK
<1>2. mine \in Entry
  BY <1>1, Numbers DEF Entry
<1>3. left \in [Keys -> SUBSET Entry] /\ \A j \in Keys : left[j] = {e \in table[s][j] : e.until > moment}
  BY <1>1
<1>4. table' = [table EXCEPT ![s] = [left EXCEPT ![k] = {mine}]]
  BY DEF Edit
<1>5. (\E e \in left[k] : e.human) => h
  BY DEF Edit
<1> HIDE DEF left, mine
<1>6. [left EXCEPT ![k] = {mine}] \in [Keys -> SUBSET Entry]
  BY <1>2, <1>3
<1>7. table' \in [Servers -> [Keys -> SUBSET Entry]]
  BY <1>1, <1>4, <1>6
<1>8. /\ \A t \in Servers \ {s} : table'[t] = table[t]
      /\ \A j \in Keys \ {k} : table'[s][j] = left[j]
  BY <1>1, <1>3, <1>4
<1>9. claimed' = IF h THEN {x \in claimed : ~(x[1] = s /\ x[2].key = k)} ELSE claimed
  BY DEF Edit
<1>10. ClaimsHold'
  <2> SUFFICES ASSUME NEW x \in claimed', (x[2].until > moment)'
               PROVE  \E e \in table'[x[1]][x[2].key] : e.human /\ e.until >= x[2].until
    BY DEF ClaimsHold
  <2>1. x \in claimed /\ x[1] \in Servers /\ x[2].key \in Keys /\ x[2].until \in Nat /\ moment' = moment
        /\ moment \in Nat /\ x[2].until > moment
    BY <1>1, <1>9, Numbers DEF Edit
  <2>2. PICK e \in table[x[1]][x[2].key] : e.human /\ e.until >= x[2].until
    BY <1>1, <2>1 DEF ClaimsHold
  <2>3. e.until \in Nat
    BY <1>1, <2>1, <2>2, Numbers
  <2>4. x[1] = s => e \in left[x[2].key]
    BY <1>3, <2>1, <2>2, <2>3
  <2>5. ~(x[1] = s /\ x[2].key = k)
    BY <1>5, <1>9, <2>2, <2>4
  <2>6. e \in table'[x[1]][x[2].key]
    BY <1>8, <2>1, <2>2, <2>4, <2>5
  <2> QED BY <2>2, <2>6
<1>11. UNCHANGED <<file, unreadable, request, moment, begins>> /\ claimed' \subseteq claimed
  BY <1>9 DEF Edit
<1> QED BY <1>7, <1>10, <1>11, TablesMove

LEMMA EditRefusedKeeps ==
  ASSUME CollabInv, NEW s \in Servers, NEW k \in Keys, EditRefused(s, k)
  PROVE  CollabInv'
<1> DEFINE left == [j \in Keys |-> {e \in table[s][j] : e.until > moment}]
<1>1. CollabTypeOK /\ ClaimsHold /\ table \in [Servers -> [Keys -> SUBSET Entry]]
  BY DEF CollabInv, CollabTypeOK
<1>2. left \in [Keys -> SUBSET Entry] /\ \A j \in Keys : left[j] = {e \in table[s][j] : e.until > moment}
  BY <1>1
<1>3. table' = [table EXCEPT ![s] = left]
  BY DEF EditRefused
<1> HIDE DEF left
<1>4. table' \in [Servers -> [Keys -> SUBSET Entry]] /\ table'[s] = left
      /\ \A t \in Servers \ {s} : table'[t] = table[t]
  BY <1>1, <1>2, <1>3
<1>5. UNCHANGED <<file, unreadable, request, moment, begins, claimed>>
  BY DEF EditRefused
<1>6. ClaimsHold'
  <2> SUFFICES ASSUME NEW x \in claimed, x[2].until > moment
               PROVE  \E e \in table'[x[1]][x[2].key] : e.human /\ e.until >= x[2].until
    BY <1>5 DEF ClaimsHold
  <2>1. x[1] \in Servers /\ x[2].key \in Keys /\ x[2].until \in Nat /\ moment \in Nat
    BY <1>1, Numbers
  <2>2. PICK e \in table[x[1]][x[2].key] : e.human /\ e.until >= x[2].until
    BY <1>1 DEF ClaimsHold
  <2>3. e.until \in Nat
    BY <1>1, <2>1, <2>2, Numbers
  <2>4. e \in table'[x[1]][x[2].key]
    BY <1>2, <1>4, <2>1, <2>2, <2>3
  <2> QED BY <2>2, <2>4
<1> QED BY <1>4, <1>5, <1>6, TablesMove

LEMMA TabledKeeps == ASSUME CollabInv, NEW c \in Slots, Tabled(c) PROVE CollabInv'
<1> DEFINE r == request[c]
           mine == [key |-> r.key, by |-> r.who, until |-> moment + Ttl]
           left == IF r.kind = "claim" THEN {[human |-> TRUE, until |-> moment + Ttl]} ELSE {}
<1>1. CollabTypeOK /\ ClaimsHold /\ table \in [Servers -> [Keys -> SUBSET Entry]]
      /\ claimed \subseteq (Servers \X Lock)
  BY DEF CollabInv, CollabTypeOK
<1>2. GoodCall(r, file, moment) /\ r \in Request /\ r.srv \in Servers /\ r.key \in Keys
  BY DEF CollabInv, GoodCall, Request
<1>3. r.kind = "claim" => mine \in Lock /\ mine.key = r.key /\ mine.until = moment + Ttl
  BY <1>1, <1>2, Numbers DEF GoodCall, SoundCall, Lock
<1>4. left \in SUBSET Entry
  BY <1>1, Numbers DEF Entry
<1>5. table' = [table EXCEPT ![r.srv][r.key] = left]
  BY DEF Tabled
<1>6. claimed' = {x \in claimed : ~(x[1] = r.srv /\ x[2].key = r.key)}
                   \cup (IF r.kind = "claim" THEN {<<r.srv, mine>>} ELSE {})
  BY DEF Tabled
<1>7. UNCHANGED <<file, unreadable, moment, begins>> /\ End(c)
  BY DEF Tabled
<1>8. r.kind = "claim" => \E e \in left : e.human /\ e.until = moment + Ttl
  OBVIOUS
<1> HIDE DEF left, mine, r
<1>9. /\ table' \in [Servers -> [Keys -> SUBSET Entry]] /\ table'[r.srv][r.key] = left
      /\ \A s \in Servers, k \in Keys : s # r.srv \/ k # r.key => table'[s][k] = table[s][k]
  BY <1>1, <1>2, <1>4, <1>5
<1>10. claimed' \subseteq (Servers \X Lock)
  BY <1>1, <1>2, <1>3, <1>6
<1>11. ClaimsHold'
  <2> SUFFICES ASSUME NEW x \in claimed', x[2].until > moment
               PROVE  \E e \in table'[x[1]][x[2].key] : e.human /\ e.until >= x[2].until
    BY <1>7 DEF ClaimsHold
  <2>1. CASE x \in claimed /\ ~(x[1] = r.srv /\ x[2].key = r.key)
    <3>1. x[1] \in Servers /\ x[2].key \in Keys
      BY <1>1, <2>1, Numbers
    <3> QED BY <1>1, <1>9, <2>1, <3>1 DEF ClaimsHold
  <2>2. CASE r.kind = "claim" /\ x = <<r.srv, mine>>
    <3>1. x[1] = r.srv /\ x[2] = mine /\ moment + Ttl \in Nat
      BY <2>2, <1>1, Numbers
    <3> QED BY <1>3, <1>8, <1>9, <2>2, <3>1
  <2> QED BY <1>6, <2>1, <2>2
<1>12. request' \in [Slots -> Request] /\ \A d \in Slots : GoodCall(request'[d], file, moment)
  BY <1>7, IdleTyped, CallIs DEF End, CollabInv
<1>13. CollabTypeOK'
  BY <1>1, <1>7, <1>9, <1>10, <1>12 DEF CollabTypeOK, GoodCall
<1> QED BY <1>7, <1>11, <1>12, <1>13 DEF CollabInv

LEMMA TimePassesKeeps == ASSUME CollabInv, TimePasses PROVE CollabInv'
<1>1. moment \in Nat /\ moment' \in Nat /\ moment <= moment' /\ moment' \in 0..MaxTime
  BY Numbers DEF TimePasses, CollabInv
<1>2. UNCHANGED <<file, unreadable, table, request, begins, claimed>>
  BY DEF TimePasses
<1>3. \A c \in Slots : GoodCall(request[c], file, moment')
  BY <1>1, CoversOn DEF CollabInv, CollabTypeOK
<1>4. CollabTypeOK'
  BY <1>1, <1>2 DEF CollabInv, CollabTypeOK
<1>5. ClaimsHold'
  <2> SUFFICES ASSUME NEW x \in claimed, x[2].until > moment' PROVE x[2].until > moment
    BY <1>2 DEF ClaimsHold, CollabInv
  <2> QED BY <1>1, Numbers DEF CollabInv
<1> QED BY <1>2, <1>3, <1>4, <1>5 DEF CollabInv

LEMMA RestartKeeps == ASSUME CollabInv, NEW s \in Servers, Restart(s) PROVE CollabInv'
<1> USE DEF Restart
<1>1. CollabTypeOK /\ ClaimsHold /\ \A c \in Slots : GoodCall(request[c], file, moment)
  BY DEF CollabInv
<1>2. \A c \in Slots : request'[c] = request[c] \/ request'[c] = Idle
  OBVIOUS
<1>3. \A c \in Slots : GoodCall(request'[c], file, moment)
  BY <1>1, <1>2, IdleTyped
<1>4. request' \in [Slots -> Request]
  BY <1>3 DEF GoodCall
<1>5. /\ table' \in [Servers -> [Keys -> SUBSET Entry]]
      /\ \A t \in Servers \ {s} : table'[t] = table[t]
  BY <1>1 DEF CollabTypeOK
<1>6. CollabTypeOK'
  BY <1>1, <1>3, <1>4, <1>5 DEF CollabTypeOK, GoodCall
<1>7. ClaimsHold'
  BY <1>1, <1>5, Numbers DEF ClaimsHold
<1> QED BY <1>3, <1>6, <1>7 DEF CollabInv

\* The write itself: whoever else is about to write is behind from now on.
LEMMA WriteFileKeeps == ASSUME CollabInv, NEW c \in Slots, WriteFile(c) PROVE CollabInv'
<1> DEFINE r == request[c]
           next == [r EXCEPT !.pc = "table", !.copy = NoFile, !.behind = FALSE, !.mixed = FALSE]
<1>1. CollabTypeOK /\ ClaimsHold /\ r \in Request /\ SoundCall(r) /\ r.pc = "write"
      /\ \A d \in Slots : GoodCall(request[d], file, moment)
  BY DEF CollabInv, GoodCall, WriteFile, At
<1>2. file' = r.copy /\ file' \in File /\ SoundFile(file')
  BY <1>1 DEF WriteFile, SoundCall, Request
<1>3. unreadable' \in BOOLEAN /\ UNCHANGED <<table, moment, begins, claimed>>
  BY DEF WriteFile
<1>4. request'[c] = IF r.kind = "bind" THEN Idle ELSE next
  BY DEF WriteFile
<1>5. r.kind # "bind" => GoodCall(next, file', moment)
  <2> SUFFICES ASSUME r.kind # "bind" PROVE GoodCall(next, file', moment)
    OBVIOUS
  <2>1. /\ next \in Request /\ next.pc = "table" /\ next.copy = NoFile /\ next.kind = r.kind
        /\ next.who = r.who
    BY <1>1, NoFileTyped DEF Request, PCs
  <2> HIDE DEF next
  <2> QED BY <1>1, <2>1, NoFileTyped DEF GoodCall, SoundCall, Covers
<1>6. ASSUME NEW d \in Slots, d # c PROVE GoodCall(request'[d], file', moment)
  <2> DEFINE q == request[d]
             p == [q EXCEPT !.behind = @ \/ q.pc \in {"empty", "write"}, !.mixed = @ \/ q.pc = "write"]
  <2>1. q \in Request /\ GoodCall(q, file, moment)
    BY <1>1 DEF GoodCall
  <2>2. request'[d] = p
    BY <1>6 DEF WriteFile
  <2>3. (q.behind \/ q.pc \in {"empty", "write"}) \in BOOLEAN /\ (q.mixed \/ q.pc = "write") \in BOOLEAN
    OBVIOUS
  <2>4. /\ p \in Request /\ p.pc = q.pc /\ p.copy = q.copy /\ p.kind = q.kind /\ p.who = q.who
        /\ p.target = q.target /\ p.role = q.role /\ p.human = q.human /\ p.how = q.how
        /\ p.behind = (q.behind \/ q.pc \in {"empty", "write"})
    BY <2>1, <2>3 DEF Request
  <2> HIDE DEF p, q
  <2> QED BY <2>1, <2>2, <2>4 DEF GoodCall, SoundCall, Covers, Vouched
<1>7. \A d \in Slots : GoodCall(request'[d], file', moment)
  BY <1>4, <1>5, <1>6, IdleTyped
<1>8. request' \in [Slots -> Request]
  BY <1>7 DEF GoodCall, WriteFile
<1>9. CollabTypeOK'
  BY <1>1, <1>2, <1>3, <1>7, <1>8 DEF CollabTypeOK, GoodCall
<1> QED BY <1>1, <1>2, <1>3, <1>7, <1>9 DEF CollabInv, ClaimsHold
-----------------------------------------------------------------------------
LEMMA CollabSteps == ASSUME CollabInv, [CollabNext]_collabVars PROVE CollabInv'
<1>1. CASE UNCHANGED collabVars
  BY <1>1 DEF collabVars, CollabInv, CollabTypeOK, ClaimsHold
<1>2. ASSUME NEW c \in Slots, GiveUp(c) \/ BindRefused(c) PROVE CollabInv'
  BY <1>2, EndKeeps DEF GiveUp, BindRefused
<1> QED BY <1>1, <1>2, BeginBindKeeps, CheckBindKeeps, BeginOverrideKeeps, LoadFileKeeps, EmptyFileKeeps,
         WriteFileKeeps, TabledKeeps, EditKeeps, EditRefusedKeeps, TimePassesKeeps, RestartKeeps DEF CollabNext

\* Only the write of a call itself takes it from "write" to its end.
LEMMA LossIsOverlap ==
  ASSUME CollabInv, [CollabNext]_collabVars, NEW c \in Slots, At(c, "write"),
         request'[c].pc \in {"idle", "table"}, file' # file, ~request[c].behind
  PROVE  /\ file.bound \subseteq file'.bound
         /\ \A l \in file.locks : l.until > moment => TakesOut(request[c], l) \/ l \in file'.locks
<1>1. ASSUME NEW d \in Slots, WriteFile(d) PROVE d = c
  <2> SUFFICES ASSUME d # c PROVE FALSE
    OBVIOUS
  <2>1. request'[c].pc = request[c].pc
    BY <1>1 DEF WriteFile, CollabInv, GoodCall, Request
  <2> QED BY <2>1 DEF At
<1>2. \E d \in Slots : WriteFile(d)
  <2>1. ASSUME NEW d \in Slots, BeginBind(d) \/ BeginOverride(d) PROVE file' = file
    BY <2>1 DEF BeginBind, BeginOverride
  <2>2. ASSUME NEW d \in Slots, CheckBind(d) \/ LoadFile(d) \/ EmptyFile(d) \/ GiveUp(d) \/ BindRefused(d) \/ Tabled(d)
        PROVE  file' = file
    BY <2>2 DEF CheckBind, LoadFile, EmptyFile, GiveUp, BindRefused, Tabled
  <2>3. ASSUME NEW s \in Servers, NEW k \in Keys, NEW h \in BOOLEAN, Edit(s, k, h) \/ EditRefused(s, k)
        PROVE  file' = file
    BY <2>3 DEF Edit, EditRefused
  <2>4. ASSUME NEW s \in Servers, Restart(s) PROVE file' = file
    BY <2>4 DEF Restart
  <2>5. TimePasses => file' = file
    BY DEF TimePasses
  <2>6. UNCHANGED collabVars => file' = file
    BY DEF collabVars
  <2> QED BY <2>1, <2>2, <2>3, <2>4, <2>5, <2>6 DEF CollabNext
<1>3. file' = request[c].copy
  BY <1>1, <1>2 DEF WriteFile
<1> QED BY <1>3 DEF CollabInv, GoodCall, Covers, At

\* The file of participants and the lock tables of the servers (collab.rs,
\* context.rs): for any number of persons, servers, calls and keys, a key is claimed
\* once, bindings are vouched for, acknowledged claims hold, and a write takes out
\* something that is not its own only if another call wrote after its load.
THEOREM CollabSafe == CollabSpec => CollabKeeps
<1>1. CollabInv /\ [CollabNext]_collabVars => CollabInv'
  BY CollabSteps
<1>2. CollabInv => CollabTypeOK /\ OneClaimPerKey /\ OwnersVouch /\ ClaimsHold
  BY DEF CollabInv, SoundFile, Vouched, OneClaimPerKey, OwnersVouch
<1>3. CollabInv /\ [CollabNext]_collabVars =>
        [\A c \in Slots :
           LET r == request[c]
               Own(l) == l.key = r.key /\ r.kind # "bind" /\ (r.kind = "release" => l.by = r.who)
           IN  At(c, "write") /\ request'[c].pc \in {"idle", "table"} /\ file' # file /\ ~r.behind
               => /\ file.bound \subseteq file'.bound
                    /\ \A l \in file.locks : l.until > moment => Own(l) \/ l \in file'.locks]_collabVars
  BY LossIsOverlap DEF TakesOut
<1> QED BY <1>1, <1>2, <1>3, CollabStarts, PTL DEF CollabSpec, CollabKeeps, LostOnlyToOverlap

-----------------------------------------------------------------------------
(* Variants                                                                *)

\* What a call holds: a record that was there, a plan set with room, a new id.
KnownCall(c) == LET k == running[c] IN k # NoCall =>
  /\ k.kind \in RecordKinds => k.rec.live /\ k.rec.set \in Sets /\ k.rec.set \in used /\ k.v \in used
  /\ k.kind = "promote" => k.rec.status \in {"Reviewed", "Approved"}
  /\ k.kind = "create_variant" =>
       /\ k.set \in Sets /\ k.set \in used /\ k.v \in used
       /\ IsFiniteSet(k.list) /\ Cardinality(k.list) < MaxVars
  /\ k.kind = "create_set" => k.set \in Sets /\ k.set \in used
\* Ids that were given out.
IdsUsed ==
  /\ \A s \in Sets : planset[s].live => s \in used
  /\ \A v \in Vars : variant[v].live => v \in used /\ variant[v].set \in Sets /\ variant[v].set \in used
  /\ \A r \in acknowledged : r[1] \in used
\* Nothing knows of a plan set, or of a variant, before the call that creates it ends.
NewSet(c) == LET s == running[c].set IN Doing(c, "create_set") =>
  /\ ~planset[s].live
  /\ \A v \in Vars : variant[v].live => variant[v].set # s
  /\ \A d \in Users \ {c} : running[d] # NoCall =>
       /\ running[d].kind \in RecordKinds => running[d].rec.set # s
       /\ running[d].kind \in {"create_variant", "create_set"} => running[d].set # s
NewVariant(c) == LET v == running[c].v IN Doing(c, "create_variant") =>
  /\ ~variant[v].live
  /\ \A r \in acknowledged : r[1] # v
  /\ \A d \in Users \ {c} : running[d] # NoCall =>
       (running[d].kind \in RecordKinds \cup {"create_variant"} => running[d].v # v)
\* Calls on one record, or creations in one plan set, muddle it.
Apart(c, d) == running[c] # NoCall /\ running[d] # NoCall =>
  /\ running[c].kind \in RecordKinds /\ running[d].kind \in RecordKinds /\ running[c].v = running[d].v
       => running[c].v \in muddled
  /\ running[c].kind = "create_variant" /\ running[d].kind = "create_variant" /\ running[c].set = running[d].set
       => running[c].set \in muddled
\* Otherwise what a call loaded is what is stored.
AsLoaded(c) == LET k == running[c] IN k # NoCall =>
  /\ k.kind \in RecordKinds => k.v \in muddled \/ k.rec = variant[k.v]
  /\ k.kind = "create_variant" =>
       k.set \in muddled \/ (planset[k.set].live /\ planset[k.set].list = k.list)
\* The workspace that a simulation works in is its own, and nobody promoted it.
OwnCopy(c) == LET v == running[c].v IN Doing(c, "simulate") /\ v \notin muddled =>
  /\ ws[v] # 0 /\ ws[v] = latest[v] /\ ws[v] \in bad
  /\ \A p \in promoted : p.of = v => p.held # ws[v]
\* Every content comes of a simulation of one variant.
OwnedBy(o) ==
  /\ \A v \in Vars : ws[v] # 0 => ws[v] \in 1..sims /\ o[ws[v]] = v
  /\ \A v \in Vars : latest[v] # 0 => latest[v] \in 1..sims /\ o[latest[v]] = v
  /\ \A p \in promoted : p.held \in 1..sims /\ o[p.held] = p.of
Owned == bad \subseteq 1..sims /\ \E o \in [1..MaxSims -> Vars] : OwnedBy(o)
\* A reviewed variant has the content that the review looked at, or an unfinished one.
ReviewedContent(v) ==
  v \notin muddled /\ variant[v].status \in {"Reviewed", "Approved"} /\ ws[v] # 0 =>
    Told(look[v], ws[v]) \/ ws[v] \in bad
\* A comparison is of the last simulation, if it was made since that, or of an older one.
ComparedKnown(v) ==
  /\ ws[v] \in {0, latest[v]} /\ compared[v] <= latest[v]
  /\ v \in fresh /\ ws[v] # 0 => compared[v] = latest[v]
ListsBounded == \A s \in Sets :
  planset[s].at <= now /\ IsFiniteSet(planset[s].list) /\ Cardinality(planset[s].list) <= MaxVars


\* What is stored, and what was done.
RecordsInv ==
  /\ IdsUsed /\ Owned /\ ListsBounded
  /\ \A v \in Vars : ReviewedContent(v) /\ ComparedKnown(v)
  /\ PromotesWhatWasReviewed /\ ReviewsKept /\ SetsListTheirVariants /\ SimulatedHasWorkspace
\* The calls that run, against what is stored.
CallsInv ==
  /\ \A c \in Users : KnownCall(c) /\ NewSet(c) /\ NewVariant(c) /\ AsLoaded(c) /\ OwnCopy(c)
  /\ \A c \in Users : \A d \in Users \ {c} : Apart(c, d)
VariantsInv == VariantsTypeOK /\ RecordsInv /\ CallsInv

\* What retention leaves of each plan set, and of each variant.
Fate(c, ps, rec, w) ==
  /\ planset' \in [Sets -> PlanSet] /\ variant' \in [Vars -> Record] /\ ws' \in [Vars -> Content]
  /\ compared' \in [Vars -> Content] /\ fresh' \subseteq fresh
  /\ \A v \in Vars : compared'[v] = compared[v] \/ (compared'[v] = 0 /\ v \notin fresh')
  /\ muddled \subseteq muddled' /\ muddled' \subseteq Sets \cup Vars
  /\ \A s \in Sets :
       \/ planset'[s] = ps[s] /\ s \notin OldSets(ps)
       \/ planset'[s] = NoPlanSet /\ s \in OldSets(ps) /\ (InUse(c, s) => s \in muddled')
  /\ \A v \in Vars :
       \/ variant'[v] = rec[v] /\ ws'[v] = w[v] /\ rec[v].set \notin OldSets(ps)
       \/ /\ variant'[v] = Unsimulated(rec[v]) /\ ws'[v] = 0 /\ rec[v].set \notin OldSets(ps)
          /\ rec[v].live /\ (InUse(c, v) => v \in muddled')
       \/ /\ variant'[v] = NoRecord /\ ws'[v] = 0 /\ rec[v].set \in OldSets(ps)
          /\ (InUse(c, v) => v \in muddled')

LEMMA NewRecordType == NoRecord \in Record
  BY VariantsAssumption DEF NoRecord, Record, VariantStatus, Content

LEMMA RemovedIsNone ==
  ASSUME NEW r \in Record PROVE Removed(r) = NoRecord /\ NoRecord \in Record
<1>1. NoRecord \in Record
  BY NewRecordType
<1> DEFINE q == Removed(r)
<1>2. q \in [live : BOOLEAN, set : Sets \cup {NoSet}, status : VariantStatus, snap : Content,
             reviews : SUBSET (1..MaxReviews)]
  <2>1. "Draft" \in VariantStatus /\ 0 \in Content
    BY VariantsAssumption DEF VariantStatus, Content
  <2>2. r \in [live : BOOLEAN, set : Sets \cup {NoSet}, status : VariantStatus, snap : Content,
               reviews : SUBSET (1..MaxReviews)]
    BY DEF Record
  <2> QED BY <2>1, <2>2 DEF Removed
<1>3. q.live = FALSE /\ q.set = NoSet /\ q.status = "Draft" /\ q.snap = 0 /\ q.reviews = {}
  BY DEF Removed, Record
<1> HIDE DEF q
<1>4. q = NoRecord
  BY <1>2, <1>3 DEF NoRecord
<1> QED BY <1>1, <1>4 DEF q

LEMMA UnsimulatedKeeps ==
  ASSUME NEW r \in Record
  PROVE  /\ Unsimulated(r) \in Record /\ Unsimulated(r).live = r.live /\ Unsimulated(r).set = r.set
         /\ Unsimulated(r).reviews = r.reviews /\ Unsimulated(r).status # "Simulated"
         /\ Unsimulated(r).status = r.status \/ Unsimulated(r).status = "Draft"
<1> DEFINE st == IF r.status = "Simulated" THEN "Draft" ELSE r.status
<1>1. st \in VariantStatus /\ st # "Simulated" /\ (st = r.status \/ st = "Draft") /\ 0 \in Content
  BY VariantsAssumption DEF Record, VariantStatus, Content
<1> DEFINE q == [r EXCEPT !.snap = 0, !.status = st]
<1>2. Unsimulated(r) = q
  BY DEF Unsimulated
<1> HIDE DEF st
<1>3. q \in Record /\ q.live = r.live /\ q.set = r.set /\ q.reviews = r.reviews /\ q.status = st
  BY <1>1 DEF Record
<1> HIDE DEF q
<1> QED BY <1>1, <1>2, <1>3

LEMMA RetentionDecides ==
  ASSUME NEW c, NEW ps \in [Sets -> PlanSet], NEW rec \in [Vars -> Record], NEW w \in [Vars -> Content],
         muddled \subseteq Sets \cup Vars, compared \in [Vars -> Content], fresh \subseteq Vars,
         Retain(c, ps, rec, w)
  PROVE  Fate(c, ps, rec, w)
<1> DEFINE old  == OldSets(ps)
           gone == {v \in Vars : rec[v].set \in old}
           kept == [v \in Vars |-> IF v \in gone THEN Removed(rec[v]) ELSE rec[v]]
           left == [v \in Vars |-> IF v \in gone THEN 0 ELSE w[v]]
<1>1. PICK S \in Surplus(kept, left) :
        /\ planset' = [s \in Sets |-> IF s \in old THEN NoPlanSet ELSE ps[s]]
        /\ variant' = [v \in Vars |-> IF v \in S THEN Unsimulated(kept[v]) ELSE kept[v]]
        /\ ws' = [v \in Vars |-> IF v \in S THEN 0 ELSE left[v]]
        /\ compared' = [v \in Vars |-> IF v \in gone THEN 0 ELSE compared[v]] /\ fresh' = fresh \ gone
        /\ muddled' = muddled \cup {s \in old : InUse(c, s)}
                         \cup {v \in Vars : InUse(c, v) /\ v \in S \cup gone}
  BY DEF Retain
<1>2. old \subseteq Sets
  BY DEF OldSets, LiveSets
<1>3. \A v \in S : v \in Vars /\ kept[v].live /\ left[v] # 0
  BY DEF Surplus
<1> HIDE DEF old
<1>4. NoPlanSet \in PlanSet /\ 0 \in Content
  BY VariantsAssumption DEF NoPlanSet, PlanSet, Content
<1>5. \A v \in Vars : kept[v] \in Record /\ left[v] \in Content
  BY <1>4, RemovedIsNone
<1>6. \A v \in Vars : rec[v].set \in old => kept[v] = NoRecord /\ left[v] = 0 /\ v \notin S
  <2> SUFFICES ASSUME NEW v \in Vars, rec[v].set \in old PROVE kept[v] = NoRecord /\ left[v] = 0 /\ v \notin S
    OBVIOUS
  <2>1. kept[v] = NoRecord /\ left[v] = 0
    BY RemovedIsNone
  <2> QED BY <2>1, <1>3
<1>7. \A v \in Vars : rec[v].set \notin old => kept[v] = rec[v] /\ left[v] = w[v]
  OBVIOUS
<1> HIDE DEF kept, left
<1>8. planset' \in [Sets -> PlanSet] /\ variant' \in [Vars -> Record] /\ ws' \in [Vars -> Content]
  BY <1>1, <1>4, <1>5, UnsimulatedKeeps
<1>9. muddled \subseteq muddled' /\ muddled' \subseteq Sets \cup Vars
  BY <1>1, <1>2
<1>12. /\ compared' \in [Vars -> Content] /\ fresh' \subseteq fresh
       /\ \A v \in Vars : compared'[v] = compared[v] \/ (compared'[v] = 0 /\ v \notin fresh')
  BY <1>1, <1>4
<1>10. ASSUME NEW s \in Sets
       PROVE  \/ planset'[s] = ps[s] /\ s \notin old
              \/ planset'[s] = NoPlanSet /\ s \in old /\ (InUse(c, s) => s \in muddled')
  BY <1>1
<1>11. ASSUME NEW v \in Vars
       PROVE \/ variant'[v] = rec[v] /\ ws'[v] = w[v] /\ rec[v].set \notin old
             \/ /\ variant'[v] = Unsimulated(rec[v]) /\ ws'[v] = 0 /\ rec[v].set \notin old
                /\ rec[v].live /\ (InUse(c, v) => v \in muddled')
             \/ /\ variant'[v] = NoRecord /\ ws'[v] = 0 /\ rec[v].set \in old
                /\ (InUse(c, v) => v \in muddled')
  <2>1. variant'[v] = IF v \in S THEN Unsimulated(kept[v]) ELSE kept[v]
    BY <1>1
  <2>2. ws'[v] = IF v \in S THEN 0 ELSE left[v]
    BY <1>1
  <2>3. InUse(c, v) /\ (v \in S \/ rec[v].set \in old) => v \in muddled'
    BY <1>1
  <2> QED BY <2>1, <2>2, <2>3, <1>3, <1>6, <1>7
<1> QED BY <1>8, <1>9, <1>10, <1>11, <1>12 DEF Fate, old

-----------------------------------------------------------------------------
\* A call that only loads, and a call that fails, change nothing that is stored.
Still ==
  /\ UNCHANGED <<planset, variant, ws, compared, sims, bad, latest, fresh, look, acknowledged, promoted>>
  /\ now' \in Nat /\ now <= now' /\ muddled \subseteq muddled' /\ used \subseteq used'

LEMMA StillKeeps == VariantsTypeOK /\ RecordsInv /\ Still => RecordsInv'
<1> SUFFICES ASSUME VariantsTypeOK, RecordsInv, Still PROVE RecordsInv'
  OBVIOUS
<1> USE DEF RecordsInv
<1>0. muddled \subseteq muddled' /\ used \subseteq used' /\ now \in Nat /\ now <= now' /\ now' \in Nat
  BY VariantsAssumption DEF Still, VariantsTypeOK
<1>00. /\ planset' = planset /\ variant' = variant /\ ws' = ws /\ sims' = sims /\ bad' = bad
       /\ compared' = compared /\ fresh' = fresh
       /\ latest' = latest /\ look' = look /\ acknowledged' = acknowledged /\ promoted' = promoted
  BY DEF Still
<1>1. IdsUsed'
  BY <1>0, <1>00 DEF IdsUsed
<1>2. Owned'
  BY <1>00 DEF Owned, OwnedBy
<1>3. ListsBounded'
  <2>1. ASSUME NEW s \in Sets PROVE planset[s].at \in Nat
    BY VariantsAssumption DEF VariantsTypeOK, PlanSet
  <2>2. ASSUME NEW s \in Sets PROVE planset[s].at <= now'
    BY <2>1, <1>0 DEF ListsBounded
  <2> QED BY <2>2, <1>00 DEF ListsBounded
<1>4. ASSUME NEW v \in Vars PROVE ReviewedContent(v)' /\ ComparedKnown(v)'
  BY <1>0, <1>00 DEF ReviewedContent, ComparedKnown
<1>5. PromotesWhatWasReviewed'
  BY <1>0, <1>00 DEF PromotesWhatWasReviewed
<1>6. ReviewsKept'
  BY <1>0, <1>00 DEF ReviewsKept
<1>7. SetsListTheirVariants'
  BY <1>0, <1>00 DEF SetsListTheirVariants
<1>8. SimulatedHasWorkspace'
  BY <1>0, <1>00 DEF SimulatedHasWorkspace
<1> QED BY <1>1, <1>2, <1>3, <1>4, <1>5, <1>6, <1>7, <1>8

-----------------------------------------------------------------------------
\* What a step leaves to the calls that go on.
StillNewSet(d) == LET s == running[d].set IN Doing(d, "create_set") =>
  ~planset'[s].live /\ \A v \in Vars : variant'[v].live => variant'[v].set # s
StillNewVariant(d) == LET v == running[d].v IN Doing(d, "create_variant") =>
  ~variant'[v].live /\ \A r \in acknowledged' : r[1] # v
StillAsLoaded(d) == LET k == running[d] IN k # NoCall =>
  /\ k.kind \in RecordKinds => k.v \in muddled' \/ k.rec = variant'[k.v]
  /\ k.kind = "create_variant" =>
       k.set \in muddled' \/ (planset'[k.set].live /\ planset'[k.set].list = k.list)
StillOwnCopy(d) == LET v == running[d].v IN Doing(d, "simulate") /\ v \notin muddled' =>
  /\ ws'[v] # 0 /\ ws'[v] = latest'[v] /\ ws'[v] \in bad'
  /\ \A p \in promoted' : p.of = v => p.held # ws'[v]
StillCall(d) == StillNewSet(d) /\ StillNewVariant(d) /\ StillAsLoaded(d) /\ StillOwnCopy(d)
GoesOn(d) ==
  /\ running[d] # NoCall /\ running'[d].kind = running[d].kind /\ running'[d].set = running[d].set
  /\ running'[d].v = running[d].v /\ running'[d].rec = running[d].rec /\ running'[d].list = running[d].list

LEMMA EndsKeepCalls ==
  ASSUME VariantsTypeOK, CallsInv, used \subseteq used', muddled \subseteq muddled',
         \A d \in Users : running'[d] = NoCall \/ (GoesOn(d) /\ StillCall(d))
  PROVE  CallsInv'
<1>1. ASSUME NEW c \in Users
      PROVE  (KnownCall(c) /\ NewSet(c) /\ NewVariant(c) /\ AsLoaded(c) /\ OwnCopy(c))'
  <2>0. CASE running'[c] = NoCall
    BY <2>0 DEF KnownCall, NewSet, NewVariant, AsLoaded, OwnCopy, Doing
  <2>1. CASE GoesOn(c) /\ StillCall(c)
    <3>0. KnownCall(c) /\ NewSet(c) /\ NewVariant(c)
      BY DEF CallsInv
    <3>1. KnownCall(c)'
      BY <2>1, <3>0 DEF KnownCall, GoesOn
    <3>2. \A d \in Users : running'[d] = NoCall \/ GoesOn(d)
      OBVIOUS
    <3>3. NewSet(c)'
      BY <2>1, <3>0, <3>2 DEF NewSet, GoesOn, StillCall, StillNewSet, Doing
    <3>4. NewVariant(c)'
      BY <2>1, <3>0, <3>2 DEF NewVariant, GoesOn, StillCall, StillNewVariant, Doing
    <3>5. AsLoaded(c)'
      BY <2>1 DEF AsLoaded, GoesOn, StillCall, StillAsLoaded
    <3>6. OwnCopy(c)'
      BY <2>1 DEF OwnCopy, GoesOn, StillCall, StillOwnCopy, Doing
    <3> QED BY <3>1, <3>3, <3>4, <3>5, <3>6
  <2> QED BY <2>0, <2>1
<1>2. ASSUME NEW c \in Users, NEW d \in Users \ {c} PROVE Apart(c, d)'
  <2>1. Apart(c, d)
    BY DEF CallsInv
  <2>2. running'[c] = NoCall \/ GoesOn(c)
    OBVIOUS
  <2>3. running'[d] = NoCall \/ GoesOn(d)
    OBVIOUS
  <2> QED BY <2>1, <2>2, <2>3 DEF Apart, GoesOn
<1> QED BY <1>1, <1>2 DEF CallsInv

\* A call begins that meets no creation of what it works on.
Meets(begun, d) ==
  /\ Doing(d, "create_set") =>
       /\ begun.kind \in RecordKinds => begun.rec.set # running[d].set
       /\ begun.kind \in {"create_variant", "create_set"} => begun.set # running[d].set
  /\ Doing(d, "create_variant") =>
       (begun.kind \in RecordKinds \cup {"create_variant"} => begun.v # running[d].v)

LEMMA BeginsKeepCalls ==
  ASSUME NEW c \in Users, NEW begun, VariantsTypeOK, CallsInv, Starts(c, begun), used \subseteq used',
         \A d \in Users \ {c} : StillCall(d) /\ Meets(begun, d),
         KnownCall(c)', NewSet(c)', NewVariant(c)', AsLoaded(c)', OwnCopy(c)'
  PROVE  CallsInv'
<1>1. running'[c] = begun /\ (\A d \in Users \ {c} : running'[d] = running[d]) /\ muddled \subseteq muddled'
  BY DEF Starts, VariantsTypeOK
<1>2. Together(c, begun) =>
        (IF begun.kind = "create_variant" THEN begun.set ELSE begun.v) \in muddled'
  BY DEF Starts
<1>3. ASSUME NEW d \in Users \ {c}
      PROVE  (KnownCall(d) /\ NewSet(d) /\ NewVariant(d) /\ AsLoaded(d) /\ OwnCopy(d))'
  <2>0. KnownCall(d) /\ NewSet(d) /\ NewVariant(d) /\ StillCall(d) /\ Meets(begun, d) /\ running'[d] = running[d]
    BY <1>1 DEF CallsInv
  <2>1. KnownCall(d)'
    BY <2>0 DEF KnownCall
  <2>2. NewSet(d)'
    BY <2>0, <1>1 DEF NewSet, StillCall, StillNewSet, Doing, Meets
  <2>3. NewVariant(d)'
    BY <2>0, <1>1 DEF NewVariant, StillCall, StillNewVariant, Doing, Meets
  <2>4. AsLoaded(d)'
    BY <2>0 DEF AsLoaded, StillCall, StillAsLoaded
  <2>5. OwnCopy(d)'
    BY <2>0 DEF OwnCopy, StillCall, StillOwnCopy, Doing
  <2> QED BY <2>1, <2>2, <2>3, <2>4, <2>5
<1>4. ASSUME NEW d \in Users \ {c} PROVE Apart(c, d)' /\ Apart(d, c)'
  <2>1. CASE Together(c, begun)
    BY <2>1, <1>1, <1>2 DEF Apart, RecordKinds
  <2>2. CASE ~Together(c, begun)
    BY <2>2, <1>1 DEF Apart, Together
  <2> QED BY <2>1, <2>2
<1>5. ASSUME NEW d \in Users \ {c}, NEW e \in Users \ {c}, e # d PROVE Apart(d, e)'
  <2>1. Apart(d, e) /\ running'[d] = running[d] /\ running'[e] = running[e]
    BY <1>1, <1>5 DEF CallsInv
  <2> QED BY <2>1, <1>1 DEF Apart
<1>6. ASSUME NEW d \in Users, NEW e \in Users \ {d} PROVE Apart(d, e)'
  BY <1>4, <1>5
<1>7. ASSUME NEW d \in Users
      PROVE  (KnownCall(d) /\ NewSet(d) /\ NewVariant(d) /\ AsLoaded(d) /\ OwnCopy(d))'
  BY <1>3
<1> QED BY <1>6, <1>7 DEF CallsInv

\* Calls that go on where nothing of theirs changes.
LEMMA NothingOfTheirs ==
  ASSUME CallsInv, UNCHANGED <<planset, variant, ws, compared, latest, bad, fresh, promoted, acknowledged>>,
         muddled \subseteq muddled', NEW d \in Users
  PROVE  StillCall(d)
<1>0. NewSet(d) /\ NewVariant(d) /\ AsLoaded(d) /\ OwnCopy(d)
  BY DEF CallsInv
<1>1. StillNewSet(d)
  BY <1>0 DEF NewSet, StillNewSet
<1>2. StillNewVariant(d)
  BY <1>0 DEF NewVariant, StillNewVariant
<1>3. StillAsLoaded(d)
  BY <1>0 DEF AsLoaded, StillAsLoaded
<1>4. StillOwnCopy(d)
  BY <1>0 DEF OwnCopy, StillOwnCopy
<1> QED BY <1>1, <1>2, <1>3, <1>4 DEF StillCall

-----------------------------------------------------------------------------
LEMMA CallsOfUsers ==
  ASSUME VariantsTypeOK, NEW c \in Users, running[c] # NoCall
  PROVE  /\ running[c] \in VCall /\ running[c].kind \in CallKinds /\ running[c].v \in Vars
         /\ running[c].set \in Sets \cup {NoSet} /\ running[c].rec \in Record /\ running[c].list \subseteq Vars
  BY DEF VariantsTypeOK, VCall

LEMMA BlankCalls ==
  ASSUME NEW way \in CallKinds, NEW s \in Sets \cup {NoSet}, NEW v \in Vars, NEW r \in Record,
         NEW l \in SUBSET Vars
  PROVE  /\ [Blankly(way) EXCEPT !.set = s] \in VCall
         /\ [Blankly(way) EXCEPT !.set = s, !.v = v, !.list = l] \in VCall
         /\ [Blankly(way) EXCEPT !.v = v, !.rec = r] \in VCall
<1>1. NoRecord \in Record
  BY NewRecordType
<1>2. (CHOOSE u \in Vars : TRUE) \in Vars
  BY VariantsAssumption
<1> DEFINE u0 == CHOOSE u \in Vars : TRUE
<1> HIDE DEF u0
<1>3. u0 \in Vars
  BY <1>2 DEF u0
<1>4. Blankly(way) = [kind |-> way, set |-> NoSet, v |-> u0, rec |-> NoRecord, list |-> {}, ran |-> FALSE]
  BY DEF Blankly, u0
<1>5. Blankly(way) \in VCall
  BY <1>1, <1>3, <1>4 DEF VCall
<1> DEFINE b == Blankly(way)
<1> HIDE DEF b
<1>6. b \in VCall
  BY <1>5 DEF b
<1>7. [b EXCEPT !.set = s] \in VCall
  BY <1>6 DEF VCall
<1>8. [b EXCEPT !.v = v, !.rec = r] \in VCall
  BY <1>6 DEF VCall
<1>9. [b EXCEPT !.set = s, !.v = v, !.list = l] \in VCall
  BY <1>6 DEF VCall
<1> QED BY <1>7, <1>8, <1>9 DEF b

LEMMA QuietStep ==
  ASSUME VariantsInv, Still, UNCHANGED <<activeSet, reviewed>>,
         running' \in [Users -> VCall \cup {NoCall}], now' \in 0..MaxNow, overlap' \in 0..MaxOverlap,
         used' \subseteq Sets \cup Vars, muddled' \subseteq Sets \cup Vars
  PROVE  VariantsTypeOK' /\ RecordsInv'
<1>1. VariantsTypeOK'
  BY DEF VariantsInv, VariantsTypeOK, Still
<1> QED BY <1>1, StillKeeps DEF VariantsInv

LEMMA QuietEnd ==
  ASSUME VariantsInv, UNCHANGED <<stored, trace, muddled>>,
         running' \in [Users -> VCall \cup {NoCall}], now' \in 0..MaxNow, now <= now', overlap' \in 0..MaxOverlap,
         \A d \in Users : running'[d] = NoCall \/ GoesOn(d)
  PROVE  VariantsInv'
<1>1. /\ UNCHANGED <<planset, variant, ws, compared, latest, bad, fresh, promoted, acknowledged>>
      /\ UNCHANGED <<activeSet, reviewed>> /\ used' = used /\ muddled' = muddled
  BY DEF stored, trace, past
<1>2. Still
  BY VariantsAssumption DEF Still, stored, trace, past
<1>3. VariantsTypeOK' /\ RecordsInv'
  BY <1>1, <1>2, QuietStep DEF VariantsInv, VariantsTypeOK
<1>4. \A d \in Users : StillCall(d)
  BY <1>1, NothingOfTheirs DEF VariantsInv
<1>5. CallsInv'
  BY <1>1, <1>4, EndsKeepCalls DEF VariantsInv
<1> QED BY <1>3, <1>5 DEF VariantsInv

\* What ends a call, and what lets the others go on.
LEMMA ReturnsEnds ==
  ASSUME VariantsTypeOK, NEW c \in Users, Returns(c)
  PROVE  /\ running' \in [Users -> VCall \cup {NoCall}] /\ running'[c] = NoCall
         /\ \A d \in Users \ {c} : running'[d] = running[d]
         /\ \A d \in Users : running'[d] = NoCall \/ (d # c /\ GoesOn(d))
  BY DEF VariantsTypeOK, Returns, GoesOn

LEMMA QuietActions ==
  ASSUME VariantsInv,
         Second \/ UNCHANGED variantVars \/ \E c \in Users : SimulateRuns(c) \/ Dies(c)
  PROVE  VariantsInv'
<1>0. VariantsTypeOK /\ now \in 0..MaxNow /\ overlap \in 0..MaxOverlap /\ now <= now
  BY VariantsAssumption DEF VariantsInv, VariantsTypeOK
<1>1. CASE Second
  <2>1. UNCHANGED <<stored, trace, muddled>> /\ running' = running /\ overlap' = overlap
        /\ now' \in 0..MaxNow /\ now <= now'
    BY <1>1, <1>0, VariantsAssumption DEF Second
  <2>2. \A d \in Users : running'[d] = NoCall \/ GoesOn(d)
    BY <2>1 DEF GoesOn
  <2>3. running' \in [Users -> VCall \cup {NoCall}]
    BY <2>1, <1>0 DEF VariantsTypeOK
  <2> QED BY <2>1, <2>2, <2>3, <1>0, QuietEnd
<1>2. CASE UNCHANGED variantVars
  <2>1. UNCHANGED <<stored, trace, muddled>> /\ running' = running /\ overlap' = overlap /\ now' = now
    BY <1>2 DEF variantVars, stored, trace, past
  <2>2. \A d \in Users : running'[d] = NoCall \/ GoesOn(d)
    BY <2>1 DEF GoesOn
  <2>3. running' \in [Users -> VCall \cup {NoCall}]
    BY <2>1, <1>0 DEF VariantsTypeOK
  <2> QED BY <2>1, <2>2, <2>3, <1>0, QuietEnd
<1>3. ASSUME NEW c \in Users, Dies(c) PROVE VariantsInv'
  <2>1. UNCHANGED <<stored, trace, muddled>> /\ Returns(c) /\ overlap' = overlap /\ now' = now
    BY <1>3 DEF Dies
  <2>2. /\ running' \in [Users -> VCall \cup {NoCall}]
        /\ \A d \in Users : running'[d] = NoCall \/ GoesOn(d)
    BY <2>1, <1>0, ReturnsEnds
  <2> QED BY <2>1, <2>2, <1>0, QuietEnd
<1>4. ASSUME NEW c \in Users, SimulateRuns(c) PROVE VariantsInv'
  <2>1. /\ UNCHANGED <<stored, trace, muddled>> /\ overlap' = overlap /\ now' = now
        /\ running' = [running EXCEPT ![c].ran = TRUE] /\ running[c] # NoCall
    BY <1>4 DEF SimulateRuns, Doing
  <2>2. running[c] \in VCall /\ running \in [Users -> VCall \cup {NoCall}]
    BY <2>1, <1>0, CallsOfUsers DEF VariantsTypeOK
  <2> DEFINE k == [running[c] EXCEPT !.ran = TRUE]
  <2>3. /\ k \in VCall /\ k.kind = running[c].kind /\ k.set = running[c].set /\ k.v = running[c].v
        /\ k.rec = running[c].rec /\ k.list = running[c].list
    BY <2>2 DEF VCall
  <2>4. running' = [running EXCEPT ![c] = k]
    BY <2>1
  <2> HIDE DEF k
  <2>5. running' \in [Users -> VCall \cup {NoCall}]
    BY <2>2, <2>3, <2>4
  <2>6. ASSUME NEW d \in Users PROVE running'[d] = NoCall \/ GoesOn(d)
    BY <2>1, <2>2, <2>3, <2>4 DEF GoesOn
  <2> QED BY <2>1, <2>5, <2>6, <1>0, QuietEnd
<1> QED BY <1>1, <1>2, <1>3, <1>4

\* A call that begins leaves the muddled ids, and the other calls.
LEMMA StartsCall ==
  ASSUME VariantsTypeOK, NEW c \in Users, NEW begun \in VCall, Starts(c, begun),
         begun.kind = "create_variant" => begun.set \in Sets
  PROVE  /\ running' \in [Users -> VCall \cup {NoCall}] /\ running'[c] = begun /\ running[c] = NoCall
         /\ \A d \in Users \ {c} : running'[d] = running[d]
         /\ overlap' \in 0..MaxOverlap /\ muddled \subseteq muddled' /\ muddled' \subseteq Sets \cup Vars
<1>1. begun.v \in Vars /\ muddled \subseteq Sets \cup Vars /\ running \in [Users -> VCall \cup {NoCall}]
      /\ overlap \in 0..MaxOverlap
  BY DEF VCall, VariantsTypeOK
<1>2. running' = [running EXCEPT ![c] = begun] /\ running[c] = NoCall
  BY DEF Starts
<1>3. overlap' \in 0..MaxOverlap
  BY <1>1, VariantsAssumption DEF Starts
<1>4. muddled \subseteq muddled' /\ muddled' \subseteq Sets \cup Vars
  BY <1>1 DEF Starts
<1> QED BY <1>1, <1>2, <1>3, <1>4

LEMMA BeginSetKeeps ==
  ASSUME VariantsInv, NEW c \in Users, BeginSet(c)
  PROVE  VariantsInv'
<1>1. PICK s \in Sets :
        /\ s \notin used /\ used' = used \cup {s}
        /\ Starts(c, [Blankly("create_set") EXCEPT !.set = s])
        /\ UNCHANGED <<stored, now, sims, reviewed, bad, latest, fresh, look, acknowledged, promoted>>
  BY DEF BeginSet
<1> DEFINE begun == [Blankly("create_set") EXCEPT !.set = s]
<1>2. begun \in VCall /\ begun.kind = "create_set" /\ begun.set = s
  <2>1. PICK v \in Vars : TRUE
    BY VariantsAssumption
  <2>2. NoRecord \in Record /\ "create_set" \in CallKinds
    BY NewRecordType DEF CallKinds
  <2>3. begun \in VCall
    BY <2>1, <2>2, BlankCalls
  <2> QED BY <2>3 DEF Blankly
<1> HIDE DEF begun
<1>3. Starts(c, begun)
  BY <1>1 DEF begun
<1>4. VariantsTypeOK /\ RecordsInv /\ CallsInv
  BY DEF VariantsInv
<1>5. /\ running' \in [Users -> VCall \cup {NoCall}] /\ running'[c] = begun
      /\ \A d \in Users \ {c} : running'[d] = running[d]
      /\ overlap' \in 0..MaxOverlap /\ muddled \subseteq muddled' /\ muddled' \subseteq Sets \cup Vars
  BY <1>2, <1>3, <1>4, StartsCall
<1>6. /\ UNCHANGED <<planset, variant, ws, compared, latest, bad, fresh, promoted, acknowledged, activeSet, reviewed, sims, look, now>>
      /\ used \subseteq used' /\ s \in used'
  BY <1>1 DEF stored
<1>7. Still /\ used' \subseteq Sets \cup Vars /\ now' \in 0..MaxNow
  BY <1>1, <1>4, <1>5, <1>6, VariantsAssumption DEF Still, VariantsTypeOK
<1>8. VariantsTypeOK' /\ RecordsInv'
  BY <1>5, <1>6, <1>7, QuietStep
<1>9. \A d \in Users : StillCall(d) /\ KnownCall(d)
  BY <1>4, <1>5, <1>6, NothingOfTheirs DEF CallsInv
<1>10. ASSUME NEW d \in Users \ {c} PROVE Meets(begun, d)
  BY <1>1, <1>2, <1>9 DEF Meets, KnownCall, Doing, RecordKinds
<1>11. KnownCall(c)'
  BY <1>2, <1>5, <1>6 DEF KnownCall, RecordKinds
<1>12. NewSet(c)'
  <2>1. ~planset'[s].live /\ \A v \in Vars : variant'[v].live => variant'[v].set # s
    BY <1>1, <1>4, <1>6 DEF RecordsInv, IdsUsed
  <2>2. ASSUME NEW d \in Users \ {c}, running[d] # NoCall
        PROVE  /\ running[d].kind \in RecordKinds => running[d].rec.set # s
               /\ running[d].kind \in {"create_variant", "create_set"} => running[d].set # s
    BY <1>1, <1>9, <2>2 DEF KnownCall
  <2> QED BY <2>1, <2>2, <1>2, <1>5 DEF NewSet
<1>13. NewVariant(c)' /\ AsLoaded(c)' /\ OwnCopy(c)'
  BY <1>2, <1>5 DEF NewVariant, AsLoaded, OwnCopy, Doing, RecordKinds
<1>14. CallsInv'
  BY <1>3, <1>4, <1>6, <1>9, <1>10, <1>11, <1>12, <1>13, BeginsKeepCalls
<1> QED BY <1>8, <1>14 DEF VariantsInv

LEMMA BeginVariantKeeps ==
  ASSUME VariantsInv, NEW c \in Users, BeginVariant(c)
  PROVE  VariantsInv'
<1>1. PICK s \in LiveSets(planset), v \in Vars :
        /\ Cardinality(planset[s].list) < MaxVars
        /\ v \notin used /\ used' = used \cup {v}
        /\ Starts(c, [Blankly("create_variant") EXCEPT !.set = s, !.v = v, !.list = planset[s].list])
        /\ UNCHANGED <<stored, now, sims, reviewed, bad, latest, fresh, look, acknowledged, promoted>>
  BY DEF BeginVariant
<1> DEFINE begun == [Blankly("create_variant") EXCEPT !.set = s, !.v = v, !.list = planset[s].list]
<1>4. VariantsTypeOK /\ RecordsInv /\ CallsInv
  BY DEF VariantsInv
<1>0. s \in Sets /\ planset[s].live /\ planset[s].list \in SUBSET Vars /\ s \in used
  BY <1>4 DEF LiveSets, VariantsTypeOK, PlanSet, RecordsInv, IdsUsed
<1>2. begun \in VCall /\ begun.kind = "create_variant" /\ begun.set = s /\ begun.v = v /\ begun.list = planset[s].list
  <2>2. NoRecord \in Record /\ "create_variant" \in CallKinds
    BY NewRecordType DEF CallKinds
  <2>3. begun \in VCall
    BY <1>0, <2>2, BlankCalls
  <2> QED BY <2>3 DEF Blankly
<1> HIDE DEF begun
<1>3. Starts(c, begun)
  BY <1>1 DEF begun
<1>5. /\ running' \in [Users -> VCall \cup {NoCall}] /\ running'[c] = begun
      /\ \A d \in Users \ {c} : running'[d] = running[d]
      /\ overlap' \in 0..MaxOverlap /\ muddled \subseteq muddled' /\ muddled' \subseteq Sets \cup Vars
  BY <1>0, <1>2, <1>3, <1>4, StartsCall
<1>6. /\ UNCHANGED <<planset, variant, ws, compared, latest, bad, fresh, promoted, acknowledged, activeSet, reviewed, sims, look, now>>
      /\ used \subseteq used' /\ v \in used'
  BY <1>1 DEF stored
<1>7. Still /\ used' \subseteq Sets \cup Vars /\ now' \in 0..MaxNow
  BY <1>1, <1>4, <1>5, <1>6, VariantsAssumption DEF Still, VariantsTypeOK
<1>8. VariantsTypeOK' /\ RecordsInv'
  BY <1>5, <1>6, <1>7, QuietStep
<1>9. \A d \in Users : StillCall(d) /\ KnownCall(d) /\ NewSet(d)
  BY <1>4, <1>5, <1>6, NothingOfTheirs DEF CallsInv
<1>10. ASSUME NEW d \in Users \ {c} PROVE Meets(begun, d)
  <2>1. Doing(d, "create_set") => s # running[d].set
    BY <1>0, <1>9 DEF NewSet
  <2>2. Doing(d, "create_variant") => v # running[d].v
    BY <1>1, <1>9 DEF KnownCall, Doing
  <2> QED BY <2>1, <2>2, <1>2 DEF Meets, RecordKinds
<1>11. KnownCall(c)'
  <2>1. IsFiniteSet(planset[s].list) /\ Cardinality(planset[s].list) < MaxVars
    BY <1>0, <1>1, <1>4 DEF RecordsInv, ListsBounded
  <2> QED BY <2>1, <1>0, <1>2, <1>5, <1>6 DEF KnownCall, RecordKinds
<1>12. NewVariant(c)'
  <2>1. ~variant'[v].live /\ \A r \in acknowledged' : r[1] # v
    BY <1>1, <1>4, <1>6 DEF RecordsInv, IdsUsed
  <2>2. ASSUME NEW d \in Users \ {c}, running[d] # NoCall
        PROVE  running[d].kind \in RecordKinds \cup {"create_variant"} => running[d].v # v
    BY <1>1, <1>9, <2>2 DEF KnownCall
  <2> QED BY <2>1, <2>2, <1>2, <1>5 DEF NewVariant
<1>13. NewSet(c)' /\ AsLoaded(c)' /\ OwnCopy(c)'
  BY <1>0, <1>2, <1>5, <1>6 DEF NewSet, AsLoaded, OwnCopy, Doing, RecordKinds
<1>14. CallsInv'
  BY <1>3, <1>4, <1>6, <1>9, <1>10, <1>11, <1>12, <1>13, BeginsKeepCalls
<1> QED BY <1>8, <1>14 DEF VariantsInv

\* What a call on a record of its own brings to the calls that run.
LEMMA RecordCallBegins ==
  ASSUME VariantsInv, NEW c \in Users, NEW way \in RecordKinds, NEW v \in Vars, variant[v].live,
         Starts(c, OnRecord(way, v)), UNCHANGED <<used, planset, variant, acknowledged>>,
         way = "promote" => variant[v].status \in {"Reviewed", "Approved"},
         \A d \in Users \ {c} : StillOwnCopy(d), OwnCopy(c)'
  PROVE  /\ CallsInv'
         /\ running' \in [Users -> VCall \cup {NoCall}] /\ overlap' \in 0..MaxOverlap
         /\ muddled \subseteq muddled' /\ muddled' \subseteq Sets \cup Vars
<1> DEFINE begun == OnRecord(way, v)
<1>1. VariantsTypeOK /\ RecordsInv /\ CallsInv
  BY DEF VariantsInv
<1>2. variant[v] \in Record /\ variant[v].set \in Sets /\ variant[v].set \in used /\ v \in used
  BY <1>1 DEF VariantsTypeOK, RecordsInv, IdsUsed
<1>3. begun \in VCall /\ begun.kind = way /\ begun.v = v /\ begun.rec = variant[v]
  <2>1. begun \in VCall
    BY <1>2, BlankCalls DEF OnRecord, CallKinds
  <2> QED BY <2>1 DEF OnRecord, Blankly
<1> HIDE DEF begun
<1>4. Starts(c, begun)
  BY DEF begun
<1>5. way \notin {"create_set", "create_variant"}
  BY DEF RecordKinds
<1>6. /\ running' \in [Users -> VCall \cup {NoCall}] /\ running'[c] = begun
      /\ \A d \in Users \ {c} : running'[d] = running[d]
      /\ overlap' \in 0..MaxOverlap /\ muddled \subseteq muddled' /\ muddled' \subseteq Sets \cup Vars
  BY <1>1, <1>3, <1>4, <1>5, StartsCall
<1>7. ASSUME NEW d \in Users \ {c} PROVE StillCall(d)
  <2>1. NewSet(d) /\ NewVariant(d) /\ AsLoaded(d)
    BY <1>1 DEF CallsInv
  <2>2. StillNewSet(d) /\ StillNewVariant(d)
    BY <2>1 DEF NewSet, NewVariant, StillNewSet, StillNewVariant
  <2>3. StillAsLoaded(d)
    BY <2>1, <1>6 DEF AsLoaded, StillAsLoaded
  <2> QED BY <2>2, <2>3 DEF StillCall
<1>8. ASSUME NEW d \in Users \ {c} PROVE Meets(begun, d)
  <2>1. NewSet(d) /\ NewVariant(d)
    BY <1>1 DEF CallsInv
  <2>2. Doing(d, "create_set") => variant[v].set # running[d].set
    BY <2>1 DEF NewSet
  <2>3. Doing(d, "create_variant") => v # running[d].v
    BY <2>1 DEF NewVariant
  <2> QED BY <2>2, <2>3, <1>3, <1>5 DEF Meets
<1>9. KnownCall(c)'
  BY <1>2, <1>3, <1>5, <1>6 DEF KnownCall
<1>10. NewSet(c)' /\ NewVariant(c)' /\ AsLoaded(c)'
  BY <1>3, <1>5, <1>6 DEF NewSet, NewVariant, AsLoaded, Doing
<1>11. CallsInv'
  BY <1>1, <1>4, <1>7, <1>8, <1>9, <1>10, BeginsKeepCalls
<1> QED BY <1>6, <1>11

LEMMA BeginRecordKeeps ==
  ASSUME VariantsInv, NEW c \in Users, BeginCompare(c) \/ BeginReview(c) \/ BeginPromote(c)
  PROVE  VariantsInv'
<1>1. PICK way \in RecordKinds \ {"simulate"}, v \in Vars :
        /\ variant[v].live /\ Starts(c, OnRecord(way, v)) /\ UNCHANGED <<stored, now, trace>>
        /\ way = "promote" => variant[v].status \in {"Reviewed", "Approved"}
  <2>1. CASE BeginCompare(c)
    <3>1. PICK v \in Vars : /\ variant[v].live
                            /\ Starts(c, OnRecord("compare", v)) /\ UNCHANGED <<stored, now, trace>>
      BY <2>1 DEF BeginCompare
    <3> QED BY <3>1 DEF RecordKinds
  <2>2. CASE BeginReview(c)
    <3>1. PICK v \in Vars : /\ variant[v].live
                            /\ Starts(c, OnRecord("review", v)) /\ UNCHANGED <<stored, now, trace>>
      BY <2>2 DEF BeginReview
    <3> QED BY <3>1 DEF RecordKinds
  <2>3. CASE BeginPromote(c)
    <3>1. PICK v \in Vars : /\ variant[v].live /\ variant[v].status \in {"Reviewed", "Approved"}
                            /\ Starts(c, OnRecord("promote", v)) /\ UNCHANGED <<stored, now, trace>>
      BY <2>3 DEF BeginPromote
    <3> QED BY <3>1 DEF RecordKinds
  <2> QED BY <2>1, <2>2, <2>3
<1>2. /\ UNCHANGED <<planset, variant, ws, compared, latest, bad, fresh, promoted, acknowledged>>
      /\ UNCHANGED <<activeSet, reviewed, sims, look, now, used>>
  BY <1>1 DEF stored, trace, past
<1>3. VariantsTypeOK /\ CallsInv
  BY DEF VariantsInv
<1>4. running'[c] = OnRecord(way, v) /\ muddled \subseteq muddled'
  BY <1>1, <1>3 DEF Starts, VariantsTypeOK
<1>5. running'[c].kind = way
  BY <1>4 DEF OnRecord, Blankly
<1>6. OwnCopy(c)'
  BY <1>1, <1>5 DEF OwnCopy, Doing
<1>7. \A d \in Users \ {c} : StillOwnCopy(d)
  BY <1>2, <1>3, <1>4, NothingOfTheirs DEF StillCall
<1>8. /\ CallsInv'
      /\ running' \in [Users -> VCall \cup {NoCall}] /\ overlap' \in 0..MaxOverlap
      /\ muddled \subseteq muddled' /\ muddled' \subseteq Sets \cup Vars
  BY <1>1, <1>2, <1>6, <1>7, RecordCallBegins
<1>9. Still /\ used' \subseteq Sets \cup Vars /\ now' \in 0..MaxNow
  BY <1>2, <1>3, <1>8, VariantsAssumption DEF Still, VariantsTypeOK
<1>10. VariantsTypeOK' /\ RecordsInv'
  BY <1>2, <1>8, <1>9, QuietStep
<1> QED BY <1>8, <1>10 DEF VariantsInv

LEMMA BeginSimulateKeeps ==
  ASSUME VariantsInv, NEW c \in Users, BeginSimulate(c)
  PROVE  VariantsInv'
<1>1. PICK v \in Vars :
    /\ variant[v].live /\ sims < MaxSims /\ sims' = sims + 1
    /\ Starts(c, OnRecord("simulate", v))
    /\ ws' = [ws EXCEPT ![v] = sims'] /\ bad' = bad \cup {sims'}
    /\ latest' = [latest EXCEPT ![v] = sims'] /\ fresh' = fresh \ {v}
    /\ UNCHANGED <<planset, variant, compared, activeSet, now, reviewed, look, acknowledged, promoted, used>>
  BY DEF BeginSimulate
<1>2. VariantsTypeOK /\ RecordsInv /\ CallsInv
  BY DEF VariantsInv
<1>3. sims \in Nat /\ sims' \in 1..MaxSims /\ sims' = sims + 1 /\ sims' \notin 1..sims /\ sims' \notin bad
      /\ sims' \in 1..sims' /\ 1..sims \subseteq 1..sims' /\ sims' # 0
  <2>1. sims \in Nat /\ MaxSims \in Nat /\ sims < MaxSims /\ sims' = sims + 1
    BY <1>1, <1>2, VariantsAssumption DEF VariantsTypeOK, Content
  <2>2. sims' \in 1..MaxSims /\ sims' \notin 1..sims /\ sims' \in 1..sims' /\ sims' # 0
    BY ONLY <2>1
  <2>3. 1..sims \subseteq 1..sims'
    BY ONLY <2>1
  <2>4. bad \subseteq 1..sims
    BY <1>2 DEF RecordsInv, Owned
  <2> QED BY <2>1, <2>2, <2>3, <2>4
<1>4. /\ ws' \in [Vars -> Content] /\ latest' \in [Vars -> Content] /\ sims' \in Content /\ bad' \subseteq Content
      /\ ws'[v] = sims' /\ latest'[v] = sims' /\ bad \subseteq bad' /\ sims' \in bad'
      /\ \A u \in Vars \ {v} : ws'[u] = ws[u] /\ latest'[u] = latest[u]
  BY <1>1, <1>2, <1>3 DEF VariantsTypeOK, Content
<1>5. /\ planset' = planset /\ variant' = variant /\ activeSet' = activeSet /\ now' = now /\ used' = used
      /\ reviewed' = reviewed /\ look' = look /\ acknowledged' = acknowledged /\ promoted' = promoted
      /\ compared' = compared /\ fresh' = fresh \ {v}
  BY <1>1
<1>6. PICK o \in [1..MaxSims -> Vars] : OwnedBy(o)
  BY <1>2 DEF RecordsInv, Owned
<1>7. running'[c] = OnRecord("simulate", v) /\ muddled \subseteq muddled'
  BY <1>1, <1>2 DEF Starts, VariantsTypeOK
<1>8. running'[c].kind = "simulate" /\ running'[c].v = v
  BY <1>7 DEF OnRecord, Blankly
<1>9. \A p \in promoted : p.held # sims'
  BY <1>3, <1>6 DEF OwnedBy
<1>10. OwnCopy(c)'
  BY <1>3, <1>4, <1>5, <1>8, <1>9 DEF OwnCopy
<1>11. ASSUME NEW d \in Users \ {c} PROVE StillOwnCopy(d)
  <2>1. OwnCopy(d)
    BY <1>2 DEF CallsInv
  <2>2. CASE Doing(d, "simulate") /\ running[d].v = v
    <3>1. Together(c, OnRecord("simulate", v))
      BY <2>2 DEF Together, Doing, RecordKinds, OnRecord, Blankly
    <3>2. v \in muddled'
      BY <3>1, <1>1 DEF Starts, OnRecord, Blankly
    <3> QED BY <2>2, <3>2 DEF StillOwnCopy
  <2>3. CASE Doing(d, "simulate") /\ running[d].v # v
    <3>1. running[d].v \in Vars \ {v}
      BY <2>3, <1>2, CallsOfUsers DEF Doing
    <3> QED BY <3>1, <2>1, <1>4, <1>5, <1>7 DEF StillOwnCopy, OwnCopy
  <2> QED BY <2>2, <2>3 DEF StillOwnCopy
<1>12. "simulate" \in RecordKinds
  BY DEF RecordKinds
<1>13. /\ CallsInv'
       /\ running' \in [Users -> VCall \cup {NoCall}] /\ overlap' \in 0..MaxOverlap
       /\ muddled \subseteq muddled' /\ muddled' \subseteq Sets \cup Vars
  BY <1>1, <1>5, <1>10, <1>11, <1>12, RecordCallBegins
<1>14. VariantsTypeOK'
  BY <1>2, <1>4, <1>5, <1>13 DEF VariantsTypeOK
<1>15. IdsUsed' /\ ListsBounded'
  BY <1>2, <1>5 DEF RecordsInv, IdsUsed, ListsBounded
<1>16. Owned'
  <2>1. PICK q \in [1..MaxSims -> Vars] : q[sims'] = v /\ \A n \in 1..sims : q[n] = o[n]
    <3> DEFINE x == [o EXCEPT ![sims'] = v]
    <3>1. x \in [1..MaxSims -> Vars] /\ x[sims'] = v /\ \A n \in 1..sims : x[n] = o[n]
      BY <1>3
    <3> QED BY <3>1
  <2>2. \A n \in 1..sims : q[n] = o[n]
    BY <2>1
  <2>3. ASSUME NEW u \in Vars, ws'[u] # 0 PROVE ws'[u] \in 1..sims' /\ q[ws'[u]] = u
    BY <2>1, <2>2, <2>3, <1>3, <1>4, <1>6 DEF OwnedBy
  <2>4. ASSUME NEW u \in Vars, latest'[u] # 0 PROVE latest'[u] \in 1..sims' /\ q[latest'[u]] = u
    BY <2>1, <2>2, <2>4, <1>3, <1>4, <1>6 DEF OwnedBy
  <2>5. ASSUME NEW p \in promoted' PROVE p.held \in 1..sims' /\ q[p.held] = p.of
    BY <2>2, <1>3, <1>5, <1>6 DEF OwnedBy
  <2>6. OwnedBy(q)'
    BY <2>3, <2>4, <2>5 DEF OwnedBy
  <2>7. bad' \subseteq 1..sims'
    BY <1>1, <1>2, <1>3 DEF RecordsInv, Owned
  <2> QED BY <2>1, <2>6, <2>7 DEF Owned
<1>17. ASSUME NEW u \in Vars PROVE ReviewedContent(u)'
  <2>1. ReviewedContent(u)
    BY <1>2 DEF RecordsInv
  <2> QED BY <2>1, <1>4, <1>5, <1>13 DEF ReviewedContent
<1>21. ASSUME NEW u \in Vars PROVE ComparedKnown(u)'
  <2>1. ComparedKnown(u) /\ compared[u] \in Nat /\ latest[u] \in Nat
    BY <1>2, VariantsAssumption DEF RecordsInv, VariantsTypeOK, Content
  <2>2. CASE u = v
    <3>1. latest[v] = 0 \/ latest[v] \in 1..sims
      BY <1>6 DEF OwnedBy
    <3>2. compared[v] <= sims'
      BY <2>1, <2>2, <3>1, <1>3 DEF ComparedKnown
    <3> QED BY <2>2, <3>2, <1>4, <1>5 DEF ComparedKnown
  <2>3. CASE u # v
    <3>1. ws'[u] = ws[u] /\ latest'[u] = latest[u] /\ compared'[u] = compared[u] /\ (u \in fresh' => u \in fresh)
      BY <2>3, <1>4, <1>5
    <3> QED BY <2>1, <3>1 DEF ComparedKnown
  <2> QED BY <2>2, <2>3
<1>18. PromotesWhatWasReviewed'
  BY <1>2, <1>4, <1>5, <1>13 DEF RecordsInv, PromotesWhatWasReviewed
<1>19. ReviewsKept' /\ SetsListTheirVariants'
  BY <1>2, <1>5, <1>13 DEF RecordsInv, ReviewsKept, SetsListTheirVariants
<1>20. SimulatedHasWorkspace'
  BY <1>2, <1>4, <1>5, <1>13 DEF RecordsInv, SimulatedHasWorkspace
<1> QED BY <1>13, <1>14, <1>15, <1>16, <1>17, <1>18, <1>19, <1>20, <1>21 DEF VariantsInv, RecordsInv

-----------------------------------------------------------------------------
\* A call saves the record that it loaded, as r, and returns.
Saves(c, r) ==
  LET k == running[c] IN
  /\ k # NoCall /\ k.kind \in RecordKinds /\ Returns(c)
  /\ r \in Record /\ r.live /\ r.set = k.rec.set /\ k.rec.reviews \subseteq r.reviews
  /\ r.status = "Simulated" => k.rec.status = "Simulated" /\ r.snap = k.rec.snap
  /\ variant' = [variant EXCEPT ![k.v] = r]
  /\ planset' \in [Sets -> PlanSet]
  /\ \A s \in Sets : /\ planset'[s].live = planset[s].live /\ planset'[s].list = planset[s].list
                     /\ planset'[s].at = planset[s].at
  /\ UNCHANGED <<ws, activeSet, now, overlap, muddled, sims, bad, latest, used>>
  /\ compared' \in [Vars -> Content] /\ fresh' \subseteq Vars
  /\ \A u \in Vars \ {k.v} : compared'[u] = compared[u] /\ (u \in fresh' => u \in fresh)
  /\ \/ compared'[k.v] = compared[k.v] /\ (k.v \in fresh' => k.v \in fresh)
     \/ compared'[k.v] = ws[k.v]
  /\ reviewed' \in 0..MaxReviews /\ look' \in [Vars -> Looks]
  /\ \A u \in Vars \ {k.v} : look'[u] = look[u]
  /\ acknowledged' \subseteq Vars \X (1..MaxReviews) /\ promoted' \subseteq [of: Vars, held: Content, look: Looks]
  /\ \A a \in acknowledged' : a \in acknowledged \/ (a[1] = k.v /\ a[2] \in r.reviews)
  /\ \A p \in promoted' : p \in promoted \/ (p.of = k.v /\ p.held = ws[k.v] /\ ws[k.v] # 0)

LEMMA SavesKeeps ==
  ASSUME VariantsInv, NEW c \in Users, NEW r, Saves(c, r), NEW v \in Vars, v = running[c].v,
         ReviewedContent(v)', PromotesWhatWasReviewed'
  PROVE  VariantsInv'
<1> DEFINE k == running[c]
<1>1. VariantsTypeOK /\ RecordsInv /\ CallsInv
  BY DEF VariantsInv
<1>2. k # NoCall /\ k.kind \in RecordKinds /\ Returns(c) /\ r.live /\ r.set = k.rec.set /\ r \in Record
  BY DEF Saves
<1>3. k.v \in Vars
  BY <1>1, <1>2, CallsOfUsers
<1>4. /\ k.rec.live /\ k.rec.set \in Sets /\ k.rec.set \in used /\ k.v \in used
      /\ k.v \in muddled \/ k.rec = variant[k.v]
  BY <1>1, <1>2 DEF CallsInv, KnownCall, AsLoaded
<1>5. /\ ws' = ws /\ activeSet' = activeSet /\ now' = now /\ overlap' = overlap /\ muddled' = muddled
      /\ sims' = sims /\ bad' = bad /\ latest' = latest /\ used' = used
  BY DEF Saves
<1>6. variant'[k.v] = r /\ variant' \in [Vars -> Record] /\ \A u \in Vars \ {k.v} : variant'[u] = variant[u]
  BY <1>1, <1>2, <1>3 DEF Saves, VariantsTypeOK
<1>7. \A s \in Sets : /\ planset'[s].live = planset[s].live /\ planset'[s].list = planset[s].list
                      /\ planset'[s].at = planset[s].at
  BY DEF Saves
<1>8. /\ \A a \in acknowledged' : a \in acknowledged \/ (a[1] = k.v /\ a[2] \in r.reviews)
      /\ \A p \in promoted' : p \in promoted \/ (p.of = k.v /\ p.held = ws[k.v] /\ ws[k.v] # 0)
  BY DEF Saves
<1>9. k.rec.reviews \subseteq r.reviews /\ (r.status = "Simulated" => k.rec.status = "Simulated" /\ r.snap = k.rec.snap)
  BY DEF Saves
<1>10. /\ running' \in [Users -> VCall \cup {NoCall}]
       /\ \A d \in Users : running'[d] = NoCall \/ (d # c /\ GoesOn(d))
  BY <1>1, <1>2, ReturnsEnds
<1>11. VariantsTypeOK'
  <2>1. ASSUME NEW u \in Vars, ~variant'[u].live PROVE variant'[u] = NoRecord
    BY <2>1, <1>1, <1>2, <1>6 DEF VariantsTypeOK
  <2> QED BY <2>1, <1>1, <1>5, <1>6, <1>10 DEF VariantsTypeOK, Saves
<1>12. ASSUME NEW d \in Users \ {c} PROVE StillCall(d)
  <2>1. NewSet(d) /\ NewVariant(d) /\ AsLoaded(d) /\ OwnCopy(d) /\ KnownCall(d) /\ Apart(c, d)
    BY <1>1 DEF CallsInv
  <2>2. StillNewSet(d)
    <3> SUFFICES ASSUME Doing(d, "create_set") PROVE StillNewSet(d)
      BY DEF StillNewSet
    <3> DEFINE s == running[d].set
    <3>1. s \in Sets /\ ~planset[s].live /\ k.rec.set # s /\ \A u \in Vars : variant[u].live => variant[u].set # s
      BY <2>1, <1>2 DEF NewSet, KnownCall, Doing
    <3>2. ASSUME NEW u \in Vars, variant'[u].live PROVE variant'[u].set # s
      BY <3>1, <3>2, <1>2, <1>6
    <3> QED BY <3>1, <3>2, <1>7 DEF StillNewSet
  <2>3. StillNewVariant(d)
    <3> SUFFICES ASSUME Doing(d, "create_variant") PROVE StillNewVariant(d)
      BY DEF StillNewVariant
    <3>1. running[d].v # k.v /\ running[d].v \in Vars
      BY <2>1, <1>1, <1>2, CallsOfUsers DEF NewVariant, Doing
    <3> QED BY <3>1, <2>1, <1>6, <1>8 DEF NewVariant, StillNewVariant
  <2>4. StillAsLoaded(d)
    <3> SUFFICES ASSUME running[d] # NoCall PROVE StillAsLoaded(d)
      BY DEF StillAsLoaded
    <3>1. running[d].v \in Vars
      BY <1>1, CallsOfUsers
    <3>2. running[d].kind \in RecordKinds => running[d].v \in muddled \/ running[d].v # k.v
      BY <2>1, <1>2 DEF Apart
    <3>3. running[d].kind = "create_variant" => running[d].set \in Sets
      BY <2>1 DEF KnownCall
    <3> QED BY <3>1, <3>2, <3>3, <2>1, <1>5, <1>6, <1>7 DEF AsLoaded, StillAsLoaded
  <2>5. StillOwnCopy(d)
    <3> SUFFICES ASSUME Doing(d, "simulate"), running[d].v \notin muddled PROVE StillOwnCopy(d)
      BY <1>5 DEF StillOwnCopy
    <3>1. running[d].v # k.v
      BY <2>1, <1>2 DEF Apart, Doing, RecordKinds
    <3> QED BY <3>1, <2>1, <1>5, <1>8 DEF OwnCopy, StillOwnCopy
  <2> QED BY <2>2, <2>3, <2>4, <2>5 DEF StillCall
<1>13. CallsInv'
  BY <1>1, <1>5, <1>10, <1>12, EndsKeepCalls
<1>14. IdsUsed'
  <2>1. \A s \in Sets : planset'[s].live => s \in used
    BY <1>1, <1>7 DEF RecordsInv, IdsUsed
  <2>2. ASSUME NEW u \in Vars, variant'[u].live
        PROVE  u \in used /\ variant'[u].set \in Sets /\ variant'[u].set \in used
    BY <2>2, <1>1, <1>2, <1>4, <1>6 DEF RecordsInv, IdsUsed
  <2>3. \A a \in acknowledged' : a[1] \in used
    BY <1>1, <1>4, <1>8 DEF RecordsInv, IdsUsed
  <2> QED BY <2>1, <2>2, <2>3, <1>5 DEF IdsUsed
<1>15. Owned'
  <2>1. PICK o \in [1..MaxSims -> Vars] : OwnedBy(o)
    BY <1>1 DEF RecordsInv, Owned
  <2>2. \A p \in promoted' : p.held \in 1..sims /\ o[p.held] = p.of
    BY <2>1, <1>3, <1>8 DEF OwnedBy
  <2>3. OwnedBy(o)'
    BY <2>1, <2>2, <1>5 DEF OwnedBy
  <2> QED BY <2>3, <1>1, <1>5 DEF Owned, RecordsInv
<1>16. ListsBounded'
  BY <1>1, <1>5, <1>7 DEF RecordsInv, ListsBounded
<1>17. ASSUME NEW u \in Vars PROVE ReviewedContent(u)'
  <2>1. CASE u = v
    <3>1. ReviewedContent(v)'
      OBVIOUS
    <3> QED BY <3>1, <2>1
  <2>2. CASE u # v
    <3>1. look'[u] = look[u] /\ ReviewedContent(u)
      BY <2>2, <1>1 DEF Saves, RecordsInv
    <3> QED BY <3>1, <2>2, <1>5, <1>6 DEF ReviewedContent
  <2> QED BY <2>1, <2>2
<1>21. ASSUME NEW u \in Vars PROVE ComparedKnown(u)'
  <2>1. ComparedKnown(u) /\ ws'[u] = ws[u] /\ latest'[u] = latest[u] /\ latest[u] \in Nat
    BY <1>1, <1>5, VariantsAssumption DEF RecordsInv, VariantsTypeOK, Content
  <2>2. CASE compared'[u] = compared[u] /\ (u \in fresh' => u \in fresh)
    BY <2>1, <2>2 DEF ComparedKnown
  <2>3. CASE compared'[u] = ws[u]
    BY <2>1, <2>3 DEF ComparedKnown
  <2>4. \/ compared'[u] = compared[u] /\ (u \in fresh' => u \in fresh)
        \/ compared'[u] = ws[u]
    BY <1>3 DEF Saves
  <2> QED BY <2>2, <2>3, <2>4
<1>18. ReviewsKept'
  <2> SUFFICES ASSUME NEW a \in acknowledged', variant'[a[1]].live, a[1] \notin muddled
               PROVE  a[2] \in variant'[a[1]].reviews
    BY <1>5 DEF ReviewsKept
  <2>1. a[1] \in Vars
    BY DEF Saves
  <2>2. CASE a \in acknowledged
    BY <2>1, <2>2, <1>1, <1>4, <1>6, <1>9 DEF RecordsInv, ReviewsKept
  <2>3. CASE a[1] = k.v /\ a[2] \in r.reviews
    BY <2>3, <1>6
  <2> QED BY <2>2, <2>3, <1>8
<1>19. SetsListTheirVariants'
  <2>1. ASSUME NEW u \in Vars \ muddled', variant'[u].live, variant'[u].set \notin muddled'
        PROVE  planset'[variant'[u].set].live /\ u \in planset'[variant'[u].set].list
    <3>1. variant'[u].set = variant[u].set /\ variant[u].live
      BY <2>1, <1>2, <1>4, <1>5, <1>6
    <3>2. variant[u].set \in Sets
      BY <3>1, <1>1 DEF RecordsInv, IdsUsed
    <3> QED BY <2>1, <3>1, <3>2, <1>1, <1>5, <1>7 DEF RecordsInv, SetsListTheirVariants
  <2>2. \A s \in Sets : Cardinality(planset'[s].list) <= MaxVars
    BY <1>1, <1>7 DEF RecordsInv, SetsListTheirVariants
  <2> QED BY <2>1, <2>2 DEF SetsListTheirVariants
<1>20. SimulatedHasWorkspace'
  <2>1. ASSUME NEW u \in Vars \ muddled', variant'[u].status = "Simulated"
        PROVE  (variant'[u].snap # 0 /\ ws[u] = variant'[u].snap) \/ latest[u] \in bad
    <3>1. variant[u].status = "Simulated" /\ variant[u].snap = variant'[u].snap
      BY <2>1, <1>4, <1>5, <1>6, <1>9
    <3> QED BY <2>1, <3>1, <1>1, <1>5 DEF RecordsInv, SimulatedHasWorkspace
  <2> QED BY <2>1, <1>5 DEF SimulatedHasWorkspace
<1> QED BY <1>11, <1>13, <1>14, <1>15, <1>16, <1>17, <1>18, <1>19, <1>20, <1>21 DEF VariantsInv, RecordsInv

LEMMA CompareKeeps ==
  ASSUME VariantsInv, NEW c \in Users, Compare(c)
  PROVE  VariantsInv'
<1> DEFINE k == running[c]
<1>1. VariantsTypeOK /\ RecordsInv /\ CallsInv
  BY DEF VariantsInv
<1>2. /\ k # NoCall /\ k.kind = "compare" /\ k.kind \in RecordKinds /\ Returns(c)
      /\ variant' = [variant EXCEPT ![k.v] = k.rec]
      /\ compared' = [compared EXCEPT ![k.v] = ws[k.v]] /\ fresh' = fresh \cup {k.v}
      /\ UNCHANGED <<planset, ws, activeSet, now, overlap, muddled, used, sims, reviewed, bad, latest,
                     look, acknowledged, promoted>>
  BY DEF Compare, Doing, past, RecordKinds
<1>3. k.rec.live /\ k.rec \in Record /\ k.v \in Vars /\ (k.v \in muddled \/ k.rec = variant[k.v])
  BY <1>1, <1>2, CallsOfUsers DEF CallsInv, KnownCall, AsLoaded
<1>4. Saves(c, k.rec)
  <2>1. /\ compared' \in [Vars -> Content] /\ fresh' \subseteq Vars /\ compared'[k.v] = ws[k.v]
        /\ \A u \in Vars \ {k.v} : compared'[u] = compared[u] /\ (u \in fresh' => u \in fresh)
    BY <1>1, <1>2, <1>3 DEF VariantsTypeOK
  <2> QED BY <2>1, <1>1, <1>2, <1>3 DEF Saves, VariantsTypeOK
<1>5. PICK v \in Vars : v = k.v
  BY <1>3
<1>6. ReviewedContent(v)'
  <2>1. variant'[v] = k.rec
    BY <1>1, <1>2, <1>5 DEF VariantsTypeOK
  <2> QED BY <2>1, <1>1, <1>2, <1>3, <1>5 DEF RecordsInv, ReviewedContent
<1>7. PromotesWhatWasReviewed'
  BY <1>1, <1>2 DEF RecordsInv, PromotesWhatWasReviewed
<1> QED BY <1>4, <1>5, <1>6, <1>7, SavesKeeps

LEMMA ReviewKeeps ==
  ASSUME VariantsInv, NEW c \in Users, Review(c)
  PROVE  VariantsInv'
<1> DEFINE k == running[c]
<1>1. VariantsTypeOK /\ RecordsInv /\ CallsInv
  BY DEF VariantsInv
<1>2. PICK verdict \in {"Reviewed", "Approved", "Rejected"} :
        /\ k # NoCall /\ k.kind = "review" /\ Returns(c) /\ reviewed < MaxReviews
        /\ reviewed' = reviewed + 1
        /\ variant' = [variant EXCEPT ![k.v] =
                         [k.rec EXCEPT !.status = verdict, !.reviews = @ \cup {reviewed'}]]
        /\ look' = [look EXCEPT ![k.v] = [stood |-> ws[k.v], saw |-> compared[k.v], fresh |-> k.v \in fresh]]
        /\ acknowledged' = acknowledged \cup {<<k.v, reviewed'>>}
        /\ UNCHANGED <<planset, ws, compared, activeSet, now, overlap, muddled, sims, bad, latest, fresh, promoted, used>>
  BY DEF Review, Doing
<1>3. k.rec.live /\ k.rec \in Record /\ k.v \in Vars /\ k.kind \in RecordKinds
  BY <1>1, <1>2, CallsOfUsers DEF CallsInv, KnownCall, RecordKinds
<1>4. reviewed' \in 0..MaxReviews /\ reviewed' \in 1..MaxReviews
  BY <1>1, <1>2, VariantsAssumption DEF VariantsTypeOK
<1> DEFINE r == [k.rec EXCEPT !.status = verdict, !.reviews = k.rec.reviews \cup {reviewed'}]
<1>5. /\ r \in Record /\ r.live /\ r.set = k.rec.set /\ r.status = verdict /\ verdict # "Simulated"
      /\ r.reviews = k.rec.reviews \cup {reviewed'}
  <2>1. verdict \in VariantStatus /\ verdict # "Simulated"
    BY DEF VariantStatus
  <2> QED BY <2>1, <1>3, <1>4 DEF Record
<1>6. variant' = [variant EXCEPT ![k.v] = r]
  BY <1>2
<1> HIDE DEF r
<1> DEFINE l == [stood |-> ws[k.v], saw |-> compared[k.v], fresh |-> k.v \in fresh]
<1>7. look' \in [Vars -> Looks] /\ (\A u \in Vars \ {k.v} : look'[u] = look[u]) /\ look'[k.v] = l
  <2>1. l \in Looks
    BY <1>1, <1>3 DEF VariantsTypeOK, Looks
  <2>2. look' = [look EXCEPT ![k.v] = l]
    BY <1>2
  <2> HIDE DEF l
  <2> QED BY <2>1, <2>2, <1>1, <1>3 DEF VariantsTypeOK
<1>13. l.stood = ws[k.v] /\ l.saw = compared[k.v] /\ (l.fresh => k.v \in fresh)
  OBVIOUS
<1> HIDE DEF l
<1>8. /\ acknowledged' \subseteq Vars \X (1..MaxReviews)
      /\ \A a \in acknowledged' : a \in acknowledged \/ (a[1] = k.v /\ a[2] \in r.reviews)
  BY <1>1, <1>2, <1>3, <1>4, <1>5 DEF VariantsTypeOK
<1>9. Saves(c, r)
  <2>1. planset' = planset /\ planset' \in [Sets -> PlanSet] /\ promoted' = promoted
        /\ promoted' \subseteq [of: Vars, held: Content, look: Looks]
        /\ compared' = compared /\ fresh' = fresh /\ compared \in [Vars -> Content] /\ fresh \subseteq Vars
    BY <1>1, <1>2 DEF VariantsTypeOK
  <2>2. UNCHANGED <<ws, activeSet, now, overlap, muddled, sims, bad, latest, used>> /\ k # NoCall /\ Returns(c)
    BY <1>2
  <2> QED BY <2>1, <2>2, <1>3, <1>4, <1>5, <1>6, <1>7, <1>8 DEF Saves
<1>10. PICK v \in Vars : v = k.v
  BY <1>3
<1>11. ReviewedContent(v)'
  <2>1. ComparedKnown(v) /\ ws' = ws /\ look'[v] = l
    BY <1>1, <1>2, <1>7, <1>10 DEF RecordsInv
  <2>2. ws[v] # 0 => Told(l, ws[v])
    BY <2>1, <1>10, <1>13 DEF ComparedKnown, Told
  <2> QED BY <2>1, <2>2 DEF ReviewedContent
<1>12. PromotesWhatWasReviewed'
  BY <1>1, <1>2 DEF RecordsInv, PromotesWhatWasReviewed
<1> QED BY <1>9, <1>10, <1>11, <1>12, SavesKeeps

\* What a promotion stages, in whole or in part.
LEMMA StagesReviewed ==
  ASSUME VariantsInv, NEW v \in Vars, Stages(v), v \in muddled \/ variant[v].status \in {"Reviewed", "Approved"},
         ws[v] # 0, UNCHANGED <<muddled, bad>>
  PROVE  /\ PromotesWhatWasReviewed' /\ promoted' \subseteq [of: Vars, held: Content, look: Looks]
         /\ \A p \in promoted' : p \in promoted \/ (p.of = v /\ p.held = ws[v] /\ ws[v] # 0)
<1> DEFINE q == [of |-> v, held |-> ws[v], look |-> look[v]]
<1>1. q \in [of: Vars, held: Content, look: Looks] /\ q.of = v /\ q.held = ws[v] /\ q.look = look[v]
  BY DEF VariantsInv, VariantsTypeOK
<1>2. promoted' = promoted \cup {q}
  BY DEF Stages
<1> HIDE DEF q
<1>3. promoted' \subseteq [of: Vars, held: Content, look: Looks]
  BY <1>1, <1>2 DEF VariantsInv, VariantsTypeOK
<1>4. \A p \in promoted' : p \in promoted \/ (p.of = v /\ p.held = ws[v] /\ ws[v] # 0)
  BY <1>1, <1>2
<1>5. q.of \in muddled \/ Told(q.look, q.held) \/ q.held \in bad
  BY <1>1 DEF VariantsInv, RecordsInv, ReviewedContent
<1>6. PromotesWhatWasReviewed'
  BY <1>2, <1>5 DEF VariantsInv, RecordsInv, PromotesWhatWasReviewed
<1> QED BY <1>3, <1>4, <1>6

LEMMA PromoteKeeps ==
  ASSUME VariantsInv, NEW c \in Users, Promote(c)
  PROVE  VariantsInv'
<1> DEFINE k == running[c]
<1>1. VariantsTypeOK /\ RecordsInv /\ CallsInv
  BY DEF VariantsInv
<1>2. /\ k # NoCall /\ k.kind = "promote" /\ Returns(c) /\ ws[k.v] # 0 /\ Stages(k.v)
      /\ variant' = [variant EXCEPT ![k.v] = [k.rec EXCEPT !.status = "Promoted"]]
      /\ planset' = IF planset[k.rec.set].live THEN [planset EXCEPT ![k.rec.set].active = {k.v}]
                    ELSE planset
      /\ UNCHANGED <<ws, compared, activeSet, now, overlap, muddled, sims, reviewed, bad, latest, fresh, look,
                     acknowledged, used>>
  BY DEF Promote, Doing
<1>3. /\ k.rec.live /\ k.rec \in Record /\ k.v \in Vars /\ k.kind \in RecordKinds /\ k.rec.set \in Sets
      /\ (k.v \in muddled \/ k.rec = variant[k.v]) /\ k.rec.status \in {"Reviewed", "Approved"}
  BY <1>1, <1>2, CallsOfUsers DEF CallsInv, KnownCall, AsLoaded, RecordKinds
<1> DEFINE r == [k.rec EXCEPT !.status = "Promoted"]
<1>4. /\ r \in Record /\ r.live /\ r.set = k.rec.set /\ r.status = "Promoted" /\ r.reviews = k.rec.reviews
  BY <1>3 DEF Record, VariantStatus
<1>5. variant' = [variant EXCEPT ![k.v] = r]
  BY <1>2
<1> HIDE DEF r
<1>6. /\ planset' \in [Sets -> PlanSet]
      /\ \A s \in Sets : /\ planset'[s].live = planset[s].live /\ planset'[s].list = planset[s].list
                         /\ planset'[s].at = planset[s].at
  <2> DEFINE q == [planset[k.rec.set] EXCEPT !.active = {k.v}]
  <2>1. /\ q \in PlanSet /\ q.live = planset[k.rec.set].live /\ q.list = planset[k.rec.set].list
        /\ q.at = planset[k.rec.set].at
    BY <1>1, <1>3 DEF VariantsTypeOK, PlanSet
  <2>2. planset' = [planset EXCEPT ![k.rec.set] = q] \/ planset' = planset
    BY <1>2
  <2> HIDE DEF q
  <2>3. planset \in [Sets -> PlanSet]
    BY <1>1 DEF VariantsTypeOK
  <2> QED BY <2>1, <2>2, <2>3, <1>3
<1>9. PICK v \in Vars : v = k.v
  BY <1>3
<1>7. /\ PromotesWhatWasReviewed' /\ promoted' \subseteq [of: Vars, held: Content, look: Looks]
      /\ \A p \in promoted' : p \in promoted \/ (p.of = v /\ p.held = ws[v] /\ ws[v] # 0)
  <2>1. Stages(v) /\ (v \in muddled \/ variant[v].status \in {"Reviewed", "Approved"}) /\ ws[v] # 0
        /\ UNCHANGED <<muddled, bad>>
    BY <1>2, <1>3, <1>9
  <2> QED BY <2>1, StagesReviewed
<1>8. Saves(c, r)
  <2>1. /\ UNCHANGED <<ws, activeSet, now, overlap, muddled, sims, bad, latest, used>> /\ k # NoCall /\ Returns(c)
        /\ look' = look /\ acknowledged' = acknowledged /\ reviewed' = reviewed /\ ws[k.v] # 0
        /\ compared' = compared /\ fresh' = fresh
    BY <1>2
  <2>2. \A p \in promoted' : p \in promoted \/ (p.of = k.v /\ p.held = ws[k.v] /\ ws[k.v] # 0)
    BY <1>7, <1>9
  <2>3. /\ reviewed \in 0..MaxReviews /\ look \in [Vars -> Looks]
        /\ acknowledged \subseteq Vars \X (1..MaxReviews)
        /\ compared \in [Vars -> Content] /\ fresh \subseteq Vars
    BY <1>1 DEF VariantsTypeOK
  <2>4. \A u \in Vars \ {k.v} : compared'[u] = compared[u] /\ (u \in fresh' => u \in fresh)
    BY <2>1
  <2> QED BY <2>1, <2>2, <2>3, <2>4, <1>3, <1>4, <1>5, <1>6, <1>7 DEF Saves
<1>10. ReviewedContent(v)'
  <2>1. variant'[v] = r
    BY <1>1, <1>5, <1>9 DEF VariantsTypeOK
  <2> QED BY <2>1, <1>4 DEF ReviewedContent
<1> QED BY <1>7, <1>8, <1>9, <1>10, SavesKeeps

LEMMA PromoteStopsKeeps ==
  ASSUME VariantsInv, NEW c \in Users, PromoteStops(c)
  PROVE  VariantsInv'
<1> DEFINE k == running[c]
<1>1. VariantsTypeOK /\ RecordsInv /\ CallsInv
  BY DEF VariantsInv
<1>2. /\ k # NoCall /\ k.kind = "promote" /\ Returns(c) /\ ws[k.v] # 0 /\ Stages(k.v)
      /\ planset' = planset /\ variant' = variant /\ ws' = ws /\ compared' = compared /\ activeSet' = activeSet
      /\ now' = now /\ overlap' = overlap /\ muddled' = muddled /\ sims' = sims /\ reviewed' = reviewed
      /\ bad' = bad /\ latest' = latest /\ fresh' = fresh /\ look' = look /\ acknowledged' = acknowledged
      /\ used' = used
  BY DEF PromoteStops, Doing, stored
<1>3. /\ k.v \in Vars /\ k.kind \in RecordKinds
      /\ (k.v \in muddled \/ k.rec = variant[k.v]) /\ k.rec.status \in {"Reviewed", "Approved"}
  BY <1>1, <1>2, CallsOfUsers DEF CallsInv, KnownCall, AsLoaded, RecordKinds
<1>4. PICK v \in Vars : v = k.v
  BY <1>3
<1>5. /\ PromotesWhatWasReviewed' /\ promoted' \subseteq [of: Vars, held: Content, look: Looks]
      /\ \A p \in promoted' : p \in promoted \/ (p.of = v /\ p.held = ws[v] /\ ws[v] # 0)
  <2>1. Stages(v) /\ (v \in muddled \/ variant[v].status \in {"Reviewed", "Approved"}) /\ ws[v] # 0
        /\ UNCHANGED <<muddled, bad>>
    BY <1>2, <1>3, <1>4
  <2> QED BY <2>1, StagesReviewed
<1>6. /\ running' \in [Users -> VCall \cup {NoCall}]
      /\ \A d \in Users : running'[d] = NoCall \/ (d # c /\ GoesOn(d))
  BY <1>1, <1>2, ReturnsEnds
<1>7. VariantsTypeOK'
  BY <1>1, <1>2, <1>5, <1>6 DEF VariantsTypeOK
<1>8. ASSUME NEW d \in Users \ {c} PROVE StillCall(d)
  <2>1. NewSet(d) /\ NewVariant(d) /\ AsLoaded(d) /\ OwnCopy(d) /\ Apart(c, d)
    BY <1>1 DEF CallsInv
  <2>2. StillNewSet(d) /\ StillNewVariant(d)
    BY <2>1, <1>2 DEF NewSet, NewVariant, StillNewSet, StillNewVariant
  <2>3. StillAsLoaded(d)
    BY <2>1, <1>2 DEF AsLoaded, StillAsLoaded
  <2>4. StillOwnCopy(d)
    <3> SUFFICES ASSUME Doing(d, "simulate"), running[d].v \notin muddled PROVE StillOwnCopy(d)
      BY <1>2 DEF StillOwnCopy
    <3>1. running[d].v # v
      BY <2>1, <1>2, <1>3, <1>4 DEF Apart, Doing, RecordKinds
    <3> QED BY <3>1, <2>1, <1>2, <1>5 DEF OwnCopy, StillOwnCopy
  <2> QED BY <2>2, <2>3, <2>4 DEF StillCall
<1>9. CallsInv'
  BY <1>1, <1>2, <1>6, <1>8, EndsKeepCalls
<1>10. Owned'
  <2>1. PICK o \in [1..MaxSims -> Vars] : OwnedBy(o)
    BY <1>1 DEF RecordsInv, Owned
  <2>2. \A p \in promoted' : p.held \in 1..sims /\ o[p.held] = p.of
    BY <2>1, <1>5 DEF OwnedBy
  <2>3. OwnedBy(o)'
    BY <2>1, <2>2, <1>2 DEF OwnedBy
  <2> QED BY <2>3, <1>1, <1>2 DEF Owned, RecordsInv
<1>11. IdsUsed' /\ ListsBounded'
  BY <1>1, <1>2 DEF RecordsInv, IdsUsed, ListsBounded
<1>12. ASSUME NEW u \in Vars PROVE ReviewedContent(u)' /\ ComparedKnown(u)'
  BY <1>1, <1>2 DEF RecordsInv, ReviewedContent, ComparedKnown
<1>13. ReviewsKept' /\ SetsListTheirVariants' /\ SimulatedHasWorkspace'
  BY <1>1, <1>2 DEF RecordsInv, ReviewsKept, SetsListTheirVariants, SimulatedHasWorkspace
<1> QED BY <1>5, <1>7, <1>9, <1>10, <1>11, <1>12, <1>13 DEF VariantsInv, RecordsInv

LEMMA SimulateTooBigKeeps ==
  ASSUME VariantsInv, NEW c \in Users, SimulateTooBig(c)
  PROVE  VariantsInv'
<1>1. VariantsTypeOK /\ RecordsInv /\ CallsInv
  BY DEF VariantsInv
<1>2. /\ Doing(c, "simulate") /\ Returns(c) /\ ws' = [ws EXCEPT ![running[c].v] = 0]
      /\ UNCHANGED <<planset, variant, compared, activeSet, now, overlap, muddled, used, sims, reviewed, bad,
                     latest, fresh, look, acknowledged, promoted>>
  BY DEF SimulateTooBig, trace, past
<1>3. PICK v \in Vars : v = running[c].v
  BY <1>1, <1>2, CallsOfUsers DEF Doing
<1>4. /\ ws' \in [Vars -> Content] /\ ws'[v] = 0 /\ \A u \in Vars \ {v} : ws'[u] = ws[u]
  BY <1>1, <1>2, <1>3, VariantsAssumption DEF VariantsTypeOK, Content
<1>5. /\ running' \in [Users -> VCall \cup {NoCall}]
      /\ \A d \in Users : running'[d] = NoCall \/ (d # c /\ GoesOn(d))
  BY <1>1, <1>2, ReturnsEnds
<1>6. VariantsTypeOK'
  BY <1>1, <1>2, <1>4, <1>5 DEF VariantsTypeOK
<1>7. ASSUME NEW d \in Users \ {c} PROVE StillCall(d)
  <2>1. NewSet(d) /\ NewVariant(d) /\ AsLoaded(d) /\ OwnCopy(d) /\ Apart(c, d)
    BY <1>1 DEF CallsInv
  <2>2. StillNewSet(d) /\ StillNewVariant(d)
    BY <2>1, <1>2 DEF NewSet, NewVariant, StillNewSet, StillNewVariant
  <2>3. StillAsLoaded(d)
    BY <2>1, <1>2 DEF AsLoaded, StillAsLoaded
  <2>4. StillOwnCopy(d)
    <3> SUFFICES ASSUME Doing(d, "simulate"), running[d].v \notin muddled PROVE StillOwnCopy(d)
      BY <1>2 DEF StillOwnCopy
    <3>1. running[d].v \in Vars \ {v}
      BY <2>1, <1>1, <1>2, <1>3, CallsOfUsers DEF Apart, Doing, RecordKinds
    <3> QED BY <3>1, <2>1, <1>2, <1>4 DEF OwnCopy, StillOwnCopy
  <2> QED BY <2>2, <2>3, <2>4 DEF StillCall
<1>8. CallsInv'
  BY <1>1, <1>2, <1>5, <1>7, EndsKeepCalls
<1>9. IdsUsed' /\ ListsBounded'
  BY <1>1, <1>2 DEF RecordsInv, IdsUsed, ListsBounded
<1>10. Owned'
  <2>1. PICK o \in [1..MaxSims -> Vars] : OwnedBy(o)
    BY <1>1 DEF RecordsInv, Owned
  <2>2. OwnedBy(o)'
    BY <2>1, <1>2, <1>4 DEF OwnedBy
  <2> QED BY <2>2, <1>1, <1>2 DEF Owned, RecordsInv
<1>11. ASSUME NEW u \in Vars PROVE ReviewedContent(u)' /\ ComparedKnown(u)'
  BY <1>1, <1>2, <1>4 DEF RecordsInv, ReviewedContent, ComparedKnown
<1>12. PromotesWhatWasReviewed' /\ ReviewsKept' /\ SetsListTheirVariants'
  BY <1>1, <1>2 DEF RecordsInv, PromotesWhatWasReviewed, ReviewsKept, SetsListTheirVariants
<1>13. SimulatedHasWorkspace'
  <2>1. v \in muddled \/ latest[v] \in bad
    BY <1>1, <1>2, <1>3 DEF CallsInv, OwnCopy
  <2>2. ASSUME NEW u \in Vars \ muddled', variant'[u].status = "Simulated"
        PROVE  (variant'[u].snap # 0 /\ ws'[u] = variant'[u].snap) \/ latest'[u] \in bad'
    BY <2>1, <2>2, <1>1, <1>2, <1>4 DEF RecordsInv, SimulatedHasWorkspace
  <2> QED BY <2>2 DEF SimulatedHasWorkspace
<1> QED BY <1>6, <1>8, <1>9, <1>10, <1>11, <1>12, <1>13 DEF VariantsInv, RecordsInv

LEMMA CreateVariantKeeps ==
  ASSUME VariantsInv, NEW c \in Users, CreateVariant(c)
  PROVE  VariantsInv'
<1> DEFINE k == running[c]
<1>1. VariantsTypeOK /\ RecordsInv /\ CallsInv
  BY DEF VariantsInv
<1>2. /\ k # NoCall /\ k.kind = "create_variant" /\ Returns(c)
      /\ variant' = [variant EXCEPT ![k.v] = [NoRecord EXCEPT !.live = TRUE, !.set = k.set]]
      /\ planset' = [planset EXCEPT ![k.set].live = TRUE, ![k.set].list = k.list \cup {k.v}]
      /\ UNCHANGED <<ws, compared, activeSet, now, overlap, muddled, used, sims, reviewed, bad, latest, fresh,
                     look, acknowledged, promoted>>
  BY DEF CreateVariant, Doing, trace, past
<1>3. KnownCall(c) /\ NewVariant(c) /\ AsLoaded(c)
  BY <1>1 DEF CallsInv
<1>4. /\ k.set \in Sets /\ k.set \in used /\ k.v \in used /\ k.v \in Vars /\ k.list \subseteq Vars
      /\ IsFiniteSet(k.list) /\ Cardinality(k.list) < MaxVars
  BY <1>1, <1>2, <1>3, CallsOfUsers DEF KnownCall
<1>5. PICK v \in Vars, s \in Sets : v = k.v /\ s = k.set
  BY <1>4
<1>6. /\ ~variant[v].live /\ (\A a \in acknowledged : a[1] # v)
      /\ (s \in muddled \/ (planset[s].live /\ planset[s].list = k.list))
  BY <1>2, <1>3, <1>5 DEF NewVariant, AsLoaded, Doing
<1> DEFINE r == [NoRecord EXCEPT !.live = TRUE, !.set = s]
<1>7. /\ r \in Record /\ r.live /\ r.set = s /\ r.status = "Draft"
  <2>1. PICK n \in Record : n = NoRecord /\ n.status = "Draft"
    BY NewRecordType DEF NoRecord
  <2>2. r = [n EXCEPT !.live = TRUE, !.set = s]
    BY <2>1
  <2> HIDE DEF r
  <2> QED BY <2>1, <2>2 DEF Record
<1>8. /\ variant' \in [Vars -> Record] /\ variant'[v] = r /\ \A u \in Vars \ {v} : variant'[u] = variant[u]
  <2>1. variant' = [variant EXCEPT ![v] = r]
    BY <1>2, <1>5
  <2> HIDE DEF r
  <2> QED BY <2>1, <1>1, <1>7 DEF VariantsTypeOK
<1> HIDE DEF r
<1>9. /\ planset' \in [Sets -> PlanSet]
      /\ planset'[s].live /\ planset'[s].list = k.list \cup {v} /\ planset'[s].at = planset[s].at
      /\ \A t \in Sets \ {s} : planset'[t] = planset[t]
  <2> DEFINE q == [planset[s] EXCEPT !.live = TRUE, !.list = k.list \cup {v}]
  <2>1. q \in PlanSet /\ q.live /\ q.list = k.list \cup {v} /\ q.at = planset[s].at
    BY <1>1, <1>4 DEF VariantsTypeOK, PlanSet
  <2>2. planset' = [planset EXCEPT ![s] = q]
    BY <1>1, <1>2, <1>5 DEF VariantsTypeOK, PlanSet
  <2> HIDE DEF q
  <2>3. planset \in [Sets -> PlanSet]
    BY <1>1 DEF VariantsTypeOK
  <2> QED BY <2>1, <2>2, <2>3
<1>10. /\ running' \in [Users -> VCall \cup {NoCall}]
       /\ \A d \in Users : running'[d] = NoCall \/ (d # c /\ GoesOn(d))
  BY <1>1, <1>2, ReturnsEnds
<1>11. VariantsTypeOK'
  BY <1>1, <1>2, <1>7, <1>8, <1>9, <1>10 DEF VariantsTypeOK
<1>12. ASSUME NEW d \in Users \ {c} PROVE StillCall(d)
  <2>1. NewSet(d) /\ NewVariant(d) /\ AsLoaded(d) /\ OwnCopy(d) /\ KnownCall(d) /\ Apart(c, d)
    BY <1>1 DEF CallsInv
  <2>2. StillNewSet(d)
    <3> SUFFICES ASSUME Doing(d, "create_set") PROVE StillNewSet(d)
      BY DEF StillNewSet
    <3>1. running[d].set # s /\ running[d].set \in Sets
      BY <2>1, <1>2, <1>5 DEF NewSet, KnownCall, Doing
    <3>2. ASSUME NEW u \in Vars, variant'[u].live PROVE variant'[u].set # running[d].set
      BY <3>1, <3>2, <2>1, <1>7, <1>8 DEF NewSet
    <3> QED BY <3>1, <3>2, <2>1, <1>9 DEF NewSet, StillNewSet
  <2>3. StillNewVariant(d)
    <3> SUFFICES ASSUME Doing(d, "create_variant") PROVE StillNewVariant(d)
      BY DEF StillNewVariant
    <3>1. running[d].v # v /\ running[d].v \in Vars
      BY <2>1, <1>1, <1>2, <1>5, CallsOfUsers DEF NewVariant, Doing
    <3> QED BY <3>1, <2>1, <1>2, <1>8 DEF NewVariant, StillNewVariant
  <2>4. StillAsLoaded(d)
    <3> SUFFICES ASSUME running[d] # NoCall PROVE StillAsLoaded(d)
      BY DEF StillAsLoaded
    <3>1. running[d].v \in Vars
      BY <1>1, CallsOfUsers
    <3>2. running[d].kind \in RecordKinds => running[d].v # v
      BY <1>2, <1>3, <1>5 DEF NewVariant, Doing
    <3>3. running[d].kind = "create_variant" =>
            running[d].set \in Sets /\ (running[d].set \in muddled \/ running[d].set # s)
      BY <2>1, <1>2, <1>5 DEF KnownCall, Apart
    <3> QED BY <3>1, <3>2, <3>3, <2>1, <1>2, <1>8, <1>9 DEF AsLoaded, StillAsLoaded
  <2>5. StillOwnCopy(d)
    BY <2>1, <1>2 DEF OwnCopy, StillOwnCopy
  <2> QED BY <2>2, <2>3, <2>4, <2>5 DEF StillCall
<1>13. CallsInv'
  BY <1>1, <1>2, <1>10, <1>12, EndsKeepCalls
<1>14. IdsUsed'
  BY <1>1, <1>2, <1>4, <1>5, <1>7, <1>8, <1>9 DEF RecordsInv, IdsUsed
<1>15. Owned'
  BY <1>1, <1>2 DEF RecordsInv, Owned, OwnedBy
<1>16. IsFiniteSet(planset'[s].list) /\ Cardinality(planset'[s].list) <= MaxVars
  <2>1. PICK l : l = k.list
    OBVIOUS
  <2>2. IsFiniteSet(l) /\ Cardinality(l) < MaxVars /\ planset'[s].list = l \cup {v}
    BY <2>1, <1>4, <1>9
  <2>3. /\ IsFiniteSet(l \cup {v})
        /\ Cardinality(l \cup {v}) = IF v \in l THEN Cardinality(l) ELSE Cardinality(l) + 1
    BY <2>2, FS_AddElement
  <2>4. Cardinality(l) \in Nat
    BY <2>2, FS_CardinalityType
  <2>5. MaxVars \in Nat
    BY VariantsAssumption
  <2>6. Cardinality(l \cup {v}) <= MaxVars
    BY <2>2, <2>3, <2>4, <2>5
  <2> QED BY <2>2, <2>3, <2>6
<1>17. ListsBounded'
  <2> SUFFICES ASSUME NEW t \in Sets
               PROVE  /\ planset'[t].at <= now /\ IsFiniteSet(planset'[t].list)
                      /\ Cardinality(planset'[t].list) <= MaxVars
    BY <1>2 DEF ListsBounded
  <2>1. /\ planset[t].at <= now /\ IsFiniteSet(planset[t].list)
        /\ Cardinality(planset[t].list) <= MaxVars
    BY <1>1 DEF RecordsInv, ListsBounded
  <2>2. CASE t = s
    BY <2>1, <2>2, <1>9, <1>16
  <2>3. CASE t # s
    BY <2>1, <2>3, <1>9
  <2> QED BY <2>2, <2>3
<1>18. ASSUME NEW u \in Vars PROVE ReviewedContent(u)' /\ ComparedKnown(u)'
  <2>1. ComparedKnown(u)'
    BY <1>1, <1>2 DEF RecordsInv, ComparedKnown
  <2>2. ReviewedContent(u)'
    BY <1>1, <1>2, <1>7, <1>8 DEF RecordsInv, ReviewedContent
  <2> QED BY <2>1, <2>2
<1>19. PromotesWhatWasReviewed'
  BY <1>1, <1>2 DEF RecordsInv, PromotesWhatWasReviewed
<1>20. ReviewsKept'
  <2> SUFFICES ASSUME NEW a \in acknowledged, variant'[a[1]].live, a[1] \notin muddled
               PROVE  a[2] \in variant'[a[1]].reviews
    BY <1>2 DEF ReviewsKept
  <2>1. a[1] \in Vars \ {v}
    BY <1>1, <1>6 DEF VariantsTypeOK
  <2> QED BY <2>1, <1>1, <1>8 DEF RecordsInv, ReviewsKept
<1>21. SetsListTheirVariants'
  <2>1. ASSUME NEW u \in Vars \ muddled', variant'[u].live, variant'[u].set \notin muddled'
        PROVE  planset'[variant'[u].set].live /\ u \in planset'[variant'[u].set].list
    <3>1. CASE u = v
      BY <3>1, <1>7, <1>8, <1>9
    <3>2. CASE u # v
      <4>1. variant'[u] = variant[u] /\ variant[u].set \in Sets
        BY <2>1, <3>2, <1>1, <1>8 DEF RecordsInv, IdsUsed
      <4>2. planset[variant[u].set].live /\ u \in planset[variant[u].set].list
        BY <2>1, <4>1, <1>1, <1>2 DEF RecordsInv, SetsListTheirVariants
      <4>3. CASE variant[u].set = s
        <5>1. u \in k.list
          BY <2>1, <4>1, <4>2, <4>3, <1>2, <1>6
        <5> QED BY <5>1, <4>1, <4>3, <1>9
      <4>4. CASE variant[u].set # s
        <5>1. planset'[variant[u].set] = planset[variant[u].set]
          BY <4>1, <4>4, <1>9
        <5> QED BY <5>1, <4>1, <4>2
      <4> QED BY <4>3, <4>4
    <3> QED BY <3>1, <3>2
  <2>2. ASSUME NEW t \in Sets PROVE Cardinality(planset'[t].list) <= MaxVars
    BY <1>1, <1>9, <1>16 DEF RecordsInv, SetsListTheirVariants
  <2> QED BY <2>1, <2>2 DEF SetsListTheirVariants
<1>22. SimulatedHasWorkspace'
  <2>1. ASSUME NEW u \in Vars \ muddled', variant'[u].status = "Simulated"
        PROVE  (variant'[u].snap # 0 /\ ws'[u] = variant'[u].snap) \/ latest'[u] \in bad'
    BY <2>1, <1>1, <1>2, <1>7, <1>8 DEF RecordsInv, SimulatedHasWorkspace
  <2> QED BY <2>1 DEF SimulatedHasWorkspace
<1> QED BY <1>11, <1>13, <1>14, <1>15, <1>17, <1>18, <1>19, <1>20, <1>21, <1>22 DEF VariantsInv, RecordsInv

-----------------------------------------------------------------------------
\* What a call is about to leave to retention: plan sets ps and records rec.
Prepared(ps, rec) ==
  /\ ps \in [Sets -> PlanSet] /\ rec \in [Vars -> Record]
  /\ \A s \in Sets : /\ ps[s].live => s \in used
                     /\ ps[s].at <= now /\ IsFiniteSet(ps[s].list) /\ Cardinality(ps[s].list) <= MaxVars
  /\ \A u \in Vars : /\ rec[u].live => u \in used /\ rec[u].set \in Sets /\ rec[u].set \in used
                     /\ ~rec[u].live => rec[u] = NoRecord
  /\ \A u \in Vars \ muddled :
       /\ rec[u].live /\ rec[u].set \notin muddled => ps[rec[u].set].live /\ u \in ps[rec[u].set].list
       /\ rec[u].status = "Simulated" => (rec[u].snap # 0 /\ ws[u] = rec[u].snap) \/ latest[u] \in bad'
       /\ rec[u].status \in {"Reviewed", "Approved"} /\ ws[u] # 0 => Told(look[u], ws[u]) \/ ws[u] \in bad'
  /\ \A a \in acknowledged : rec[a[1]].live /\ a[1] \notin muddled => a[2] \in rec[a[1]].reviews
  /\ \A p \in promoted : p.of \in muddled \/ Told(p.look, p.held) \/ p.held \in bad'
\* And to a call that goes on.
PreparedFor(d, ps, rec) == LET k == running[d] IN k # NoCall =>
  /\ k.kind = "create_set" => ~ps[k.set].live /\ \A u \in Vars : rec[u].live => rec[u].set # k.set
  /\ k.kind = "create_variant" =>
       /\ ~rec[k.v].live
       /\ k.set \in muddled \/ (ps[k.set].live /\ ps[k.set].list = k.list)
  /\ k.kind \in RecordKinds => k.v \in muddled \/ k.rec = rec[k.v]
  /\ k.kind = "simulate" /\ k.v \notin muddled => ws[k.v] \in bad'

LEMMA EmptyPlanSet ==
  /\ NoPlanSet.live = FALSE /\ NoPlanSet.at = 0 /\ NoPlanSet.list = {}
  /\ IsFiniteSet(NoPlanSet.list) /\ Cardinality(NoPlanSet.list) <= MaxVars
<1>1. NoPlanSet.live = FALSE /\ NoPlanSet.at = 0 /\ NoPlanSet.list = {}
  BY DEF NoPlanSet
<1>2. IsFiniteSet({}) /\ Cardinality({}) = 0
  BY FS_EmptySet
<1>3. MaxVars \in Nat
  BY VariantsAssumption
<1> QED BY <1>1, <1>2, <1>3

LEMMA EmptyRecord ==
  /\ NoRecord.live = FALSE /\ NoRecord.status = "Draft"
  BY DEF NoRecord

\* Retention spares the calls that go on, or muddles what they work on.
LEMMA RetentionSpares ==
  ASSUME VariantsInv, NEW c \in Users, NEW ps, NEW rec, Prepared(ps, rec), Fate(c, ps, rec, ws),
         bad' \subseteq bad, UNCHANGED <<latest, acknowledged, promoted>>,
         NEW d \in Users \ {c}, PreparedFor(d, ps, rec)
  PROVE  StillCall(d)
<1> DEFINE k == running[d]
<1>1. VariantsTypeOK /\ RecordsInv /\ CallsInv
  BY DEF VariantsInv
<1>2. KnownCall(d) /\ NewSet(d) /\ NewVariant(d) /\ AsLoaded(d) /\ OwnCopy(d)
  BY <1>1 DEF CallsInv
<1>3. muddled \subseteq muddled'
  BY DEF Fate
<1>4. ASSUME NEW s \in Sets
      PROVE  \/ planset'[s] = ps[s]
             \/ planset'[s] = NoPlanSet /\ (InUse(c, s) => s \in muddled')
  BY DEF Fate
<1>5. ASSUME NEW u \in Vars
      PROVE  \/ variant'[u] = rec[u] /\ ws'[u] = ws[u]
             \/ /\ variant'[u] = Unsimulated(rec[u]) /\ ws'[u] = 0
                /\ rec[u].live /\ (InUse(c, u) => u \in muddled')
             \/ variant'[u] = NoRecord /\ ws'[u] = 0 /\ (InUse(c, u) => u \in muddled')
  BY DEF Fate
<1>6. ASSUME NEW u \in Vars
      PROVE  rec[u] \in Record /\ Unsimulated(rec[u]).live = rec[u].live /\ Unsimulated(rec[u]).set = rec[u].set
  <2>1. rec[u] \in Record
    BY DEF Prepared
  <2> QED BY <2>1, UnsimulatedKeeps
<1>7. StillNewSet(d)
  <2> SUFFICES ASSUME Doing(d, "create_set") PROVE StillNewSet(d)
    BY DEF StillNewSet
  <2>1. /\ k.set \in Sets /\ ~ps[k.set].live
        /\ \A u \in Vars : rec[u].live => rec[u].set # k.set
    BY <1>2 DEF PreparedFor, KnownCall, Doing
  <2>2. ~planset'[k.set].live
    BY <2>1, <1>4, EmptyPlanSet
  <2>3. ASSUME NEW u \in Vars, variant'[u].live PROVE variant'[u].set # k.set
    BY <2>1, <2>3, <1>5, <1>6, EmptyRecord
  <2> QED BY <2>2, <2>3 DEF StillNewSet
<1>8. StillNewVariant(d)
  <2> SUFFICES ASSUME Doing(d, "create_variant") PROVE StillNewVariant(d)
    BY DEF StillNewVariant
  <2>1. ~rec[k.v].live /\ (\A a \in acknowledged : a[1] # k.v) /\ k.v \in Vars
    BY <1>1, <1>2, CallsOfUsers DEF PreparedFor, NewVariant, Doing
  <2>2. ~variant'[k.v].live
    BY <2>1, <1>5, <1>6, EmptyRecord
  <2> QED BY <2>1, <2>2 DEF StillNewVariant
<1>9. StillAsLoaded(d)
  <2> SUFFICES ASSUME k # NoCall PROVE StillAsLoaded(d)
    BY DEF StillAsLoaded
  <2>1. ASSUME k.kind \in RecordKinds PROVE k.v \in muddled' \/ k.rec = variant'[k.v]
    <3>1. k.v \in Vars /\ InUse(c, k.v)
      BY <2>1, <1>1, CallsOfUsers DEF InUse
    <3>2. k.v \in muddled \/ k.rec = rec[k.v]
      BY <2>1 DEF PreparedFor
    <3> QED BY <3>1, <3>2, <1>3, <1>5
  <2>2. ASSUME k.kind = "create_variant"
        PROVE  k.set \in muddled' \/ (planset'[k.set].live /\ planset'[k.set].list = k.list)
    <3>1. k.set \in Sets /\ InUse(c, k.set)
      BY <2>2, <1>2 DEF InUse, KnownCall
    <3>2. k.set \in muddled \/ (ps[k.set].live /\ ps[k.set].list = k.list)
      BY <2>2 DEF PreparedFor
    <3> QED BY <3>1, <3>2, <1>3, <1>4
  <2> QED BY <2>1, <2>2 DEF StillAsLoaded
<1>10. StillOwnCopy(d)
  <2> SUFFICES ASSUME Doing(d, "simulate"), k.v \notin muddled' PROVE StillOwnCopy(d)
    BY DEF StillOwnCopy
  <2>1. /\ k.v \in Vars /\ InUse(c, k.v) /\ k.v \notin muddled /\ ws[k.v] \in bad'
        /\ ws[k.v] # 0 /\ ws[k.v] = latest[k.v] /\ \A p \in promoted : p.of = k.v => p.held # ws[k.v]
    BY <1>1, <1>2, <1>3, CallsOfUsers DEF PreparedFor, OwnCopy, Doing, InUse, RecordKinds
  <2>2. ws'[k.v] = ws[k.v]
    BY <2>1, <1>5
  <2> QED BY <2>1, <2>2 DEF StillOwnCopy
<1> QED BY <1>7, <1>8, <1>9, <1>10 DEF StillCall

LEMMA RetentionKeeps ==
  ASSUME VariantsInv, NEW c \in Users, NEW ps, NEW rec, Prepared(ps, rec), Retain(c, ps, rec, ws),
         Returns(c), bad' \subseteq bad, activeSet' \in Sets \cup {NoSet},
         UNCHANGED <<now, overlap, used, sims, reviewed, latest, look, acknowledged, promoted>>,
         \A d \in Users \ {c} : PreparedFor(d, ps, rec)
  PROVE  VariantsInv'
<1>1. VariantsTypeOK /\ RecordsInv /\ CallsInv
  BY DEF VariantsInv
<1>2. ps \in [Sets -> PlanSet] /\ rec \in [Vars -> Record] /\ ws \in [Vars -> Content]
      /\ muddled \subseteq Sets \cup Vars /\ compared \in [Vars -> Content] /\ fresh \subseteq Vars
  BY <1>1 DEF Prepared, VariantsTypeOK
<1>3. Fate(c, ps, rec, ws)
  BY <1>2, RetentionDecides
<1>4. /\ planset' \in [Sets -> PlanSet] /\ variant' \in [Vars -> Record] /\ ws' \in [Vars -> Content]
      /\ muddled \subseteq muddled' /\ muddled' \subseteq Sets \cup Vars
      /\ compared' \in [Vars -> Content] /\ fresh' \subseteq fresh
      /\ \A u \in Vars : compared'[u] = compared[u] \/ (compared'[u] = 0 /\ u \notin fresh')
  BY <1>3 DEF Fate
<1>5. ASSUME NEW s \in Sets
      PROVE  planset'[s] = ps[s] \/ (planset'[s] = NoPlanSet /\ s \in OldSets(ps))
  BY <1>3 DEF Fate
<1>6. ASSUME NEW u \in Vars
      PROVE  \/ variant'[u] = rec[u] /\ ws'[u] = ws[u] /\ rec[u].set \notin OldSets(ps)
             \/ variant'[u] = Unsimulated(rec[u]) /\ ws'[u] = 0 /\ rec[u].set \notin OldSets(ps) /\ rec[u].live
             \/ variant'[u] = NoRecord /\ ws'[u] = 0
  BY <1>3 DEF Fate
<1>7. ASSUME NEW u \in Vars
      PROVE  /\ Unsimulated(rec[u]) \in Record /\ Unsimulated(rec[u]).live = rec[u].live
             /\ Unsimulated(rec[u]).set = rec[u].set /\ Unsimulated(rec[u]).reviews = rec[u].reviews
             /\ Unsimulated(rec[u]).status # "Simulated"
  BY <1>2, UnsimulatedKeeps
<1>8. /\ now' = now /\ overlap' = overlap /\ used' = used /\ sims' = sims /\ reviewed' = reviewed
      /\ latest' = latest /\ look' = look /\ acknowledged' = acknowledged /\ promoted' = promoted
  OBVIOUS
<1>9. /\ running' \in [Users -> VCall \cup {NoCall}]
      /\ \A d \in Users : running'[d] = NoCall \/ (d # c /\ GoesOn(d))
  BY <1>1, ReturnsEnds
<1>10. ASSUME NEW u \in Vars
       PROVE  /\ rec[u].live => u \in used /\ rec[u].set \in Sets /\ rec[u].set \in used
              /\ ~rec[u].live => rec[u] = NoRecord
  BY DEF Prepared
<1>11. VariantsTypeOK'
  <2>1. ASSUME NEW u \in Vars, ~variant'[u].live PROVE variant'[u] = NoRecord
    BY <2>1, <1>6, <1>7, <1>10
  <2> QED BY <2>1, <1>1, <1>4, <1>8, <1>9 DEF VariantsTypeOK
<1>12. \A d \in Users \ {c} : StillCall(d)
  BY <1>3, RetentionSpares
<1>13. CallsInv'
  BY <1>1, <1>4, <1>8, <1>9, <1>12, EndsKeepCalls
<1>14. IdsUsed'
  <2>1. ASSUME NEW s \in Sets, planset'[s].live PROVE s \in used
    BY <2>1, <1>5, EmptyPlanSet DEF Prepared
  <2>2. ASSUME NEW u \in Vars, variant'[u].live
        PROVE  u \in used /\ variant'[u].set \in Sets /\ variant'[u].set \in used
    BY <2>2, <1>6, <1>7, <1>10, EmptyRecord
  <2> QED BY <2>1, <2>2, <1>1, <1>8 DEF IdsUsed, RecordsInv
<1>15. Owned'
  <2>1. PICK o \in [1..MaxSims -> Vars] : OwnedBy(o)
    BY <1>1 DEF RecordsInv, Owned
  <2>2. ASSUME NEW u \in Vars PROVE ws'[u] # 0 => ws'[u] = ws[u]
    BY <1>6
  <2>3. OwnedBy(o)'
    BY <2>1, <2>2, <1>8 DEF OwnedBy
  <2> QED BY <2>3, <1>1, <1>8 DEF Owned, RecordsInv
<1>16. ListsBounded'
  <2> SUFFICES ASSUME NEW s \in Sets
               PROVE  /\ planset'[s].at <= now /\ IsFiniteSet(planset'[s].list)
                      /\ Cardinality(planset'[s].list) <= MaxVars
    BY <1>8 DEF ListsBounded
  <2>1. CASE planset'[s] = ps[s]
    BY <2>1 DEF Prepared
  <2>2. CASE planset'[s] = NoPlanSet
    <3>1. 0 <= now
      BY <1>1, VariantsAssumption DEF VariantsTypeOK
    <3> QED BY <3>1, <2>2, EmptyPlanSet
  <2> QED BY <2>1, <2>2, <1>5
<1>17. ASSUME NEW u \in Vars PROVE ReviewedContent(u)'
  <2> SUFFICES ASSUME u \notin muddled', variant'[u].status \in {"Reviewed", "Approved"}, ws'[u] # 0
               PROVE  Told(look[u], ws'[u]) \/ ws'[u] \in bad'
    BY <1>8 DEF ReviewedContent
  <2>1. variant'[u] = rec[u] /\ ws'[u] = ws[u]
    BY <1>6
  <2>2. u \in Vars \ muddled
    BY <1>4
  <2> QED BY <2>1, <2>2 DEF Prepared
<1>22. ASSUME NEW u \in Vars PROVE ComparedKnown(u)'
  <2>1. ComparedKnown(u) /\ latest'[u] = latest[u] /\ latest[u] \in Nat /\ ws'[u] \in {0, ws[u]}
    BY <1>1, <1>6, VariantsAssumption DEF RecordsInv, VariantsTypeOK, Content
  <2>2. CASE compared'[u] = compared[u]
    BY <2>1, <2>2, <1>4 DEF ComparedKnown
  <2>3. CASE compared'[u] = 0 /\ u \notin fresh'
    BY <2>1, <2>3 DEF ComparedKnown
  <2> QED BY <2>2, <2>3, <1>4
<1>18. PromotesWhatWasReviewed'
  BY <1>4, <1>8 DEF Prepared, PromotesWhatWasReviewed
<1>19. ReviewsKept'
  <2> SUFFICES ASSUME NEW a \in acknowledged, variant'[a[1]].live, a[1] \notin muddled'
               PROVE  a[2] \in variant'[a[1]].reviews
    BY <1>8 DEF ReviewsKept
  <2>1. a[1] \in Vars
    BY <1>1 DEF VariantsTypeOK
  <2>2. rec[a[1]].live /\ variant'[a[1]].reviews = rec[a[1]].reviews
    BY <2>1, <1>6, <1>7, EmptyRecord
  <2> QED BY <2>2, <1>4 DEF Prepared
<1>20. SetsListTheirVariants'
  <2>1. ASSUME NEW u \in Vars \ muddled', variant'[u].live, variant'[u].set \notin muddled'
        PROVE  planset'[variant'[u].set].live /\ u \in planset'[variant'[u].set].list
    <3>1. rec[u].live /\ variant'[u].set = rec[u].set /\ rec[u].set \notin OldSets(ps)
      BY <2>1, <1>6, <1>7, EmptyRecord
    <3>2. rec[u].set \in Sets /\ planset'[rec[u].set] = ps[rec[u].set]
      BY <3>1, <1>5, <1>10
    <3>3. u \in Vars \ muddled /\ rec[u].set \notin muddled
      BY <2>1, <3>1, <1>4
    <3>4. ps[rec[u].set].live /\ u \in ps[rec[u].set].list
      BY <3>1, <3>3 DEF Prepared
    <3> QED BY <3>1, <3>2, <3>4
  <2>2. \A s \in Sets : Cardinality(planset'[s].list) <= MaxVars
    BY <1>16 DEF ListsBounded
  <2> QED BY <2>1, <2>2 DEF SetsListTheirVariants
<1>21. SimulatedHasWorkspace'
  <2>1. ASSUME NEW u \in Vars \ muddled', variant'[u].status = "Simulated"
        PROVE  (variant'[u].snap # 0 /\ ws'[u] = variant'[u].snap) \/ latest[u] \in bad'
    <3>1. variant'[u] = rec[u] /\ ws'[u] = ws[u]
      BY <2>1, <1>6, <1>7, EmptyRecord
    <3>2. u \in Vars \ muddled
      BY <1>4
    <3> QED BY <2>1, <3>1, <3>2 DEF Prepared
  <2> QED BY <2>1, <1>8 DEF SimulatedHasWorkspace
<1> QED BY <1>11, <1>13, <1>14, <1>15, <1>16, <1>17, <1>18, <1>19, <1>20, <1>21, <1>22 DEF VariantsInv, RecordsInv

LEMMA CreateSetKeeps ==
  ASSUME VariantsInv, NEW c \in Users, CreateSet(c)
  PROVE  VariantsInv'
<1> DEFINE k == running[c]
           s == k.set
           new == [NoPlanSet EXCEPT !.live = TRUE, !.at = now]
           ps == [planset EXCEPT ![s] = new]
<1>1. VariantsTypeOK /\ RecordsInv /\ CallsInv
  BY DEF VariantsInv
<1>2. /\ k # NoCall /\ k.kind = "create_set" /\ Returns(c) /\ activeSet' = s
      /\ Retain(c, ps, variant, ws)
      /\ UNCHANGED <<now, overlap, used, sims, reviewed, bad, latest, look, acknowledged, promoted>>
  BY DEF CreateSet, Doing, past
<1>3. KnownCall(c) /\ NewSet(c)
  BY <1>1 DEF CallsInv
<1>4. /\ s \in Sets /\ s \in used /\ ~planset[s].live
      /\ \A u \in Vars : variant[u].live => variant[u].set # s
  BY <1>2, <1>3 DEF KnownCall, NewSet, Doing
<1>5. now \in 0..MaxNow /\ now <= now
  BY <1>1, VariantsAssumption DEF VariantsTypeOK
<1>6. new \in PlanSet /\ new.live /\ new.at = now /\ new.list = {}
  BY <1>5, VariantsAssumption DEF NoPlanSet, PlanSet
<1>7. IsFiniteSet({}) /\ Cardinality({}) <= MaxVars
  BY EmptyPlanSet
<1> HIDE DEF new
<1>8. ps \in [Sets -> PlanSet] /\ ps[s] = new /\ \A t \in Sets \ {s} : ps[t] = planset[t]
  BY <1>1, <1>4, <1>6 DEF VariantsTypeOK
<1> HIDE DEF ps
<1>9. ASSUME NEW t \in Sets
      PROVE  /\ ps[t].live => t \in used
             /\ ps[t].at <= now /\ IsFiniteSet(ps[t].list) /\ Cardinality(ps[t].list) <= MaxVars
  <2>1. CASE t = s
    BY <2>1, <1>4, <1>5, <1>6, <1>7, <1>8
  <2>2. CASE t # s
    <3>1. /\ planset[t].live => t \in used
          /\ planset[t].at <= now /\ IsFiniteSet(planset[t].list) /\ Cardinality(planset[t].list) <= MaxVars
      BY <1>1 DEF RecordsInv, IdsUsed, ListsBounded
    <3> QED BY <2>2, <3>1, <1>8
  <2> QED BY <2>1, <2>2
<1>10. ASSUME NEW u \in Vars
       PROVE  /\ variant[u].live => u \in used /\ variant[u].set \in Sets /\ variant[u].set \in used
              /\ ~variant[u].live => variant[u] = NoRecord
              /\ variant[u].live => variant[u].set \in Sets \ {s}
  BY <1>1, <1>4 DEF VariantsTypeOK, RecordsInv, IdsUsed
<1>11. ASSUME NEW u \in Vars \ muddled
       PROVE  /\ variant[u].live /\ variant[u].set \notin muddled =>
                   ps[variant[u].set].live /\ u \in ps[variant[u].set].list
              /\ variant[u].status = "Simulated" =>
                   (variant[u].snap # 0 /\ ws[u] = variant[u].snap) \/ latest[u] \in bad'
              /\ variant[u].status \in {"Reviewed", "Approved"} /\ ws[u] # 0 =>
                   Told(look[u], ws[u]) \/ ws[u] \in bad'
  <2>1. variant[u].live /\ variant[u].set \notin muddled =>
          ps[variant[u].set].live /\ u \in ps[variant[u].set].list
    BY <1>1, <1>8, <1>10 DEF RecordsInv, SetsListTheirVariants
  <2>2. variant[u].status = "Simulated" =>
          (variant[u].snap # 0 /\ ws[u] = variant[u].snap) \/ latest[u] \in bad'
    BY <1>1, <1>2 DEF RecordsInv, SimulatedHasWorkspace
  <2>3. variant[u].status \in {"Reviewed", "Approved"} /\ ws[u] # 0 => Told(look[u], ws[u]) \/ ws[u] \in bad'
    BY <1>1, <1>2 DEF RecordsInv, ReviewedContent
  <2> QED BY <2>1, <2>2, <2>3
<1>12. Prepared(ps, variant)
  <2>1. /\ \A a \in acknowledged : variant[a[1]].live /\ a[1] \notin muddled => a[2] \in variant[a[1]].reviews
        /\ \A p \in promoted : p.of \in muddled \/ Told(p.look, p.held) \/ p.held \in bad'
    BY <1>1, <1>2 DEF RecordsInv, ReviewsKept, PromotesWhatWasReviewed
  <2>2. variant \in [Vars -> Record]
    BY <1>1 DEF VariantsTypeOK
  <2> QED BY <2>1, <2>2, <1>8, <1>9, <1>10, <1>11 DEF Prepared
<1>13. ASSUME NEW d \in Users \ {c} PROVE PreparedFor(d, ps, variant)
  <2>1. KnownCall(d) /\ NewSet(d) /\ NewVariant(d) /\ AsLoaded(d) /\ OwnCopy(d)
    BY <1>1 DEF CallsInv
  <2> SUFFICES ASSUME running[d] # NoCall PROVE PreparedFor(d, ps, variant)
    BY DEF PreparedFor
  <2>2. running[d].kind \in {"create_set", "create_variant"} => running[d].set \in Sets \ {s}
    BY <2>1, <1>2, <1>3 DEF KnownCall, NewSet, Doing
  <2>3. running[d].kind = "create_set" =>
          ~ps[running[d].set].live /\ \A u \in Vars : variant[u].live => variant[u].set # running[d].set
    BY <2>1, <2>2, <1>8 DEF NewSet, Doing
  <2>4. running[d].kind = "create_variant" =>
          /\ ~variant[running[d].v].live
          /\ running[d].set \in muddled \/ (ps[running[d].set].live /\ ps[running[d].set].list = running[d].list)
    BY <2>1, <2>2, <1>8 DEF NewVariant, AsLoaded, Doing
  <2>5. running[d].kind \in RecordKinds => running[d].v \in muddled \/ running[d].rec = variant[running[d].v]
    BY <2>1 DEF AsLoaded
  <2>6. running[d].kind = "simulate" /\ running[d].v \notin muddled => ws[running[d].v] \in bad'
    BY <2>1, <1>2 DEF OwnCopy, Doing
  <2> QED BY <2>3, <2>4, <2>5, <2>6 DEF PreparedFor
<1>14. bad' \subseteq bad /\ activeSet' \in Sets \cup {NoSet}
  BY <1>2, <1>4
<1> HIDE DEF s, k
<1>15. Returns(c) /\ Retain(c, ps, variant, ws)
       /\ UNCHANGED <<now, overlap, used, sims, reviewed, latest, look, acknowledged, promoted>>
  BY <1>2
<1> QED BY <1>12, <1>13, <1>14, <1>15, RetentionKeeps

LEMMA SimulateSavesKeeps ==
  ASSUME VariantsInv, NEW c \in Users, SimulateSaves(c)
  PROVE  VariantsInv'
<1> DEFINE k == running[c]
           r == [k.rec EXCEPT !.status = "Simulated", !.snap = ws[k.v]]
           rec == [variant EXCEPT ![k.v] = r]
<1>1. VariantsTypeOK /\ RecordsInv /\ CallsInv
  BY DEF VariantsInv
<1>2. /\ k # NoCall /\ k.kind = "simulate" /\ Returns(c) /\ Retain(c, planset, rec, ws)
      /\ bad' = bad \ {ws[k.v]}
      /\ UNCHANGED <<activeSet, now, overlap, used, sims, reviewed, latest, look, acknowledged, promoted>>
  BY DEF SimulateSaves, Doing, past
<1>3. KnownCall(c) /\ AsLoaded(c) /\ OwnCopy(c) /\ k.kind \in RecordKinds
  BY <1>1, <1>2 DEF CallsInv, RecordKinds
<1>4. PICK v \in Vars : v = k.v
  BY <1>1, <1>2, CallsOfUsers
<1>5. /\ k.rec \in Record /\ k.rec.live /\ k.rec.set \in Sets /\ k.rec.set \in used /\ v \in used
      /\ v \in muddled \/ k.rec = variant[v]
      /\ v \in muddled \/ (ws[v] # 0 /\ ws[v] = latest[v] /\ \A p \in promoted : p.of = v => p.held # ws[v])
  BY <1>1, <1>2, <1>3, <1>4, CallsOfUsers DEF KnownCall, AsLoaded, OwnCopy, Doing
<1>6. /\ r \in Record /\ r.live /\ r.set = k.rec.set /\ r.status = "Simulated" /\ r.snap = ws[v]
      /\ r.live = k.rec.live /\ r.reviews = k.rec.reviews
  <2>1. ws[v] \in Content /\ "Simulated" \in VariantStatus
    BY <1>1 DEF VariantsTypeOK, VariantStatus
  <2> QED BY <2>1, <1>4, <1>5 DEF Record
<1> HIDE DEF r
<1>7. rec \in [Vars -> Record] /\ rec[v] = r /\ \A u \in Vars \ {v} : rec[u] = variant[u]
  BY <1>1, <1>4, <1>6 DEF VariantsTypeOK
<1>8. Retain(c, planset, rec, ws) /\ bad' = bad \ {ws[v]}
  BY <1>2, <1>4
<1> HIDE DEF rec
<1>9. PICK o \in [1..MaxSims -> Vars] : OwnedBy(o)
  BY <1>1 DEF RecordsInv, Owned
<1>10. 0 \notin bad /\ bad' \subseteq bad
  BY <1>1, <1>8, VariantsAssumption DEF RecordsInv, Owned, VariantsTypeOK, Content
\* No other variant has what the simulation made.
<1>11. ASSUME NEW u \in Vars \ {v}
       PROVE  /\ ws[u] \in bad => ws[u] \in bad'
              /\ latest[u] \in bad => latest[u] \in bad'
              /\ \A p \in promoted : p.of = u /\ p.held \in bad => p.held \in bad'
  <2>1. ws[v] = 0 \/ o[ws[v]] = v
    BY <1>9 DEF OwnedBy
  <2>2. /\ ws[u] = 0 \/ o[ws[u]] = u
        /\ latest[u] = 0 \/ o[latest[u]] = u
        /\ \A p \in promoted : p.of = u => o[p.held] = u
    BY <1>9 DEF OwnedBy
  <2> QED BY <2>1, <2>2, <1>8, <1>10
<1>12. ASSUME NEW t \in Sets
       PROVE  /\ planset[t].live => t \in used
              /\ planset[t].at <= now /\ IsFiniteSet(planset[t].list) /\ Cardinality(planset[t].list) <= MaxVars
  BY <1>1 DEF RecordsInv, IdsUsed, ListsBounded
<1>13. ASSUME NEW u \in Vars
       PROVE  /\ rec[u].live => u \in used /\ rec[u].set \in Sets /\ rec[u].set \in used
              /\ ~rec[u].live => rec[u] = NoRecord
  <2>1. CASE u = v
    BY <2>1, <1>5, <1>6, <1>7
  <2>2. CASE u # v
    <3>1. rec[u] = variant[u]
      BY <2>2, <1>7
    <3> QED BY <3>1, <1>1 DEF VariantsTypeOK, RecordsInv, IdsUsed
  <2> QED BY <2>1, <2>2
<1>14. ASSUME NEW u \in Vars \ muddled
       PROVE  /\ rec[u].live /\ rec[u].set \notin muddled =>
                   planset[rec[u].set].live /\ u \in planset[rec[u].set].list
              /\ rec[u].status = "Simulated" =>
                   (rec[u].snap # 0 /\ ws[u] = rec[u].snap) \/ latest[u] \in bad'
              /\ rec[u].status \in {"Reviewed", "Approved"} /\ ws[u] # 0 =>
                   Told(look[u], ws[u]) \/ ws[u] \in bad'
  <2>1. rec[u].live = variant[u].live /\ rec[u].set = variant[u].set
    BY <1>5, <1>6, <1>7
  <2>2. rec[u].live /\ rec[u].set \notin muddled =>
          planset[rec[u].set].live /\ u \in planset[rec[u].set].list
    BY <2>1, <1>1 DEF RecordsInv, SetsListTheirVariants
  <2>3. CASE u = v
    BY <2>2, <2>3, <1>5, <1>6, <1>7
  <2>4. CASE u # v
    <3>1. rec[u] = variant[u]
      BY <2>4, <1>7
    <3>2. rec[u].status = "Simulated" => (rec[u].snap # 0 /\ ws[u] = rec[u].snap) \/ latest[u] \in bad
      BY <3>1, <1>1 DEF RecordsInv, SimulatedHasWorkspace
    <3>3. rec[u].status \in {"Reviewed", "Approved"} /\ ws[u] # 0 => Told(look[u], ws[u]) \/ ws[u] \in bad
      BY <3>1, <1>1 DEF RecordsInv, ReviewedContent
    <3> QED BY <2>2, <2>4, <3>2, <3>3, <1>11
  <2> QED BY <2>3, <2>4
<1>15. ASSUME NEW a \in acknowledged, rec[a[1]].live, a[1] \notin muddled PROVE a[2] \in rec[a[1]].reviews
  <2>1. a[1] \in Vars
    BY <1>1 DEF VariantsTypeOK
  <2>2. rec[a[1]].live = variant[a[1]].live /\ rec[a[1]].reviews = variant[a[1]].reviews
    BY <2>1, <1>5, <1>6, <1>7, <1>15
  <2> QED BY <2>2, <1>1, <1>15 DEF RecordsInv, ReviewsKept
<1>16. ASSUME NEW p \in promoted PROVE p.of \in muddled \/ Told(p.look, p.held) \/ p.held \in bad'
  <2>1. p.of \in Vars /\ (p.of \in muddled \/ Told(p.look, p.held) \/ p.held \in bad)
    BY <1>1 DEF VariantsTypeOK, RecordsInv, PromotesWhatWasReviewed
  <2> QED BY <2>1, <1>5, <1>8, <1>11
<1>17. Prepared(planset, rec)
  <2>1. planset \in [Sets -> PlanSet]
    BY <1>1 DEF VariantsTypeOK
  <2> QED BY <2>1, <1>7, <1>12, <1>13, <1>14, <1>15, <1>16 DEF Prepared
<1>18. ASSUME NEW d \in Users \ {c} PROVE PreparedFor(d, planset, rec)
  <2>1. KnownCall(d) /\ NewSet(d) /\ NewVariant(d) /\ AsLoaded(d) /\ OwnCopy(d) /\ Apart(c, d)
    BY <1>1 DEF CallsInv
  <2> SUFFICES ASSUME running[d] # NoCall PROVE PreparedFor(d, planset, rec)
    BY DEF PreparedFor
  <2>2. running[d].v \in Vars
    BY <1>1, CallsOfUsers
  <2>3. running[d].kind \in RecordKinds => running[d].v \in muddled \/ running[d].v # v
    BY <2>1, <1>2, <1>3, <1>4 DEF Apart
  <2>4. running[d].kind = "create_set" =>
          ~planset[running[d].set].live /\ \A u \in Vars : rec[u].live => rec[u].set # running[d].set
    BY <2>1, <1>2, <1>3, <1>6, <1>7 DEF NewSet, Doing
  <2>5. running[d].kind = "create_variant" =>
          /\ ~rec[running[d].v].live
          /\ running[d].set \in muddled \/ (planset[running[d].set].live /\ planset[running[d].set].list = running[d].list)
    <3>1. running[d].kind = "create_variant" => running[d].v # v
      BY <2>1, <1>2, <1>3, <1>4 DEF NewVariant, Doing
    <3> QED BY <3>1, <2>1, <2>2, <1>7 DEF NewVariant, AsLoaded, Doing
  <2>6. running[d].kind \in RecordKinds => running[d].v \in muddled \/ running[d].rec = rec[running[d].v]
    BY <2>1, <2>2, <2>3, <1>7 DEF AsLoaded
  <2>7. running[d].kind = "simulate" /\ running[d].v \notin muddled => ws[running[d].v] \in bad'
    BY <2>1, <2>2, <2>3, <1>11 DEF OwnCopy, Doing, RecordKinds
  <2> QED BY <2>4, <2>5, <2>6, <2>7 DEF PreparedFor
<1>19. activeSet' \in Sets \cup {NoSet} /\ Returns(c)
       /\ UNCHANGED <<now, overlap, used, sims, reviewed, latest, look, acknowledged, promoted>>
  BY <1>1, <1>2 DEF VariantsTypeOK
<1> QED BY <1>8, <1>10, <1>17, <1>18, <1>19, RetentionKeeps

LEMMA SimulateFailsKeeps ==
  ASSUME VariantsInv, NEW c \in Users, SimulateFails(c)
  PROVE  VariantsInv'
<1>1. VariantsTypeOK /\ RecordsInv /\ CallsInv
  BY DEF VariantsInv
<1>2. /\ Returns(c) /\ Retain(c, planset, variant, ws) /\ bad' = bad
      /\ UNCHANGED <<activeSet, now, overlap, used, sims, reviewed, latest, look, acknowledged, promoted>>
  BY DEF SimulateFails, past
<1>3. ASSUME NEW t \in Sets
      PROVE  /\ planset[t].live => t \in used
             /\ planset[t].at <= now /\ IsFiniteSet(planset[t].list) /\ Cardinality(planset[t].list) <= MaxVars
  BY <1>1 DEF RecordsInv, IdsUsed, ListsBounded
<1>4. ASSUME NEW u \in Vars
      PROVE  /\ variant[u].live => u \in used /\ variant[u].set \in Sets /\ variant[u].set \in used
             /\ ~variant[u].live => variant[u] = NoRecord
  BY <1>1 DEF VariantsTypeOK, RecordsInv, IdsUsed
<1>5. ASSUME NEW u \in Vars \ muddled
      PROVE  /\ variant[u].live /\ variant[u].set \notin muddled =>
                  planset[variant[u].set].live /\ u \in planset[variant[u].set].list
             /\ variant[u].status = "Simulated" =>
                  (variant[u].snap # 0 /\ ws[u] = variant[u].snap) \/ latest[u] \in bad'
             /\ variant[u].status \in {"Reviewed", "Approved"} /\ ws[u] # 0 =>
                  Told(look[u], ws[u]) \/ ws[u] \in bad'
  <2>1. variant[u].live /\ variant[u].set \notin muddled =>
          planset[variant[u].set].live /\ u \in planset[variant[u].set].list
    BY <1>1 DEF RecordsInv, SetsListTheirVariants
  <2>2. variant[u].status = "Simulated" =>
          (variant[u].snap # 0 /\ ws[u] = variant[u].snap) \/ latest[u] \in bad'
    BY <1>1, <1>2 DEF RecordsInv, SimulatedHasWorkspace
  <2>3. variant[u].status \in {"Reviewed", "Approved"} /\ ws[u] # 0 => Told(look[u], ws[u]) \/ ws[u] \in bad'
    BY <1>1, <1>2 DEF RecordsInv, ReviewedContent
  <2> QED BY <2>1, <2>2, <2>3
<1>6. Prepared(planset, variant)
  <2>1. /\ \A a \in acknowledged : variant[a[1]].live /\ a[1] \notin muddled => a[2] \in variant[a[1]].reviews
        /\ \A p \in promoted : p.of \in muddled \/ Told(p.look, p.held) \/ p.held \in bad'
    BY <1>1, <1>2 DEF RecordsInv, ReviewsKept, PromotesWhatWasReviewed
  <2>2. planset \in [Sets -> PlanSet] /\ variant \in [Vars -> Record]
    BY <1>1 DEF VariantsTypeOK
  <2> QED BY <2>1, <2>2, <1>3, <1>4, <1>5 DEF Prepared
<1>7. ASSUME NEW d \in Users \ {c} PROVE PreparedFor(d, planset, variant)
  <2>1. NewSet(d) /\ NewVariant(d) /\ AsLoaded(d) /\ OwnCopy(d)
    BY <1>1 DEF CallsInv
  <2> QED BY <2>1, <1>2 DEF PreparedFor, NewSet, NewVariant, AsLoaded, OwnCopy, Doing
<1>8. bad' \subseteq bad /\ activeSet' \in Sets \cup {NoSet}
  BY <1>1, <1>2 DEF VariantsTypeOK
<1> QED BY <1>2, <1>6, <1>7, <1>8, RetentionKeeps

-----------------------------------------------------------------------------
LEMMA VariantsInitInv == VariantsInit => VariantsInv
<1> SUFFICES ASSUME VariantsInit PROVE VariantsInv
  OBVIOUS
<1> USE DEF VariantsInit
<1>1. NoPlanSet \in PlanSet /\ NoRecord \in Record /\ 0 \in Content
  BY NewRecordType, VariantsAssumption DEF NoPlanSet, PlanSet, Content
<1>12. NoLook \in Looks
  BY <1>1 DEF NoLook, Looks
<1>2. VariantsTypeOK
  BY <1>1, <1>12, VariantsAssumption DEF VariantsTypeOK, Content
<1>3. \A s \in Sets : planset[s] = NoPlanSet
  OBVIOUS
<1>4. \A u \in Vars : variant[u] = NoRecord /\ ws[u] = 0 /\ latest[u] = 0 /\ compared[u] = 0
  OBVIOUS
<1>5. IdsUsed
  BY <1>3, <1>4, EmptyPlanSet, EmptyRecord DEF IdsUsed
<1>6. Owned
  <2>1. PICK u \in Vars : TRUE
    BY VariantsAssumption
  <2>2. [n \in 1..MaxSims |-> u] \in [1..MaxSims -> Vars]
    OBVIOUS
  <2> QED BY <2>2, <1>4 DEF Owned, OwnedBy
<1>7. ListsBounded
  <2>1. 0 <= now
    OBVIOUS
  <2> QED BY <2>1, <1>3, EmptyPlanSet DEF ListsBounded
<1>8. \A u \in Vars : ReviewedContent(u) /\ ComparedKnown(u)
  BY <1>4 DEF ReviewedContent, ComparedKnown
<1>9. PromotesWhatWasReviewed /\ ReviewsKept
  BY DEF PromotesWhatWasReviewed, ReviewsKept
<1>10. SetsListTheirVariants /\ SimulatedHasWorkspace
  BY <1>3, <1>4, EmptyPlanSet, EmptyRecord DEF SetsListTheirVariants, SimulatedHasWorkspace
<1>11. CallsInv
  BY DEF CallsInv, KnownCall, NewSet, NewVariant, AsLoaded, OwnCopy, Apart, Doing
<1> QED BY <1>2, <1>5, <1>6, <1>7, <1>8, <1>9, <1>10, <1>11 DEF VariantsInv, RecordsInv

\* Every call keeps the invariant, whatever other calls it meets.
LEMMA VariantsNextInv == VariantsInv /\ [VariantsNext]_variantVars => VariantsInv'
<1> SUFFICES ASSUME VariantsInv, [VariantsNext]_variantVars PROVE VariantsInv'
  OBVIOUS
<1>1. CASE Second \/ UNCHANGED variantVars
  BY <1>1, QuietActions
<1>2. ASSUME NEW c \in Users, SimulateRuns(c) \/ Dies(c) PROVE VariantsInv'
  BY <1>2, QuietActions
<1>3. ASSUME NEW c \in Users, BeginSet(c) \/ BeginVariant(c) \/ BeginSimulate(c) PROVE VariantsInv'
  BY <1>3, BeginSetKeeps, BeginVariantKeeps, BeginSimulateKeeps
<1>4. ASSUME NEW c \in Users, BeginCompare(c) \/ BeginReview(c) \/ BeginPromote(c) PROVE VariantsInv'
  BY <1>4, BeginRecordKeeps
<1>5. ASSUME NEW c \in Users, CreateSet(c) \/ CreateVariant(c) \/ SimulateTooBig(c) \/ SimulateFails(c)
                             \/ SimulateSaves(c)
      PROVE  VariantsInv'
  BY <1>5, CreateSetKeeps, CreateVariantKeeps, SimulateTooBigKeeps, SimulateFailsKeeps, SimulateSavesKeeps
<1>6. ASSUME NEW c \in Users, Compare(c) \/ Review(c) \/ Promote(c) \/ PromoteStops(c) PROVE VariantsInv'
  BY <1>6, CompareKeeps, ReviewKeeps, PromoteKeeps, PromoteStopsKeeps
<1> QED BY <1>1, <1>2, <1>3, <1>4, <1>5, <1>6 DEF VariantsNext

\* Retention takes the oldest: a plan set of this second goes only before another one.
LEMMA NewSetSurvives ==
  ASSUME VariantsInv, [VariantsNext]_variantVars
  PROVE  [\A c \in Users :
            Doing(c, "create_set") /\ activeSet' = running[c].set /\ activeSet' # activeSet =>
              \/ planset'[activeSet'].live
              \/ \E s \in LiveSets(planset) : planset[s].at = now]_variantVars
<1> SUFFICES ASSUME activeSet' # activeSet
             PROVE  \/ planset'[activeSet'].live
                    \/ \E s \in LiveSets(planset) : planset[s].at = now
  OBVIOUS
<1>1. VariantsTypeOK /\ RecordsInv /\ CallsInv
  BY DEF VariantsInv
<1>2. PICK c \in Users : CreateSet(c)
  BY DEF VariantsNext, variantVars, stored, past, trace, BeginSet, BeginVariant, CreateVariant, BeginSimulate,
         SimulateTooBig, SimulateFails, SimulateRuns, SimulateSaves, BeginCompare, Compare, BeginReview,
         Review, BeginPromote, Promote, PromoteStops, Dies, Second
<1> DEFINE k == running[c]
           s == k.set
           new == [NoPlanSet EXCEPT !.live = TRUE, !.at = now]
           ps == [planset EXCEPT ![s] = new]
<1>3. k # NoCall /\ k.kind = "create_set" /\ activeSet' = s /\ Retain(c, ps, variant, ws)
  BY <1>2 DEF CreateSet, Doing
<1>4. s \in Sets
  BY <1>1, <1>3 DEF CallsInv, KnownCall
<1>5. now \in 0..MaxNow /\ now \in Nat
  BY <1>1, VariantsAssumption DEF VariantsTypeOK
<1>6. new \in PlanSet /\ new.live /\ new.at = now
  BY <1>5, VariantsAssumption DEF NoPlanSet, PlanSet
<1> HIDE DEF new
<1>7. ps \in [Sets -> PlanSet] /\ ps[s] = new /\ \A t \in Sets \ {s} : ps[t] = planset[t]
  BY <1>1, <1>4, <1>6 DEF VariantsTypeOK
<1> HIDE DEF ps
<1>8. planset'[s] = ps[s] \/ s \in OldSets(ps)
  <2>1. Fate(c, ps, variant, ws)
    BY <1>1, <1>3, <1>7, RetentionDecides DEF VariantsTypeOK
  <2> QED BY <2>1, <1>4 DEF Fate
<1>9. CASE planset'[s] = ps[s]
  BY <1>3, <1>6, <1>7, <1>9
<1>10. CASE s \in OldSets(ps)
  <2> DEFINE after == {t \in LiveSets(ps) : Before(ps, s, t)}
  <2>1. Cardinality(after) >= RetainSets
    BY <1>10 DEF OldSets
  <2>2. after # {}
    <3> HIDE DEF after
    <3>1. RetainSets \in Nat \ {0} /\ Cardinality({}) = 0
      BY VariantsAssumption, FS_EmptySet
    <3> QED BY <2>1, <3>1
  <2>3. PICK t \in LiveSets(ps) : Before(ps, s, t)
    BY <2>2
  <2>4. t \in Sets /\ ps[t].live /\ (now < ps[t].at \/ (now = ps[t].at /\ s < t))
    BY <2>3, <1>6, <1>7 DEF LiveSets, Before
  <2>5. t # s
    BY <2>4, <1>4, <1>5, <1>6, <1>7, VariantsAssumption
  <2>6. planset[t].live /\ planset[t].at <= now /\ (now < planset[t].at \/ now = planset[t].at)
    BY <2>4, <2>5, <1>1, <1>7 DEF RecordsInv, ListsBounded
  <2>7. planset[t].at \in Nat
    BY <2>4, <1>1, VariantsAssumption DEF VariantsTypeOK, PlanSet
  <2>8. planset[t].at = now
    BY <2>6, <2>7, <1>5
  <2> QED BY <2>4, <2>6, <2>8 DEF LiveSets
<1> QED BY <1>8, <1>9, <1>10

\* What plan sets and variants keep, for any number of users, ids and limits: reviews
\* and promotions, lists and workspaces, and a plan set that its own creation kept.
THEOREM VariantsSafe == VariantsSpec => VariantsKeep
<1>1. VariantsSpec => []VariantsInv
  BY VariantsInitInv, VariantsNextInv, PTL DEF VariantsSpec
<1>2. VariantsInv => VariantsTypeOK /\ PromotesWhatWasReviewed /\ ReviewsKept
  BY DEF VariantsInv, RecordsInv
<1>3. VariantsInv => SetsListTheirVariants /\ SimulatedHasWorkspace
  BY DEF VariantsInv, RecordsInv
<1>4. VariantsSpec => CreatedSetSurvives
  BY <1>1, NewSetSurvives, PTL DEF VariantsSpec, CreatedSetSurvives
<1> QED BY <1>1, <1>2, <1>3, <1>4, PTL DEF VariantsKeep

-----------------------------------------------------------------------------
(* PlanGate                                                                *)

USE RequestsAssumption, LimitsAssumption

-----------------------------------------------------------------------------
(* The inductive invariant.                                                *)

Counted == \A c \in Conns : started[c] <= spent[c] /\ started[c] <= MaxHazardous
\* A plan at a node has a node left to run.
NodesLeft ==
  \A q \in Requests : kind[q] # "call" /\ at[q] \in {"gate", "budget", "tool", "stuck"} => todo[q] > 0
\* What a request has started for nobody was a node of the active plan it executes, which
\* has that many nodes fewer to run.
Uncounted ==
  \A q \in Requests :
    /\ uncounted[q] > 0 => kind[q] = "active" /\ at[q] # "idle"
    /\ uncounted[q] + todo[q] <= MaxNodes + (IF at[q] \in {"tool", "answered"} THEN 1 ELSE 0)
    /\ uncounted[q] <= MaxNodes
\* A registration that has not happened yet has left nothing to take.
NotYet == \A q \in Requests : at[q] # "answered" => slot # q /\ taken[q] = 0
Kept   == \A q \in Requests : /\ kind[q] = "call" => at[q] \notin {"wait", "plan", "finish", "stuck"}
                              /\ kind[q] = "register" => at[q] \in {"idle", "wait", "answered"}
                              /\ kind[q] = "run" => at[q] \notin {"wait", "stuck"}
                              /\ kind[q] = "active" => at[q] # "budget"

IInv == TypeOK /\ Counted /\ Uncounted /\ NodesLeft /\ NotYet /\ TakenOnce /\ Kept /\ OnePlanAtATime

LEMMA InitOK == Init => IInv
  BY DEF Init, IInv, TypeOK, Counted, Uncounted, NodesLeft, NotYet, TakenOnce, Kept, OnePlanAtATime,
         Executing, Kinds, Places

\* What a request is, and where it starts.
Enters(k, place) ==
  \/ k = "call" /\ place = "gate"
  \/ k = "run" /\ place = "plan"
  \/ k \in {"active", "register"} /\ place = "wait"

LEMMA SendIs ==
  ASSUME NEW q \in Requests, Send(q)
  PROVE  \E k \in Kinds, place \in Places :
           /\ Enters(k, place) /\ kind' = [kind EXCEPT ![q] = k] /\ at' = [at EXCEPT ![q] = place]
           /\ flag' \in {flag, [flag EXCEPT ![Of[q]] = TRUE]}
           /\ k \in {"run", "active"} => flag' = [flag EXCEPT ![Of[q]] = TRUE]
           /\ k \in {"call", "register"} => flag' = flag
<1>1. PICK k \in Kinds :
        /\ kind' = [kind EXCEPT ![q] = k]
        /\ CASE k = "call" -> Goto(q, "gate") /\ UNCHANGED flag
             [] k = "run" -> StartRun(q)
             [] k = "active" -> Goto(q, "wait") /\ SetFlag(q, TRUE)
             [] k = "register" -> Goto(q, "wait") /\ UNCHANGED flag
  BY DEF Send
<1>2. CASE k = "call"
  BY <1>1, <1>2 DEF Goto, Enters, Kinds, Places
<1>3. CASE k = "run"
  BY <1>1, <1>3 DEF StartRun, SetFlag, Goto, Enters, Kinds, Places
<1>4. CASE k = "active"
  BY <1>1, <1>4 DEF SetFlag, Goto, Enters, Kinds, Places
<1>5. CASE k = "register"
  BY <1>1, <1>5 DEF Goto, Enters, Kinds, Places
<1> QED BY <1>2, <1>3, <1>4, <1>5 DEF Kinds

LEMMA TypeStep == ASSUME IInv, [Next]_vars PROVE TypeOK'
<1>1. ASSUME NEW q \in Requests, Send(q) PROVE TypeOK'
  <2>1. PICK k \in Kinds, place \in Places :
          /\ Enters(k, place) /\ kind' = [kind EXCEPT ![q] = k] /\ at' = [at EXCEPT ![q] = place]
          /\ flag' \in {flag, [flag EXCEPT ![Of[q]] = TRUE]}
    BY <1>1, SendIs
  <2>2. at[q] = "idle" /\ todo' = [todo EXCEPT ![q] = MaxNodes]
        /\ UNCHANGED <<spent, slot, holder, started, uncounted, taken, refused>>
    BY <1>1 DEF Send
  <2>3. MaxNodes \in 0..MaxNodes /\ Of[q] \in Conns
    OBVIOUS
  <2>4. flag' \in [Conns -> BOOLEAN] /\ todo' \in [Requests -> 0..MaxNodes]
    BY <2>1, <2>2, <2>3 DEF IInv, TypeOK
  <2>5. disturbed' \subseteq Conns
    BY <1>1, <2>3 DEF Send, IInv, TypeOK
  <2> QED BY <2>1, <2>2, <2>4, <2>5 DEF IInv, TypeOK
<1>2. ASSUME NEW q \in Requests, Register(q) PROVE TypeOK'
  BY <1>2 DEF Register, Goto, IInv, TypeOK, Places
<1>3. ASSUME NEW q \in Requests, TakeActive(q) PROVE TypeOK'
  <2>1. at' \in [Requests -> Places] /\ flag' \in [Conns -> BOOLEAN]
    BY <1>3 DEF TakeActive, Goto, SetFlag, IInv, TypeOK, Places
  <2>2. taken' \in [Requests -> Nat] /\ slot' \in Requests \cup {None} /\ holder' \in Requests \cup {None}
    <3>1. CASE slot = None
      BY <1>3, <3>1 DEF TakeActive, IInv, TypeOK
    <3>2. CASE slot # None
      <4>1. slot \in Requests /\ taken[slot] + 1 \in Nat
        BY <3>2 DEF IInv, TypeOK
      <4>2. taken' = [taken EXCEPT ![slot] = @ + 1] /\ slot' = None /\ holder' \in {q, holder}
        BY <1>3, <3>2 DEF TakeActive
      <4> QED BY <4>1, <4>2 DEF IInv, TypeOK
    <3> QED BY <3>1, <3>2
  <2> QED BY <1>3, <2>1, <2>2 DEF TakeActive, IInv, TypeOK
<1>4. ASSUME NEW q \in Requests, NextNode(q) PROVE TypeOK'
  BY <1>4 DEF NextNode, Goto, IInv, TypeOK, Places
<1>5. ASSUME NEW q \in Requests, Gate(q) PROVE TypeOK'
  BY <1>5 DEF Gate, Refused, Goto, IInv, TypeOK, Places
<1>10. ASSUME NEW q \in Requests, PassAsHuman(q) PROVE TypeOK'
  <2>1. uncounted[q] + 1 \in Nat
    BY DEF IInv, TypeOK
  <2> QED BY <1>10, <2>1 DEF PassAsHuman, Goto, IInv, TypeOK, Places
<1>6. ASSUME NEW q \in Requests, Budget(q) PROVE TypeOK'
  BY <1>6 DEF Budget, Refused, Goto, IInv, TypeOK, Places
<1>7. ASSUME NEW q \in Requests, Tool(q) PROVE TypeOK'
  <2>1. kind[q] # "call" => todo[q] - 1 \in 0..MaxNodes
    BY <1>7 DEF Tool, IInv, TypeOK, NodesLeft
  <2> QED BY <1>7, <2>1 DEF Tool, Goto, IInv, TypeOK, Places
<1>8. ASSUME NEW q \in Requests, Finish(q) \/ TimeOut(q) PROVE TypeOK'
  BY <1>8 DEF Finish, TimeOut, Unlock, Goto, SetFlag, IInv, TypeOK, Places
<1>9. ASSUME UNCHANGED vars PROVE TypeOK'
  BY <1>9 DEF vars, requests, IInv, TypeOK
<1> QED BY <1>1, <1>2, <1>3, <1>4, <1>5, <1>6, <1>7, <1>8, <1>9, <1>10 DEF Next, Step

LEMMA Step1 == ASSUME IInv, [Next]_vars PROVE (Counted /\ NodesLeft /\ NotYet /\ TakenOnce /\ Kept)'
<1> DEFINE Goal == (Counted /\ NodesLeft /\ NotYet /\ TakenOnce /\ Kept)'
<1> USE DEF IInv, Counted, NodesLeft, NotYet, TakenOnce, Kept
<1>1. ASSUME NEW q \in Requests, Send(q) PROVE Goal
  <2>1. PICK k \in Kinds, place \in Places :
          /\ Enters(k, place) /\ kind' = [kind EXCEPT ![q] = k] /\ at' = [at EXCEPT ![q] = place]
          /\ flag' \in {flag, [flag EXCEPT ![Of[q]] = TRUE]}
    BY <1>1, SendIs
  <2>2. at[q] = "idle" /\ todo' = [todo EXCEPT ![q] = MaxNodes]
        /\ UNCHANGED <<spent, slot, holder, started, uncounted, taken, refused>>
    BY <1>1 DEF Send
  <2>3. Kept' /\ NodesLeft'
    BY <2>1, <2>2 DEF Enters, TypeOK
  <2> QED BY <2>1, <2>2, <2>3 DEF TypeOK
<1>2. ASSUME NEW q \in Requests, Register(q) PROVE Goal
  BY <1>2 DEF Register, Goto, TypeOK
<1>3. ASSUME NEW q \in Requests, TakeActive(q) PROVE Goal
  BY <1>3 DEF TakeActive, Goto, SetFlag, TypeOK
<1>4. ASSUME NEW q \in Requests, NextNode(q) PROVE Goal
  BY <1>4 DEF NextNode, Goto, TypeOK
<1>5. ASSUME NEW q \in Requests, Gate(q) PROVE Goal
  BY <1>5 DEF Gate, Refused, Goto, TypeOK
<1>10. ASSUME NEW q \in Requests, PassAsHuman(q) PROVE Goal
  BY <1>10 DEF PassAsHuman, Goto, TypeOK
<1>6. ASSUME NEW q \in Requests, Budget(q) PROVE Goal
  BY <1>6 DEF Budget, Refused, Goto, TypeOK
<1>7. ASSUME NEW q \in Requests, Tool(q) PROVE Goal
  BY <1>7 DEF Tool, Goto, TypeOK
<1>8. ASSUME NEW q \in Requests, Finish(q) \/ TimeOut(q) PROVE Goal
  BY <1>8 DEF Finish, TimeOut, Unlock, Limited, Waiting, Goto, SetFlag, TypeOK
<1>9. ASSUME UNCHANGED vars PROVE Goal
  BY <1>9 DEF vars, requests
<1> QED BY <1>1, <1>2, <1>3, <1>4, <1>5, <1>6, <1>7, <1>8, <1>9, <1>10 DEF Next, Step

\* A request starts as many tools for nobody as its active plan has nodes.
LEMMA StepUncounted == ASSUME IInv, [Next]_vars PROVE Uncounted'
<1> USE DEF IInv, Uncounted
<1>0. MaxNodes \in Nat /\ \A q \in Requests : uncounted[q] \in Nat /\ todo[q] \in Nat /\ todo[q] <= MaxNodes
  BY DEF TypeOK
<1>1. ASSUME NEW q \in Requests, Send(q) PROVE Uncounted'
  <2>1. PICK k \in Kinds, place \in Places :
          /\ Enters(k, place) /\ kind' = [kind EXCEPT ![q] = k] /\ at' = [at EXCEPT ![q] = place]
    BY <1>1, SendIs
  <2>2. at[q] = "idle" /\ todo' = [todo EXCEPT ![q] = MaxNodes] /\ UNCHANGED uncounted
    BY <1>1 DEF Send
  <2>3. uncounted[q] = 0 /\ todo'[q] = MaxNodes /\ \A p \in Requests \ {q} : todo'[p] = todo[p] /\ at'[p] = at[p] /\ kind'[p] = kind[p]
    BY <2>1, <2>2, <1>0 DEF TypeOK
  <2> QED BY <2>2, <2>3, <1>0
<1>2. ASSUME NEW q \in Requests, PassAsHuman(q) PROVE Uncounted'
  <2>1. /\ at[q] = "gate" /\ kind[q] = "active" /\ at' = [at EXCEPT ![q] = "tool"]
        /\ uncounted' = [uncounted EXCEPT ![q] = @ + 1] /\ UNCHANGED <<kind, todo>>
    BY <1>2 DEF PassAsHuman, Goto
  <2>2. todo[q] > 0 /\ at'[q] = "tool" /\ uncounted'[q] = uncounted[q] + 1
        /\ \A p \in Requests \ {q} : uncounted'[p] = uncounted[p] /\ at'[p] = at[p]
    BY <2>1 DEF NodesLeft, TypeOK
  <2>3. uncounted[q] + todo[q] <= MaxNodes
    BY <2>1, <1>0
  <2>4. \A p \in Requests : uncounted'[p] <= MaxNodes
    BY <2>2, <2>3, <1>0
  <2>5. \A p \in Requests : uncounted'[p] + todo[p] <= MaxNodes + (IF at'[p] \in {"tool", "answered"} THEN 1 ELSE 0)
    BY <2>2, <2>3, <1>0
  <2>6. \A p \in Requests : uncounted'[p] > 0 => kind[p] = "active" /\ at'[p] # "idle"
    BY <2>1, <2>2
  <2> QED BY <2>1, <2>4, <2>5, <2>6
<1>3. ASSUME NEW q \in Requests, Tool(q) PROVE Uncounted'
  <2>1. at[q] = "tool" /\ UNCHANGED <<kind, uncounted>>
    BY <1>3 DEF Tool
  <2>2. \A p \in Requests \ {q} : todo'[p] = todo[p] /\ at'[p] = at[p]
    BY <1>3 DEF Tool, Goto, TypeOK
  <2>3. CASE kind[q] = "call"
    <3>1. at'[q] = "answered" /\ todo' = todo /\ uncounted[q] = 0
      BY <1>3, <2>3, <1>0 DEF Tool, Goto, TypeOK
    <3> QED BY <2>1, <2>2, <3>1, <1>0
  <2>4. CASE kind[q] # "call"
    <3>1. at'[q] = "plan" /\ todo'[q] = todo[q] - 1
      BY <1>3, <2>4 DEF Tool, Goto, TypeOK
    <3>2. uncounted[q] + todo'[q] <= MaxNodes
      BY <2>1, <3>1, <1>0
    <3> QED BY <2>1, <2>2, <3>1, <3>2, <1>0
  <2> QED BY <2>3, <2>4
<1>4. ASSUME NEW q \in Requests, NEW place, at' = [at EXCEPT ![q] = place], at[q] # "idle", place # "idle",
             UNCHANGED <<kind, todo, uncounted>>,
             at[q] = "tool" => place = "answered", place = "tool" => kind[q] # "active", at[q] # "answered"
      PROVE  Uncounted'
  <2>1. at'[q] = place /\ \A p \in Requests \ {q} : at'[p] = at[p]
    BY <1>4 DEF TypeOK
  <2>2. ASSUME NEW p \in Requests
        PROVE  /\ uncounted[p] > 0 => kind[p] = "active" /\ at'[p] # "idle"
               /\ uncounted[p] + todo[p] <= MaxNodes + (IF at'[p] \in {"tool", "answered"} THEN 1 ELSE 0)
    <3>1. CASE p # q
      BY <2>1, <3>1
    <3>2. CASE p = q
      <4>1. CASE at[q] = "tool"
        BY <1>4, <2>1, <3>2, <4>1, <1>0
      <4>2. CASE at[q] # "tool"
        <5>1. uncounted[q] + todo[q] <= MaxNodes
          BY <1>4, <4>2, <1>0
        <5> QED BY <1>4, <2>1, <3>2, <5>1, <1>0
      <4> QED BY <4>1, <4>2
    <3> QED BY <3>1, <3>2
  <2> QED BY <1>4, <2>2
<1>5. ASSUME NEW q \in Requests,
             Register(q) \/ TakeActive(q) \/ NextNode(q) \/ Gate(q) \/ Budget(q) \/ Finish(q) \/ TimeOut(q)
      PROVE  Uncounted'
  <2>1. UNCHANGED <<kind, todo, uncounted>>
    BY <1>5 DEF Register, TakeActive, NextNode, Gate, Budget, Finish, TimeOut
  <2>2. at[q] \notin {"idle", "answered"} /\ (at[q] = "tool" => TimeOut(q))
    BY <1>5 DEF Register, TakeActive, NextNode, Gate, Budget, Finish, TimeOut, Limited, Waiting
  <2>3. \E place : at' = [at EXCEPT ![q] = place] /\ place # "idle" /\ (TimeOut(q) => place = "answered")
                   /\ (place = "tool" => kind[q] # "active")
    <3>1. CASE TimeOut(q)
      <4>1. at' = [at EXCEPT ![q] = "answered"]
        BY <3>1 DEF TimeOut, Goto
      <4>2. "answered" # "idle" /\ "answered" # "tool"
        OBVIOUS
      <4> QED BY <4>1, <4>2
    <3>2. CASE Budget(q)
      <4>1. at[q] = "budget"
        BY <3>2 DEF Budget
      <4>2. kind[q] # "active" /\ ~TimeOut(q)
        BY <4>1 DEF Kept, TimeOut, Limited
      <4> QED BY <3>2, <4>2 DEF Budget, Refused, Goto
    <3>3. CASE ~TimeOut(q) /\ ~Budget(q)
      BY <1>5, <3>3 DEF Register, TakeActive, NextNode, Gate, Finish, Refused, Goto
    <3> QED BY <3>1, <3>2, <3>3
  <2> QED BY <2>1, <2>2, <2>3, <1>4
<1>6. ASSUME UNCHANGED vars PROVE Uncounted'
  BY <1>6 DEF vars, requests
<1> QED BY <1>1, <1>2, <1>3, <1>5, <1>6 DEF Next, Step

LEMMA Step2 == ASSUME IInv, [Next]_vars PROVE OnePlanAtATime'
<1> USE DEF IInv, OnePlanAtATime, Executing
<1>1. ASSUME NEW q \in Requests, Send(q) PROVE OnePlanAtATime'
  <2>1. PICK k \in Kinds, place \in Places :
          /\ Enters(k, place) /\ kind' = [kind EXCEPT ![q] = k] /\ at' = [at EXCEPT ![q] = place]
          /\ flag' \in {flag, [flag EXCEPT ![Of[q]] = TRUE]}
    BY <1>1, SendIs
  <2>2. at[q] = "idle" /\ todo' = [todo EXCEPT ![q] = MaxNodes]
        /\ UNCHANGED <<spent, slot, holder, started, uncounted, taken, refused>>
    BY <1>1 DEF Send
  <2>3. Executing' = Executing
    BY <2>1, <2>2 DEF Enters, TypeOK
  <2> QED BY <2>2, <2>3
<1>2. ASSUME NEW q \in Requests, Register(q) PROVE OnePlanAtATime'
  BY <1>2 DEF Register, Goto, TypeOK
<1>3. ASSUME NEW q \in Requests, TakeActive(q) PROVE OnePlanAtATime'
  BY <1>3 DEF TakeActive, Goto, SetFlag, TypeOK
<1>4. ASSUME NEW q \in Requests, NextNode(q) \/ Gate(q) \/ PassAsHuman(q) \/ Budget(q) \/ Tool(q) PROVE OnePlanAtATime'
  <2>1. Executing' = Executing /\ UNCHANGED holder
    BY <1>4 DEF NextNode, Gate, PassAsHuman, Budget, Tool, Refused, Goto, TypeOK
  <2> QED BY <2>1
<1>5. ASSUME NEW q \in Requests, Finish(q) \/ TimeOut(q) PROVE OnePlanAtATime'
  <2>1. /\ Executing' = Executing \ {q}
        /\ holder' = IF holder = q THEN None ELSE holder
    BY <1>5 DEF Finish, TimeOut, Unlock, Goto, TypeOK
  <2> QED BY <2>1
<1>6. ASSUME UNCHANGED vars PROVE OnePlanAtATime'
  BY <1>6 DEF vars, requests
<1> QED BY <1>1, <1>2, <1>3, <1>4, <1>5, <1>6 DEF Next, Step

LEMMA Inductive == Spec => []IInv
<1>1. IInv /\ [Next]_vars => IInv'
  BY TypeStep, Step1, StepUncounted, Step2 DEF IInv
<1> QED BY InitOK, <1>1, PTL DEF Spec

\* The types of the variables.
THEOREM TypeCorrect == Spec => []TypeOK
  BY Inductive, PTL DEF IInv

\* Calls and plans of a connection that reach the budget check together still
\* start no more hazardous tools than the budget allows, and what is counted for no
\* connection is at most the nodes of an active plan (context.rs:871-941).
THEOREM BudgetSafe == Spec => []BudgetHolds
<1>1. IInv => BudgetHolds
  BY DEF IInv, Counted, Uncounted, BudgetHolds
<1> QED BY <1>1, Inductive, PTL

\* The active plan has the global state to itself, through time-outs too.
THEOREM ActivePlanAlone == Spec => []OnePlanAtATime
  BY Inductive, PTL DEF IInv

\* A registered plan is taken for execution at most once.
THEOREM PlanTakenOnce == Spec => []TakenOnce
  BY Inductive, PTL DEF IInv
-----------------------------------------------------------------------------
(* Connections that wait for their answers                                 *)

IsPlan(q) == kind[q] \in {"run", "active"} /\ Waiting(q)
Turns ==
  \A p, q \in Requests : Of[p] = Of[q] /\ Calm(q) /\ Waiting(p) /\ Waiting(q) => p = q
\* The flag of a connection is up exactly while it has a plan at work.
FlagTells ==
  /\ \A q \in Requests : IsPlan(q) /\ Calm(q) => flag[Of[q]]
  /\ \A c \in Conns \ disturbed : flag[c] => \E q \in Requests : Of[q] = c /\ IsPlan(q)
Gated ==
  /\ PlansPass
  /\ \A q \in Requests : at[q] \in {"budget", "tool"} /\ Calm(q) => kind[q] # "call"

PInv == Turns /\ FlagTells /\ Gated

\* A step inside a request that keeps waiting changes nothing for the others.
LEMMA StillWaiting ==
  ASSUME IInv, PInv, NEW q \in Requests, Waiting(q), NEW place \in Places \ {"idle", "answered"},
         Goto(q, place), UNCHANGED <<flag, kind, disturbed>>
  PROVE  (Turns /\ FlagTells)'
<1>1. \A p \in Requests : Waiting(p)' <=> Waiting(p)
  BY DEF Goto, Waiting, IInv, TypeOK
<1>2. \A p \in Requests : IsPlan(p)' <=> IsPlan(p)
  BY <1>1 DEF IsPlan
<1> QED BY <1>1, <1>2 DEF PInv, Turns, FlagTells, Calm

\* Answering a request that is alone on its connection.
LEMMA Answered ==
  ASSUME IInv, PInv, NEW q \in Requests, Waiting(q), Goto(q, "answered"), UNCHANGED <<kind, disturbed>>,
         \/ IsPlan(q) /\ SetFlag(q, FALSE)
         \/ ~IsPlan(q) /\ UNCHANGED flag
  PROVE  (Turns /\ FlagTells)'
<1>1. \A p \in Requests : Waiting(p)' <=> Waiting(p) /\ p # q
  BY DEF Goto, Waiting, IInv, TypeOK
<1>2. \A p \in Requests : IsPlan(p)' <=> IsPlan(p) /\ p # q
  BY <1>1 DEF IsPlan
<1>3. CASE ~IsPlan(q) /\ UNCHANGED flag
  BY <1>1, <1>2, <1>3 DEF PInv, Turns, FlagTells, Calm
<1>4. CASE IsPlan(q) /\ SetFlag(q, FALSE)
  <2>1. \A c \in Conns : flag'[c] = (flag[c] /\ c # Of[q])
    BY <1>4 DEF SetFlag, IInv, TypeOK
  <2>2. \A p \in Requests \ {q} : IsPlan(p) /\ Calm(p) => Of[p] # Of[q]
    BY <1>4 DEF IsPlan, PInv, Turns, Calm
  <2> QED BY <1>1, <1>2, <2>1, <2>2 DEF PInv, Turns, FlagTells, Calm
<1> QED BY <1>3, <1>4

LEMMA PoliteSend == ASSUME IInv, PInv, NEW q \in Requests, Send(q) PROVE PInv'
<1>1. PICK k \in Kinds, place \in Places :
        /\ Enters(k, place) /\ kind' = [kind EXCEPT ![q] = k] /\ at' = [at EXCEPT ![q] = place]
        /\ k \in {"run", "active"} => flag' = [flag EXCEPT ![Of[q]] = TRUE]
        /\ k \in {"call", "register"} => flag' = flag
  BY SendIs
<1>2. /\ at[q] = "idle" /\ UNCHANGED refused
      /\ disturbed \subseteq disturbed'
      /\ Of[q] \notin disturbed' => \A p \in Requests : Of[p] = Of[q] => ~Waiting(p)
  BY DEF Send
<1>3. \A p \in Requests : (Waiting(p)' <=> Waiting(p) \/ p = q) /\ (p # q => kind'[p] = kind[p])
  BY <1>1, <1>2 DEF Waiting, Enters, IInv, TypeOK
<1>4. kind'[q] = k /\ at'[q] = place
  BY <1>1 DEF IInv, TypeOK
<1>5. Turns'
  BY <1>2, <1>3 DEF PInv, Turns, Calm
<1>6. \A p \in Requests : IsPlan(p)' <=> IsPlan(p) \/ (p = q /\ k \in {"run", "active"})
  BY <1>2, <1>3, <1>4 DEF IsPlan, Waiting
<1>7. FlagTells'
  <2>1. CASE k \in {"run", "active"}
    <3>1. \A c \in Conns : flag'[c] = (flag[c] \/ c = Of[q])
      BY <1>1, <2>1 DEF IInv, TypeOK
    <3> QED BY <1>2, <2>1, <3>1, <1>6 DEF PInv, FlagTells, Calm
  <2>2. CASE k \in {"call", "register"}
    BY <1>1, <1>2, <1>6, <2>2 DEF PInv, FlagTells, Calm
  <2> QED BY <2>1, <2>2 DEF Kinds
<1>8. Gated'
  <2>1. \A p \in Requests : at'[p] \in {"budget", "tool"} => p # q /\ at[p] = at'[p]
    BY <1>1, <1>4 DEF Enters, IInv, TypeOK
  <2>2. \A p \in Requests : Calm(p)' => Calm(p)
    BY <1>2 DEF Calm
  <2>3. refused \subseteq Requests
    BY DEF IInv, TypeOK
  <2> QED BY <1>2, <1>3, <2>1, <2>2, <2>3 DEF PInv, Gated, PlansPass
<1> QED BY <1>5, <1>7, <1>8 DEF PInv

\* A call that reaches its limit leaves the flag as it is: only if it was
\* executing the active plan does that disturb its connection.
LEMMA PoliteTimeOut == ASSUME IInv, PInv, NEW q \in Requests, TimeOut(q) PROVE PInv'
<1>1. /\ Waiting(q) /\ Goto(q, "answered") /\ UNCHANGED <<flag, kind, refused>>
      /\ kind[q] \in {"call", "active", "register"}
      /\ disturbed \subseteq disturbed'
      /\ kind[q] = "active" => Of[q] \in disturbed'
  BY DEF TimeOut, Limited, Waiting
<1>2. \A p \in Requests : (Waiting(p)' <=> Waiting(p) /\ p # q) /\ (Calm(p)' => Calm(p))
  BY <1>1 DEF Goto, Waiting, IInv, TypeOK, Calm
<1>3. \A p \in Requests : IsPlan(p)' <=> IsPlan(p) /\ p # q
  BY <1>1, <1>2 DEF IsPlan
<1>4. (Turns /\ FlagTells)'
  BY <1>1, <1>2, <1>3 DEF PInv, Turns, FlagTells, Calm, IsPlan
<1>5. Gated'
  <2>1. \A p \in Requests : at'[p] \in {"budget", "tool"} => at[p] = at'[p]
    BY <1>1 DEF Goto, IInv, TypeOK
  <2>2. refused \subseteq Requests
    BY DEF IInv, TypeOK
  <2> QED BY <1>1, <1>2, <2>1, <2>2 DEF PInv, Gated, PlansPass
<1> QED BY <1>4, <1>5 DEF PInv

LEMMA PoliteStep == ASSUME IInv, PInv, [Next]_vars PROVE PInv'
<1>1. ASSUME NEW q \in Requests, Register(q) PROVE PInv'
  <2>1. Waiting(q) /\ ~IsPlan(q)
    BY <1>1 DEF Register, Waiting, IsPlan
  <2>2. (Turns /\ FlagTells)'
    BY <1>1, <2>1, Answered DEF Register
  <2> QED BY <1>1, <2>2 DEF Register, Goto, PInv, Gated, PlansPass, Calm, IInv, TypeOK
<1>2. ASSUME NEW q \in Requests, TakeActive(q) PROVE PInv'
  <2>1. Waiting(q) /\ IsPlan(q)
    BY <1>2 DEF TakeActive, Waiting, IsPlan
  <2>2. \/ Goto(q, "plan") /\ UNCHANGED <<flag, kind, disturbed>>
        \/ Goto(q, "answered") /\ SetFlag(q, FALSE) /\ UNCHANGED <<kind, disturbed>>
    BY <1>2 DEF TakeActive
  <2>3. (Turns /\ FlagTells)'
    BY <2>1, <2>2, Answered, StillWaiting DEF Places
  <2> QED BY <1>2, <2>2, <2>3 DEF TakeActive, Goto, PInv, Gated, PlansPass, Calm, IInv, TypeOK
<1>3. ASSUME NEW q \in Requests, NextNode(q) PROVE PInv'
  <2>1. Waiting(q) /\ UNCHANGED <<flag, kind, refused, disturbed>>
    BY <1>3 DEF NextNode, Waiting
  <2>2. PICK place \in {"finish", "gate", "stuck"} : Goto(q, place)
    BY <1>3 DEF NextNode
  <2>3. (Turns /\ FlagTells)'
    BY <2>1, <2>2, StillWaiting DEF Places
  <2> QED BY <2>1, <2>2, <2>3 DEF Goto, PInv, Gated, PlansPass, Calm, IInv, TypeOK
<1>4. ASSUME NEW q \in Requests, Gate(q) PROVE PInv'
  <2>1. Waiting(q) /\ UNCHANGED <<flag, kind, disturbed>>
    BY <1>4 DEF Gate, Waiting
  <2>2. kind[q] # "call" => IsPlan(q)
    BY <1>4, <2>1 DEF IsPlan, Gate, IInv, TypeOK, Kinds, Kept
  <2>3. Calm(q) => (flag[Of[q]] <=> kind[q] # "call")
    <3>1. Calm(q) => \A p \in Requests : Of[p] = Of[q] /\ IsPlan(p) => p = q
      BY <2>1 DEF PInv, Turns, IsPlan
    <3>2. kind[q] = "call" => ~IsPlan(q)
      BY DEF IsPlan
    <3> QED BY <2>2, <3>1, <3>2 DEF PInv, FlagTells, Calm
  <2>4. \/ Goto(q, "budget") /\ UNCHANGED refused /\ flag[Of[q]]
        \/ Goto(q, "finish") /\ refused' = refused \cup {q} /\ kind[q] # "call" /\ ~flag[Of[q]]
        \/ Goto(q, "answered") /\ UNCHANGED refused /\ kind[q] = "call"
    BY <1>4 DEF Gate, Refused
  <2>5. (Turns /\ FlagTells)'
    BY <2>1, <2>4, StillWaiting, Answered DEF Places, IsPlan
  <2> QED BY <2>1, <2>3, <2>4, <2>5 DEF Goto, PInv, Gated, PlansPass, Calm, IInv, TypeOK
<1>8. ASSUME NEW q \in Requests, PassAsHuman(q) PROVE PInv'
  <2>1. Waiting(q) /\ kind[q] # "call" /\ Goto(q, "tool") /\ UNCHANGED <<flag, kind, refused, disturbed>>
    BY <1>8 DEF PassAsHuman, Waiting
  <2>2. (Turns /\ FlagTells)'
    BY <2>1, StillWaiting DEF Places
  <2> QED BY <2>1, <2>2 DEF Goto, PInv, Gated, PlansPass, Calm, IInv, TypeOK
<1>5. ASSUME NEW q \in Requests, Budget(q) \/ Tool(q) PROVE PInv'
  <2>1. Waiting(q) /\ at[q] \in {"budget", "tool"} /\ UNCHANGED <<flag, kind, refused, disturbed>>
    BY <1>5 DEF Budget, Tool, Waiting
  <2>2. \/ \E place \in {"finish", "tool", "plan"} : Goto(q, place)
        \/ Goto(q, "answered") /\ kind[q] = "call"
    BY <1>5 DEF Budget, Tool, Refused
  <2>3. (Turns /\ FlagTells)'
    BY <2>1, <2>2, StillWaiting, Answered DEF Places, IsPlan
  <2> QED BY <2>1, <2>2, <2>3 DEF Goto, PInv, Gated, PlansPass, Calm, IInv, TypeOK
<1>6. ASSUME NEW q \in Requests, Finish(q) PROVE PInv'
  <2>1. Waiting(q) /\ IsPlan(q)
    BY <1>6 DEF Finish, Waiting, IsPlan, IInv, TypeOK, Kinds, Kept
  <2>2. (Turns /\ FlagTells)'
    BY <1>6, <2>1, Answered DEF Finish
  <2> QED BY <1>6, <2>2 DEF Finish, Goto, PInv, Gated, PlansPass, Calm, IInv, TypeOK
<1>7. ASSUME UNCHANGED vars PROVE PInv'
  BY <1>7 DEF vars, requests, PInv, Turns, FlagTells, Gated, PlansPass, Calm, IsPlan, Waiting
<1> QED BY <1>1, <1>2, <1>3, <1>4, <1>5, <1>6, <1>7, <1>8, PoliteSend, PoliteTimeOut DEF Next, Step

LEMMA AlwaysPolite == Spec => []PInv
<1>1. Init => PInv
  BY DEF Init, PInv, Turns, FlagTells, Gated, PlansPass, IsPlan, Waiting
<1>2. IInv /\ PInv /\ [Next]_vars => PInv'
  BY PoliteStep
<1> QED BY <1>1, <1>2, Inductive, PTL DEF Spec

\* On a connection without overlapping requests and dropped plans no mutation
\* passes the plan gate outside an executing plan.
THEOREM GateCloses == Spec => []MutationsArePlanned
<1>1. PInv => MutationsArePlanned
  BY DEF PInv, Gated, MutationsArePlanned
<1> QED BY <1>1, AlwaysPolite, PTL

\* And no node of an executing plan is refused by it.
THEOREM GateOpens == Spec => []PlansPass
<1>1. PInv => PlansPass
  BY DEF PInv, Gated
<1> QED BY <1>1, AlwaysPolite, PTL

\* What holds of the registered plan, together.
THEOREM PlanIsSound == Spec => []PlanSound
  BY TypeCorrect, ActivePlanAlone, PlanTakenOnce, PTL DEF PlanSound
=============================================================================
