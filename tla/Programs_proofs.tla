--------------------------- MODULE Programs_proofs ---------------------------
(***************************************************************************)
(* Proofs about the sessions that agents open and the programs they run,   *)
(* for any number of agents, verifications, runs of init_agent and         *)
(* clients.  Handshake: a challenge is at one place at a time (pending,    *)
(* with one verification, or spent on one connection), and the file names  *)
(* everybody who was announced while init_agent runs by itself.            *)
(* DslAtomic: every staged path keeps its edit; while clients take turns,  *)
(* the blocks of the one that runs and the savepoints are one stack, so a  *)
(* rollback finds the savepoint of its own block.                          *)
(* DebugSessions: a number stands for one session, whose kept snippets are *)
(* those answered without an error, in their order.                        *)
(* Diagnostics: an entry of the cache is of the version whose time it has, *)
(* or of a later one, and the two ways to read a checker say the same.     *)
(* Builds: what a build does was consented to, it ends where it fails, and *)
(* while no two run the log is of the build that emptied it.               *)
(* MCPrograms: these, side by side.                                        *)
(***************************************************************************)
EXTENDS MCPrograms, SequenceTheorems, FiniteSetTheorems, WellFoundedInduction, TLAPS

-----------------------------------------------------------------------------
(* Handshake                                                               *)

Challenge == [key : PubKeys, at : Nat]
AgentNames == {"named", "anonymous", "nobody", ""}
AnyToken == (AgentNames \X PubKeys \X Nat) \cup {<<>>}
Verification == [at : {"rest", "let in", "token", "over"}, key : PubKeys \cup {NoTask},
                 nonce : Nat, name : AgentNames, token : AnyToken]
AgentKeys == [name : Agents, key : PubKeys]
Writing == [at : {"rest", "read", "torn", "over"}, name : Agents \cup {NoTask}, seen : SUBSET AgentKeys]
\* One key of each name.
OneEach(known) == \A d, e \in known : d.name = e.name => d = e
Checking(r) == checking[r].at \in {"let in", "token"}
Initing(i) == initing[i].at \in {"read", "torn"}

\* Types of the variables.
HandshakeTypeOK ==
  /\ issued \in Seq(Challenge)
  /\ pending \in [PubKeys -> Nat]
  /\ second \in Nat
  /\ checking \in [Checks -> Verification]
  /\ agentsFile \in [there : BOOLEAN, torn : BOOLEAN, keys : SUBSET AgentKeys]
  /\ initing \in [Inits -> Writing]
  /\ \A w \in welcomed : w.key \in PubKeys /\ w.nonce \in Nat
  /\ announced \subseteq AgentKeys
  /\ lastKey \in [Agents -> PubKeys \cup {NoTask}]
  /\ disturbed \in BOOLEAN

\* n is a challenge of k, issued by now.
Issued(n, k) == n \in 1..Len(issued) /\ issued[n].key = k /\ issued[n].at <= second
\* Who is let in by that name may be.
MayEnter(name, k) ==
  /\ name \in {"named", "anonymous"}
  /\ name = "anonymous" => ~RequireFile
  /\ name = "named" => \E e \in announced : e.key = k

\* The places of a challenge: each nonce is at one of them.
PendingSound == \A k \in PubKeys : pending[k] # 0 => Issued(pending[k], k)
CheckingSound ==
  \A r \in Checks :
    /\ ~Checking(r) => checking[r].nonce = 0
    /\ Checking(r) =>
         /\ checking[r].key \in PubKeys
         /\ Issued(checking[r].nonce, checking[r].key)
         /\ pending[checking[r].key] # checking[r].nonce
         /\ MayEnter(checking[r].name, checking[r].key)
         /\ \A s \in Checks \ {r} : checking[s].nonce # checking[r].nonce
    /\ checking[r].at = "token" =>
         /\ checking[r].token[2] = checking[r].key
         /\ checking[r].token[3] >= issued[checking[r].nonce].at
WelcomedSound ==
  /\ \A w \in welcomed :
       /\ Issued(w.nonce, w.key)
       /\ pending[w.key] # w.nonce
       /\ MayEnter(w.name, w.key)
       /\ w.token[2] = w.key
       /\ w.token[3] >= issued[w.nonce].at
       /\ \A r \in Checks : Checking(r) => w.nonce # checking[r].nonce
  /\ \A w, v \in welcomed : w.nonce = v.nonce => w = v
ConnectionsSound ==
  /\ DOMAIN connections = {w.token : w \in welcomed}
  /\ \A t \in DOMAIN connections : connections[t] = t[2]
\* What init_agent reads and writes.
AgentsSound ==
  /\ agentsFile.keys \subseteq announced
  /\ \A i \in Inits : initing[i].seen \subseteq announced
  /\ \A i \in Inits : Initing(i) => initing[i].name \in Agents
  /\ OneEach(agentsFile.keys) /\ \A i \in Inits : OneEach(initing[i].seen)
  /\ ~disturbed =>
       /\ \A i, j \in Inits : Initing(i) /\ Initing(j) => i = j
       /\ \A i \in Inits : Initing(i) => KnowsLast(initing[i].seen)
       /\ (\A i \in Inits : initing[i].at # "torn") => ~agentsFile.torn /\ KnowsLast(agentsFile.keys)
HandshakeInv ==
  /\ HandshakeTypeOK /\ PendingSound /\ CheckingSound /\ WelcomedSound /\ ConnectionsSound /\ AgentsSound
-----------------------------------------------------------------------------
LEMMA AtRestTyped == AtRest \in Verification /\ AtRest.at = "rest" /\ AtRest.nonce = 0
<1>1. <<>> \in AnyToken BY DEF AnyToken
<1> QED BY <1>1 DEF AtRest, Verification, AgentNames

LEMMA NotBegunTyped == NotBegun \in Writing /\ NotBegun.at = "rest" /\ NotBegun.seen = {}
  BY DEF NotBegun, Writing

LEMMA NoKeyYet == \A n \in Agents : [m \in Agents |-> NoTask][n] = NoTask
  OBVIOUS

LEMMA HandshakeStarts == HandshakeInit => HandshakeInv
<1> SUFFICES ASSUME HandshakeInit PROVE HandshakeInv
  OBVIOUS
<1> USE DEF HandshakeInit
<1>1. \A r \in Checks : checking[r] = AtRest
  OBVIOUS
<1>2. \A i \in Inits : initing[i] = NotBegun
  OBVIOUS
<1>3. HandshakeTypeOK
  <2>1. checking \in [Checks -> Verification] BY AtRestTyped
  <2>2. initing \in [Inits -> Writing] BY NotBegunTyped
  <2>3. issued \in Seq(Challenge) OBVIOUS
  <2> QED BY <2>1, <2>2, <2>3 DEF HandshakeTypeOK
<1>4. PendingSound /\ WelcomedSound
  BY DEF PendingSound, WelcomedSound
<1>5. CheckingSound
  BY <1>1 DEF CheckingSound, Checking, AtRest
<1>6. ConnectionsSound
  BY DEF ConnectionsSound
<1>7. AgentsSound
  BY <1>2, NoKeyYet DEF AgentsSound, Initing, NotBegun, KnowsLast, OneEach
<1> QED BY <1>3, <1>4, <1>5, <1>6, <1>7 DEF HandshakeInv

\* Challenges, once issued, and announcements stay.
LEMMA Stays ==
  ASSUME UNCHANGED issued, second \in Nat, second' \in Nat, second' >= second, issued \in Seq(Challenge)
  PROVE  \A n, q : Issued(n, q) => Issued(n, q)' /\ issued'[n] = issued[n]
<1> SUFFICES ASSUME NEW n, NEW q, Issued(n, q) PROVE Issued(n, q)' /\ issued'[n] = issued[n]
  OBVIOUS
<1>1. issued[n] \in Challenge BY DEF Issued
<1>2. issued[n].at \in Nat BY <1>1 DEF Challenge
<1> QED BY <1>2 DEF Issued

\* What is being verified and who was let in stays sound while nobody is let in.
LEMMA StillSound ==
  ASSUME HandshakeInv, UNCHANGED <<checking, welcomed>>,
         \A k \in PubKeys : pending'[k] = pending[k] \/ pending'[k] \notin 1..Len(issued),
         \A n, q : Issued(n, q) => Issued(n, q)' /\ issued'[n] = issued[n],
         \A m, q : MayEnter(m, q) => MayEnter(m, q)'
  PROVE  CheckingSound' /\ WelcomedSound'
<1> USE DEF HandshakeInv
<1>1. \A r \in Checks : checking'[r] = checking[r] /\ (Checking(r)' <=> Checking(r))
  BY DEF Checking
<1>2. \A n, q : Issued(n, q) => n \in 1..Len(issued)
  BY DEF Issued
<1>3. CheckingSound'
  <2> SUFFICES ASSUME NEW r \in Checks
               PROVE  /\ ~Checking(r) => checking[r].nonce = 0
                      /\ Checking(r) =>
                           /\ checking[r].key \in PubKeys
                           /\ Issued(checking[r].nonce, checking[r].key)'
                           /\ pending'[checking[r].key] # checking[r].nonce
                           /\ MayEnter(checking[r].name, checking[r].key)'
                           /\ \A s \in Checks \ {r} : checking[s].nonce # checking[r].nonce
                      /\ checking[r].at = "token" =>
                           /\ checking[r].token[2] = checking[r].key
                           /\ checking[r].token[3] >= issued'[checking[r].nonce].at
    BY <1>1 DEF CheckingSound
  <2>1. ~Checking(r) => checking[r].nonce = 0
    BY DEF CheckingSound
  <2>2. ASSUME Checking(r)
        PROVE  /\ checking[r].key \in PubKeys
               /\ Issued(checking[r].nonce, checking[r].key)
               /\ pending[checking[r].key] # checking[r].nonce
               /\ MayEnter(checking[r].name, checking[r].key)
               /\ \A s \in Checks \ {r} : checking[s].nonce # checking[r].nonce
    BY <2>2 DEF CheckingSound
  <2>3. ASSUME checking[r].at = "token"
        PROVE  /\ checking[r].token[2] = checking[r].key
               /\ checking[r].token[3] >= issued[checking[r].nonce].at
               /\ Checking(r)
    BY <2>3 DEF CheckingSound, Checking
  <2> QED BY <2>1, <2>2, <2>3, <1>2
<1>4. WelcomedSound'
  BY <1>1, <1>2 DEF WelcomedSound, HandshakeTypeOK
<1> QED BY <1>3, <1>4
-----------------------------------------------------------------------------
\* A new challenge has a nonce that nobody has.
LEMMA OpenKeeps ==
  ASSUME HandshakeInv, NEW k \in PubKeys, OpenConnection(k)
  PROVE  HandshakeInv'
<1> USE DEF OpenConnection, HandshakeInv
<1>1. issued \in Seq(Challenge) /\ second \in Nat /\ [key |-> k, at |-> second] \in Challenge
  BY DEF HandshakeTypeOK, Challenge
<1>2. /\ Len(issued') = Len(issued) + 1 /\ Len(issued) \in Nat
      /\ \A i \in 1..Len(issued) : issued'[i] = issued[i]
      /\ issued'[Len(issued) + 1] = [key |-> k, at |-> second]
      /\ issued' \in Seq(Challenge)
  BY <1>1
<1>3. \A n, q : Issued(n, q) => Issued(n, q)' /\ issued'[n] = issued[n]
  BY <1>2 DEF Issued
<1>4. pending \in [PubKeys -> Nat] /\ pending' = [pending EXCEPT ![k] = Len(issued) + 1]
  BY DEF HandshakeTypeOK
<1>5. HandshakeTypeOK'
  BY <1>2, <1>4 DEF HandshakeTypeOK
<1>6. PendingSound'
  <2> SUFFICES ASSUME NEW q \in PubKeys, pending'[q] # 0 PROVE Issued(pending[q], q)'
    BY DEF PendingSound
  <2>1. CASE q = k
    <3>1. pending'[q] = Len(issued) + 1 BY <2>1, <1>4
    <3> QED BY <3>1, <2>1, <1>1, <1>2 DEF Issued
  <2>2. CASE q # k
    <3>1. pending'[q] = pending[q] BY <2>2, <1>4
    <3> QED BY <3>1, <1>3 DEF PendingSound
  <2> QED BY <2>1, <2>2
<1>7. CheckingSound' /\ WelcomedSound'
  <2>1. \A q \in PubKeys : pending'[q] = pending[q] \/ pending'[q] \notin 1..Len(issued)
    BY <1>4, <1>2
  <2>2. \A m, q : MayEnter(m, q) => MayEnter(m, q)'
    BY DEF MayEnter
  <2> QED BY <2>1, <2>2, <1>3, StillSound
<1>8. ConnectionsSound' /\ AgentsSound'
  BY DEF ConnectionsSound, AgentsSound, Initing, KnowsLast
<1> QED BY <1>5, <1>6, <1>7, <1>8

LEMMA SecondKeeps == HandshakeInv /\ SecondPasses => HandshakeInv'
<1> SUFFICES ASSUME HandshakeInv, SecondPasses PROVE HandshakeInv'
  OBVIOUS
<1> USE DEF SecondPasses, HandshakeInv
<1>1. second \in Nat /\ second' \in Nat /\ second' >= second /\ issued \in Seq(Challenge)
  BY DEF HandshakeTypeOK
<1>2. \A n, q : Issued(n, q) => Issued(n, q)' /\ issued'[n] = issued[n]
  BY <1>1, Stays
<1>3. \A m, q : MayEnter(m, q) => MayEnter(m, q)'
  BY DEF MayEnter
<1>4. CheckingSound' /\ WelcomedSound'
  BY <1>2, <1>3, StillSound
<1>5. HandshakeTypeOK'
  BY <1>1 DEF HandshakeTypeOK
<1>6. PendingSound'
  BY <1>2 DEF PendingSound
<1>7. ConnectionsSound' /\ AgentsSound'
  BY DEF ConnectionsSound, AgentsSound, Initing, KnowsLast
<1> QED BY <1>4, <1>5, <1>6, <1>7

\* A challenge that is taken is no longer pending, and nobody else has it.
LEMMA TakeKeeps ==
  ASSUME HandshakeInv, NEW r \in Checks, NEW k \in PubKeys, NEW n, TakeChallenge(r, k, n)
  PROVE  HandshakeInv'
<1> USE DEF HandshakeInv
<1>1. /\ checking[r].at = "rest" /\ pending[k] # 0 /\ pending' = [pending EXCEPT ![k] = 0]
      /\ UNCHANGED <<issued, second, connections, agentsFile, initing, welcomed, announced, disturbed, lastKey>>
  BY DEF TakeChallenge
<1>2. pending \in [PubKeys -> Nat] /\ pending' \in [PubKeys -> Nat]
      /\ \A q \in PubKeys : pending'[q] = IF q = k THEN 0 ELSE pending[q]
  BY <1>1 DEF HandshakeTypeOK
<1>3. Issued(pending[k], k)
  BY <1>1 DEF PendingSound
<1>4. /\ \A m, q : Issued(m, q)' <=> Issued(m, q)
      /\ \A m, q : MayEnter(m, q)' <=> MayEnter(m, q)
      /\ \A m, q : Issued(m, q) => m \in 1..Len(issued) /\ m # 0
  BY <1>1 DEF Issued, MayEnter, HandshakeTypeOK
<1>5. PendingSound'
  BY <1>2, <1>4 DEF PendingSound
<1>6. ConnectionsSound' /\ AgentsSound'
  BY <1>1 DEF ConnectionsSound, AgentsSound, Initing, KnowsLast
<1>7. CASE ~LetsIn(k, n)
  <2>1. UNCHANGED checking BY <1>7 DEF TakeChallenge
  <2>2. HandshakeTypeOK' BY <1>1, <1>2, <2>1 DEF HandshakeTypeOK
  <2>3. CheckingSound' /\ WelcomedSound'
    <3>1. \A q \in PubKeys : pending'[q] = pending[q] \/ pending'[q] \notin 1..Len(issued)
      BY <1>2 DEF HandshakeTypeOK
    <3> QED BY <3>1, <1>1, <1>4, <2>1, StillSound
  <2> QED BY <1>5, <1>6, <2>2, <2>3
<1>8. CASE LetsIn(k, n)
  <2>1. n = pending[k] /\ n \in Nat
    BY <1>8, <1>2 DEF LetsIn
  <2>2. MayEnter(NameOfKey(k), k)
    BY <1>8 DEF LetsIn, NameOfKey, MayEnter, AgentsSound, HandshakeTypeOK
  <2> DEFINE new == [at |-> "let in", key |-> k, nonce |-> n, name |-> NameOfKey(k), token |-> <<>>]
  <2>3. checking' = [checking EXCEPT ![r] = new]
    BY <1>8 DEF TakeChallenge
  <2>4. new \in Verification
    <3>1. <<>> \in AnyToken BY DEF AnyToken
    <3>2. NameOfKey(k) \in AgentNames BY DEF NameOfKey, AgentNames
    <3> QED BY <3>1, <3>2, <2>1 DEF Verification
  <2>5. checking \in [Checks -> Verification]
    BY DEF HandshakeTypeOK
  <2>6. HandshakeTypeOK'
    <3>1. checking' \in [Checks -> Verification] BY <2>3, <2>4, <2>5
    <3> QED BY <1>1, <1>2, <3>1 DEF HandshakeTypeOK
  <2>7. /\ checking'[r] = new
        /\ \A s \in Checks \ {r} : checking'[s] = checking[s] /\ (Checking(s)' <=> Checking(s))
    BY <2>3, <2>5 DEF Checking
  <2>8. /\ Checking(r)' /\ checking'[r].key = k /\ checking'[r].nonce = n
        /\ checking'[r].name = NameOfKey(k) /\ checking'[r].at # "token"
    <3>1. new.at = "let in" /\ new.key = k /\ new.nonce = n /\ new.name = NameOfKey(k)
      OBVIOUS
    <3> HIDE DEF new
    <3> QED BY <2>7, <3>1 DEF Checking
  <2>9. \A s \in Checks : checking[s].nonce # n
    <3> SUFFICES ASSUME NEW s \in Checks, checking[s].nonce = n PROVE FALSE
      OBVIOUS
    <3>1. Checking(s) BY <1>1, <2>1 DEF CheckingSound
    <3>2. Issued(n, checking[s].key) /\ pending[checking[s].key] # n
      BY <3>1 DEF CheckingSound
    <3>3. checking[s].key = k BY <3>2, <1>3, <2>1 DEF Issued
    <3> QED BY <3>2, <3>3, <2>1
  <2>10. \A w \in welcomed : w.nonce # n
    <3> SUFFICES ASSUME NEW w \in welcomed, w.nonce = n PROVE FALSE
      OBVIOUS
    <3>1. Issued(n, w.key) /\ pending[w.key] # n BY DEF WelcomedSound
    <3> QED BY <3>1, <1>3, <2>1 DEF Issued
  <2>11. CheckingSound'
    <3> SUFFICES ASSUME NEW s \in Checks
                 PROVE  /\ ~Checking(s)' => checking'[s].nonce = 0
                        /\ Checking(s)' =>
                             /\ checking'[s].key \in PubKeys
                             /\ Issued(checking[s].nonce, checking[s].key)'
                             /\ pending'[checking'[s].key] # checking'[s].nonce
                             /\ MayEnter(checking[s].name, checking[s].key)'
                             /\ \A q \in Checks \ {s} : checking'[q].nonce # checking'[s].nonce
                        /\ checking'[s].at = "token" =>
                             /\ checking'[s].token[2] = checking'[s].key
                             /\ checking'[s].token[3] >= issued'[checking'[s].nonce].at
      BY DEF CheckingSound
    <3>1. CASE s = r
      <4>1. Issued(checking[r].nonce, checking[r].key)' /\ MayEnter(checking[r].name, checking[r].key)'
        BY <1>1, <1>3, <2>1, <2>2, <2>8 DEF Issued, MayEnter
      <4>2. pending'[k] # n BY <1>1, <1>2, <2>1
      <4>3. \A q \in Checks \ {r} : checking'[q].nonce # n BY <2>7, <2>9
      <4> QED BY <3>1, <4>1, <4>2, <4>3, <2>8
    <3>2. CASE s # r
      <4>1. checking'[s] = checking[s] /\ (Checking(s)' <=> Checking(s)) BY <3>2, <2>7
      <4>2. ASSUME Checking(s)
            PROVE  /\ checking'[s].key \in PubKeys
                   /\ Issued(checking[s].nonce, checking[s].key)'
                   /\ pending'[checking'[s].key] # checking'[s].nonce
                   /\ MayEnter(checking[s].name, checking[s].key)'
        <5>1. /\ checking[s].key \in PubKeys /\ Issued(checking[s].nonce, checking[s].key)
              /\ pending[checking[s].key] # checking[s].nonce /\ MayEnter(checking[s].name, checking[s].key)
          BY <4>2 DEF CheckingSound
        <5>2. Issued(checking[s].nonce, checking[s].key)' /\ MayEnter(checking[s].name, checking[s].key)'
          BY <5>1, <4>1, <1>1 DEF Issued, MayEnter
        <5> QED BY <5>1, <5>2, <4>1, <1>2, <1>4
      <4>3. ASSUME Checking(s), NEW q \in Checks \ {s} PROVE checking'[q].nonce # checking'[s].nonce
        <5>1. checking[q].nonce # checking[s].nonce BY <4>3 DEF CheckingSound
        <5>2. CASE q = r BY <5>2, <4>1, <2>8, <2>9
        <5>3. CASE q # r BY <5>3, <5>1, <4>1, <2>7
        <5> QED BY <5>2, <5>3
      <4>4. ~Checking(s) => checking'[s].nonce = 0 BY <4>1 DEF CheckingSound
      <4>5. checking'[s].at = "token" => /\ checking'[s].token[2] = checking'[s].key
                                         /\ checking'[s].token[3] >= issued'[checking'[s].nonce].at
        BY <4>1, <1>1 DEF CheckingSound
      <4> QED BY <4>1, <4>2, <4>3, <4>4, <4>5
    <3> QED BY <3>1, <3>2
  <2>12. WelcomedSound'
    <3>1. \A w \in welcomed : pending'[w.key] # w.nonce
      BY <1>2, <1>4 DEF WelcomedSound, HandshakeTypeOK
    <3>2. ASSUME NEW w \in welcomed, NEW s \in Checks, Checking(s)' PROVE w.nonce # checking'[s].nonce
      <4>1. CASE s = r BY <4>1, <2>8, <2>10
      <4>2. CASE s # r
        <5>1. Checking(s) /\ checking'[s] = checking[s] BY <4>2, <3>2, <2>7
        <5> QED BY <5>1 DEF WelcomedSound
      <4> QED BY <4>1, <4>2
    <3> QED BY <1>1, <1>4, <3>1, <3>2 DEF WelcomedSound
  <2> QED BY <1>5, <1>6, <2>6, <2>11, <2>12
<1> QED BY <1>7, <1>8

\* The second of a token is not before that of its challenge.
LEMMA MakeKeeps ==
  ASSUME HandshakeInv, NEW r \in Checks, MakeToken(r)
  PROVE  HandshakeInv'
<1> USE DEF HandshakeInv
<1> DEFINE c == checking[r]
           token == <<c.name, c.key, second>>
           new == [c EXCEPT !.at = "token", !.token = token]
<1>1. /\ c.at = "let in" /\ checking' = [checking EXCEPT ![r] = new]
      /\ UNCHANGED <<issued, pending, second, connections, agentsFile, initing, welcomed, announced, disturbed, lastKey>>
  BY DEF MakeToken
<1>2. Checking(r) BY <1>1 DEF Checking
<1>3. c \in Verification /\ second \in Nat /\ checking \in [Checks -> Verification]
  BY DEF HandshakeTypeOK
<1>4. c.key \in PubKeys /\ Issued(c.nonce, c.key) BY <1>2 DEF CheckingSound
<1>5. token \in AnyToken
  <2>1. c.name \in AgentNames BY <1>3 DEF Verification
  <2> QED BY <2>1, <1>3, <1>4 DEF AnyToken
<1>6. /\ new \in Verification
      /\ new.at = "token" /\ new.key = c.key /\ new.nonce = c.nonce /\ new.name = c.name /\ new.token = token
  <2> HIDE DEF token
  <2> QED BY <1>3, <1>5 DEF Verification
<1>7. token[2] = c.key /\ token[3] = second
  OBVIOUS
<1>8. checking' \in [Checks -> Verification] /\ checking'[r] = new
      /\ \A s \in Checks \ {r} : checking'[s] = checking[s]
  <2> HIDE DEF new
  <2> QED BY <1>1, <1>3, <1>6
<1> HIDE DEF new, token
<1>9. \A s \in Checks : /\ Checking(s)' <=> Checking(s)
                        /\ checking'[s].nonce = checking[s].nonce /\ checking'[s].key = checking[s].key
                        /\ checking'[s].name = checking[s].name
                        /\ s # r => checking'[s].token = checking[s].token /\ checking'[s].at = checking[s].at
  BY <1>2, <1>6, <1>8 DEF Checking
<1>10. HandshakeTypeOK' BY <1>1, <1>8 DEF HandshakeTypeOK
<1>11. PendingSound' /\ ConnectionsSound' /\ AgentsSound'
  BY <1>1 DEF PendingSound, Issued, ConnectionsSound, AgentsSound, Initing, KnowsLast
<1>14. \A n, q : /\ Issued(n, q)' <=> Issued(n, q)
                 /\ MayEnter(n, q)' <=> MayEnter(n, q)
  BY <1>1 DEF Issued, MayEnter
<1> HIDE DEF c
<1>12. CheckingSound'
  <2> SUFFICES ASSUME NEW s \in Checks
               PROVE  /\ ~Checking(s)' => checking'[s].nonce = 0
                      /\ Checking(s)' =>
                           /\ checking'[s].key \in PubKeys
                           /\ Issued(checking[s].nonce, checking[s].key)'
                           /\ pending'[checking'[s].key] # checking'[s].nonce
                           /\ MayEnter(checking[s].name, checking[s].key)'
                           /\ \A q \in Checks \ {s} : checking'[q].nonce # checking'[s].nonce
                      /\ checking'[s].at = "token" =>
                           /\ checking'[s].token[2] = checking'[s].key
                           /\ checking'[s].token[3] >= issued'[checking'[s].nonce].at
    BY DEF CheckingSound
  <2>1. ~Checking(s)' => checking'[s].nonce = 0 BY <1>9 DEF CheckingSound
  <2>2. ASSUME Checking(s)'
        PROVE  /\ checking'[s].key \in PubKeys
               /\ Issued(checking[s].nonce, checking[s].key)'
               /\ pending'[checking'[s].key] # checking'[s].nonce
               /\ MayEnter(checking[s].name, checking[s].key)'
               /\ \A q \in Checks \ {s} : checking'[q].nonce # checking'[s].nonce
    <3>1. /\ checking[s].key \in PubKeys /\ Issued(checking[s].nonce, checking[s].key)
          /\ pending[checking[s].key] # checking[s].nonce /\ MayEnter(checking[s].name, checking[s].key)
          /\ \A q \in Checks \ {s} : checking[q].nonce # checking[s].nonce
      BY <2>2, <1>9 DEF CheckingSound
    <3>2. Issued(checking[s].nonce, checking[s].key)' /\ MayEnter(checking[s].name, checking[s].key)'
      <4>1. /\ checking'[s].nonce = checking[s].nonce /\ checking'[s].key = checking[s].key
            /\ checking'[s].name = checking[s].name
        BY <1>9
      <4>2. issued' = issued /\ second' = second /\ announced' = announced BY <1>1
      <4>3. Issued(checking[s].nonce, checking[s].key) /\ MayEnter(checking[s].name, checking[s].key) BY <3>1
      <4> QED BY <4>1, <4>2, <4>3 DEF Issued, MayEnter
    <3> QED BY <3>1, <3>2, <1>9, <1>1
  <2>3. ASSUME checking'[s].at = "token"
        PROVE  /\ checking'[s].token[2] = checking'[s].key
               /\ checking'[s].token[3] >= issued'[checking'[s].nonce].at
    <3>1. CASE s = r
      <4>1. issued[c.nonce].at <= second BY <1>4 DEF Issued
      <4>2. issued[c.nonce].at \in Nat
        <5>1. issued[c.nonce] \in Challenge BY <1>4 DEF Issued, HandshakeTypeOK
        <5> QED BY <5>1 DEF Challenge
      <4> QED BY <3>1, <4>1, <4>2, <1>1, <1>3, <1>6, <1>7, <1>8
    <3>2. CASE s # r BY <3>2, <2>3, <1>1, <1>8, <1>9 DEF CheckingSound
    <3> QED BY <3>1, <3>2
  <2> QED BY <2>1, <2>2, <2>3
<1>13. WelcomedSound'
  <2>1. \A w \in welcomed : Issued(w.nonce, w.key)' /\ MayEnter(w.name, w.key)'
    BY <1>14 DEF WelcomedSound
  <2>2. \A w \in welcomed, s \in Checks : Checking(s)' => w.nonce # checking'[s].nonce
    BY <1>9 DEF WelcomedSound
  <2> QED BY <1>1, <2>1, <2>2 DEF WelcomedSound
<1> QED BY <1>10, <1>11, <1>12, <1>13

\* Whoever is connected spends a challenge that nobody else has.
LEMMA ConnectKeeps ==
  ASSUME HandshakeInv, NEW r \in Checks, Connect(r)
  PROVE  HandshakeInv'
<1> USE DEF HandshakeInv
<1> DEFINE c == checking[r]
           new == [AtRest EXCEPT !.at = "over"]
           entry == [by |-> r, key |-> c.key, nonce |-> c.nonce, token |-> c.token, name |-> c.name]
<1>1. /\ c.at = "token"
      /\ connections' = [t \in DOMAIN connections \cup {c.token} |-> IF t = c.token THEN c.key ELSE connections[t]]
      /\ welcomed' = welcomed \cup {entry}
      /\ checking' = [checking EXCEPT ![r] = new]
      /\ UNCHANGED <<issued, pending, second, agentsFile, initing, announced, lastKey, disturbed>>
  BY DEF Connect
<1>2. Checking(r) BY <1>1 DEF Checking
<1>3. /\ c.key \in PubKeys /\ Issued(c.nonce, c.key) /\ pending[c.key] # c.nonce
      /\ MayEnter(c.name, c.key) /\ \A s \in Checks \ {r} : checking[s].nonce # c.nonce
      /\ c.token[2] = c.key /\ c.token[3] >= issued[c.nonce].at
  BY <1>1, <1>2 DEF CheckingSound
<1>4. /\ entry.key = c.key /\ entry.nonce = c.nonce /\ entry.token = c.token /\ entry.name = c.name
  OBVIOUS
<1>5. /\ new \in Verification /\ new.at = "over" /\ new.nonce = 0
  <2>1. <<>> \in AnyToken BY DEF AnyToken
  <2> QED BY <2>1 DEF AtRest, Verification, AgentNames
<1>6. checking \in [Checks -> Verification] /\ c \in Verification BY DEF HandshakeTypeOK
<1>7. c.nonce \in Nat BY <1>6 DEF Verification
<1> HIDE DEF new, entry
<1>8. checking' \in [Checks -> Verification] /\ checking'[r] = new
      /\ \A s \in Checks \ {r} : checking'[s] = checking[s] /\ (Checking(s)' <=> Checking(s))
  BY <1>1, <1>5, <1>6 DEF Checking
<1>9. ~Checking(r)' /\ checking'[r].nonce = 0 /\ checking'[r].at # "token"
  BY <1>5, <1>8 DEF Checking
<1>10. HandshakeTypeOK'
  BY <1>1, <1>3, <1>4, <1>7, <1>8 DEF HandshakeTypeOK
<1>11. PendingSound' /\ AgentsSound'
  BY <1>1 DEF PendingSound, Issued, AgentsSound, Initing, KnowsLast
<1>12. \A m, q : /\ Issued(m, q)' <=> Issued(m, q)
                 /\ MayEnter(m, q)' <=> MayEnter(m, q)
                 /\ Issued(m, q) => m # 0
  BY <1>1 DEF Issued, MayEnter, HandshakeTypeOK
<1>13. CheckingSound'
  <2> SUFFICES ASSUME NEW s \in Checks \ {r}
               PROVE  /\ ~Checking(s)' => checking'[s].nonce = 0
                      /\ Checking(s)' =>
                           /\ checking'[s].key \in PubKeys
                           /\ Issued(checking[s].nonce, checking[s].key)'
                           /\ pending'[checking'[s].key] # checking'[s].nonce
                           /\ MayEnter(checking[s].name, checking[s].key)'
                           /\ \A q \in Checks \ {s} : checking'[q].nonce # checking'[s].nonce
                      /\ checking'[s].at = "token" =>
                           /\ checking'[s].token[2] = checking'[s].key
                           /\ checking'[s].token[3] >= issued'[checking'[s].nonce].at
    BY <1>9 DEF CheckingSound
  <2>1. checking'[s] = checking[s] /\ (Checking(s)' <=> Checking(s)) BY <1>8
  <2>2. ASSUME Checking(s)
        PROVE  /\ checking'[s].key \in PubKeys
               /\ Issued(checking[s].nonce, checking[s].key)'
               /\ pending'[checking'[s].key] # checking'[s].nonce
               /\ MayEnter(checking[s].name, checking[s].key)'
               /\ \A q \in Checks \ {s} : checking'[q].nonce # checking'[s].nonce
    <3>1. /\ checking[s].key \in PubKeys /\ Issued(checking[s].nonce, checking[s].key)
          /\ pending[checking[s].key] # checking[s].nonce /\ MayEnter(checking[s].name, checking[s].key)
          /\ \A q \in Checks \ {s} : checking[q].nonce # checking[s].nonce
      BY <2>2 DEF CheckingSound
    <3>2. Issued(checking[s].nonce, checking[s].key)' /\ MayEnter(checking[s].name, checking[s].key)'
      BY <3>1, <2>1, <1>1 DEF Issued, MayEnter
    <3>3. checking[s].nonce # 0 BY <3>1, <1>12
    <3> QED BY <3>1, <3>2, <3>3, <2>1, <1>1, <1>8, <1>9
  <2>3. ~Checking(s) => checking'[s].nonce = 0 BY <2>1 DEF CheckingSound
  <2>4. checking'[s].at = "token" => /\ checking'[s].token[2] = checking'[s].key
                                     /\ checking'[s].token[3] >= issued'[checking'[s].nonce].at
    BY <2>1, <1>1 DEF CheckingSound
  <2> QED BY <2>1, <2>2, <2>3, <2>4
<1>14. WelcomedSound'
  <2>1. ASSUME NEW w \in welcomed'
        PROVE  /\ Issued(w.nonce, w.key)' /\ pending'[w.key] # w.nonce /\ MayEnter(w.name, w.key)'
               /\ w.token[2] = w.key /\ w.token[3] >= issued'[w.nonce].at
               /\ \A s \in Checks : Checking(s)' => w.nonce # checking'[s].nonce
    <3>1. CASE w = entry BY <3>1, <1>1, <1>3, <1>4, <1>8, <1>9, <1>12
    <3>2. CASE w \in welcomed BY <3>2, <1>1, <1>8, <1>9, <1>12 DEF WelcomedSound
    <3> QED BY <3>1, <3>2, <1>1
  <2>2. ASSUME NEW w \in welcomed', NEW v \in welcomed', w.nonce = v.nonce PROVE w = v
    <3>1. \A u \in welcomed : u.nonce # entry.nonce BY <1>2, <1>4 DEF WelcomedSound
    <3> QED BY <3>1, <2>2, <1>1 DEF WelcomedSound
  <2> QED BY <2>1, <2>2 DEF WelcomedSound
<1>15. ConnectionsSound'
  BY <1>1, <1>3, <1>4 DEF ConnectionsSound
<1> QED BY <1>10, <1>11, <1>13, <1>14, <1>15
-----------------------------------------------------------------------------
\* A run of init_agent changes nothing of challenges and connections.
LEMMA InitsApart ==
  ASSUME HandshakeInv, UNCHANGED <<issued, pending, second, checking, connections, welcomed>>,
         announced \subseteq announced'
  PROVE  PendingSound' /\ CheckingSound' /\ WelcomedSound' /\ ConnectionsSound'
<1> USE DEF HandshakeInv
<1>1. \A n, q : Issued(n, q) => Issued(n, q)' /\ issued'[n] = issued[n]
  BY DEF Issued
<1>2. \A m, q : MayEnter(m, q) => MayEnter(m, q)'
  BY DEF MayEnter
<1>3. CheckingSound' /\ WelcomedSound'
  BY <1>1, <1>2, StillSound
<1>4. PendingSound' /\ ConnectionsSound'
  BY DEF PendingSound, Issued, ConnectionsSound
<1> QED BY <1>3, <1>4

\* What init_agent read is what had been announced, as long as no other is running.
LEMMA ReadKeeps ==
  ASSUME HandshakeInv, NEW i \in Inits, NEW n \in Agents, ReadAgents(i, n)
  PROVE  HandshakeInv'
<1> USE DEF HandshakeInv
<1> DEFINE new == [at |-> "read", name |-> n, seen |-> IF agentsFile.torn THEN {} ELSE agentsFile.keys]
<1>1. /\ initing[i].at = "rest"
      /\ initing' = [initing EXCEPT ![i] = new]
      /\ disturbed' = (disturbed \/ \E j \in Inits : initing[j].at \in {"read", "torn"})
      /\ UNCHANGED <<issued, pending, second, checking, connections, agentsFile, welcomed, announced, lastKey>>
  BY DEF ReadAgents
<1>2. /\ agentsFile.keys \subseteq AgentKeys /\ OneEach(agentsFile.keys) /\ agentsFile.keys \subseteq announced
      /\ initing \in [Inits -> Writing]
  BY DEF HandshakeTypeOK, AgentsSound
<1>3. new \in Writing /\ new.at = "read" /\ new.name = n /\ new.seen \subseteq announced
      /\ (~agentsFile.torn => new.seen = agentsFile.keys) /\ OneEach(new.seen)
  BY <1>2 DEF Writing, OneEach
<1> HIDE DEF new
<1>4. /\ initing' \in [Inits -> Writing] /\ initing'[i] = new
      /\ \A j \in Inits \ {i} : initing'[j] = initing[j]
  BY <1>1, <1>2, <1>3
<1>5. HandshakeTypeOK'
  <2>1. disturbed' \in BOOLEAN BY <1>1 DEF HandshakeTypeOK
  <2> QED BY <2>1, <1>1, <1>4 DEF HandshakeTypeOK
<1>6. AgentsSound'
  <2>1. \A j \in Inits : /\ initing'[j].seen \subseteq announced /\ OneEach(initing'[j].seen)
                         /\ Initing(j)' => initing'[j].name \in Agents
    BY <1>3, <1>4 DEF AgentsSound, Initing
  <2>2. ASSUME ~disturbed'
        PROVE  /\ \A j, q \in Inits : Initing(j)' /\ Initing(q)' => j = q
               /\ \A j \in Inits : Initing(j)' => KnowsLast(initing'[j].seen)
               /\ (\A j \in Inits : initing'[j].at # "torn") => ~agentsFile.torn /\ KnowsLast(agentsFile.keys)
    <3>1. ~disturbed /\ \A j \in Inits : ~Initing(j) BY <2>2, <1>1 DEF Initing
    <3>2. ~agentsFile.torn /\ KnowsLast(agentsFile.keys) BY <3>1 DEF AgentsSound, Initing
    <3>3. \A j \in Inits : Initing(j)' => j = i BY <3>1, <1>4 DEF Initing
    <3> QED BY <3>2, <3>3, <1>3, <1>4
  <2> QED BY <2>1, <2>2, <1>1, <1>2 DEF AgentsSound, KnowsLast, OneEach
<1>7. PendingSound' /\ CheckingSound' /\ WelcomedSound' /\ ConnectionsSound'
  BY <1>1, InitsApart
<1> QED BY <1>5, <1>6, <1>7

\* The file is torn while it is written.
LEMMA TearKeeps ==
  ASSUME HandshakeInv, NEW i \in Inits, TearAgents(i)
  PROVE  HandshakeInv'
<1> USE DEF HandshakeInv
<1>1. /\ initing[i].at = "read"
      /\ agentsFile' = [there |-> TRUE, torn |-> TRUE, keys |-> {}]
      /\ initing' = [initing EXCEPT ![i].at = "torn"]
      /\ UNCHANGED <<issued, pending, second, checking, connections, welcomed, announced, disturbed, lastKey>>
  BY DEF TearAgents
<1>2. initing \in [Inits -> Writing] /\ initing[i] \in Writing BY DEF HandshakeTypeOK
<1>3. [initing[i] EXCEPT !.at = "torn"] \in Writing BY <1>2 DEF Writing
<1>4. initing' \in [Inits -> Writing] BY <1>1, <1>2, <1>3
<1>5. \A j \in Inits : /\ Initing(j)' <=> Initing(j)
                       /\ initing'[j].seen = initing[j].seen /\ initing'[j].name = initing[j].name
  BY <1>1, <1>2 DEF Initing, Writing, HandshakeTypeOK
<1>6. initing'[i].at = "torn" BY <1>1, <1>2 DEF Writing
<1>7. HandshakeTypeOK' BY <1>1, <1>4 DEF HandshakeTypeOK
<1>8. AgentsSound'
  BY <1>1, <1>5, <1>6 DEF AgentsSound, KnowsLast, OneEach
<1>9. PendingSound' /\ CheckingSound' /\ WelcomedSound' /\ ConnectionsSound'
  BY <1>1, InitsApart
<1> QED BY <1>7, <1>8, <1>9

\* One that ends is at rest for good, and has read nothing.
LEMMA InitEnds ==
  ASSUME HandshakeInv, NEW i \in Inits, initing' = [initing EXCEPT ![i] = [NotBegun EXCEPT !.at = "over"]]
  PROVE  /\ initing' \in [Inits -> Writing]
         /\ ~Initing(i)' /\ initing'[i].at = "over" /\ initing'[i].seen = {}
         /\ \A j \in Inits \ {i} : initing'[j] = initing[j] /\ (Initing(j)' <=> Initing(j))
<1> USE DEF HandshakeInv
<1> DEFINE new == [NotBegun EXCEPT !.at = "over"]
<1>1. new \in Writing /\ new.at = "over" /\ new.seen = {} BY DEF NotBegun, Writing
<1>2. initing \in [Inits -> Writing] BY DEF HandshakeTypeOK
<1>3. initing' = [initing EXCEPT ![i] = new] OBVIOUS
<1> HIDE DEF new
<1>4. /\ initing' \in [Inits -> Writing] /\ initing'[i] = new
      /\ \A j \in Inits \ {i} : initing'[j] = initing[j]
  BY <1>1, <1>2, <1>3
<1> QED BY <1>1, <1>4 DEF Initing

\* The file names whoever was announced before, and the one announced now by its new key.
LEMMA WriteKeeps ==
  ASSUME HandshakeInv, NEW i \in Inits, WriteAgents(i)
  PROVE  HandshakeInv'
<1> USE DEF HandshakeInv
<1> DEFINE n == initing[i].name
           left == {e \in initing[i].seen : e.name # n}
<1>1. /\ initing[i].at = "torn"
      /\ agentsFile' = [there |-> TRUE, torn |-> FALSE, keys |-> left \cup {Named(i)}]
      /\ announced' = announced \cup {Named(i)} /\ lastKey' = [lastKey EXCEPT ![n] = i]
      /\ initing' = [initing EXCEPT ![i] = [NotBegun EXCEPT !.at = "over"]]
      /\ UNCHANGED <<issued, pending, second, checking, connections, welcomed, disturbed>>
  BY DEF WriteAgents
<1>2. /\ Initing(i) /\ n \in Agents /\ initing[i].seen \subseteq announced
      /\ initing[i].seen \subseteq AgentKeys /\ OneEach(initing[i].seen)
      /\ lastKey \in [Agents -> PubKeys \cup {NoTask}]
  BY <1>1 DEF AgentsSound, Initing, HandshakeTypeOK
<1>3. /\ initing' \in [Inits -> Writing]
      /\ ~Initing(i)' /\ initing'[i].at = "over" /\ initing'[i].seen = {}
      /\ \A j \in Inits \ {i} : initing'[j] = initing[j] /\ (Initing(j)' <=> Initing(j))
  BY <1>1, InitEnds
<1>4. /\ Named(i) \in AgentKeys /\ Named(i).name = n /\ Named(i) = [name |-> n, key |-> i]
      /\ lastKey' \in [Agents -> PubKeys \cup {NoTask}] /\ lastKey'[n] = i
      /\ \A m \in Agents \ {n} : lastKey'[m] = lastKey[m]
  BY <1>1, <1>2 DEF Named, AgentKeys, PubKeys
<1>5. left \subseteq initing[i].seen /\ (\A e \in left : e.name # n)
      /\ \A k : \A m \in Agents : m # n /\ [name |-> m, key |-> k] \in initing[i].seen => [name |-> m, key |-> k] \in left
  OBVIOUS
<1> HIDE DEF n, left
<1>6. OneEach(left \cup {Named(i)})
  BY <1>2, <1>4, <1>5 DEF OneEach
<1>7. HandshakeTypeOK'
  <2>1. agentsFile' \in [there : BOOLEAN, torn : BOOLEAN, keys : SUBSET AgentKeys]
    BY <1>1, <1>2, <1>4, <1>5
  <2>2. announced' \subseteq AgentKeys
    BY <1>1, <1>4 DEF HandshakeTypeOK
  <2> QED BY <2>1, <2>2, <1>1, <1>3, <1>4 DEF HandshakeTypeOK
<1>8. AgentsSound'
  <2>1. /\ agentsFile'.keys \subseteq announced'
        /\ \A j \in Inits : initing'[j].seen \subseteq announced' /\ (Initing(j)' => initing'[j].name \in Agents)
    BY <1>1, <1>2, <1>3, <1>5 DEF AgentsSound
  <2>2. ASSUME ~disturbed'
        PROVE  /\ \A j \in Inits : ~Initing(j)'
               /\ ~agentsFile'.torn /\ KnowsLast(agentsFile.keys)'
    <3>1. ~disturbed BY <2>2, <1>1
    <3>2. \A j \in Inits : Initing(j) => j = i BY <3>1, <1>2 DEF AgentsSound
    <3>3. KnowsLast(initing[i].seen) BY <3>1, <1>2 DEF AgentsSound
    <3>4. agentsFile'.keys = left \cup {Named(i)} /\ ~agentsFile'.torn BY <1>1
    <3>5. KnowsLast(agentsFile.keys)'
      <4> SUFFICES ASSUME NEW m \in Agents, lastKey'[m] # NoTask
                   PROVE  [name |-> m, key |-> lastKey'[m]] \in agentsFile'.keys
        BY DEF KnowsLast
      <4>1. CASE m = n BY <4>1, <3>4, <1>4
      <4>2. CASE m # n
        <5>1. lastKey'[m] = lastKey[m] BY <4>2, <1>4
        <5>2. [name |-> m, key |-> lastKey[m]] \in initing[i].seen BY <5>1, <3>3 DEF KnowsLast
        <5> QED BY <5>1, <5>2, <4>2, <1>5, <3>4
      <4> QED BY <4>1, <4>2
    <3> QED BY <3>2, <3>4, <3>5, <1>3
  <2>3. \A j \in Inits : OneEach(initing'[j].seen)
    BY <1>3 DEF AgentsSound, OneEach
  <2>4. OneEach(agentsFile'.keys) BY <1>1, <1>6
  <2> QED BY <2>1, <2>2, <2>3, <2>4 DEF AgentsSound
<1>9. PendingSound' /\ CheckingSound' /\ WelcomedSound' /\ ConnectionsSound'
  BY <1>1, InitsApart
<1> QED BY <1>7, <1>8, <1>9

\* One that dies has changed nothing, or is known to have torn the file.
LEMMA DieKeeps ==
  ASSUME HandshakeInv, NEW i \in Inits, InitDies(i)
  PROVE  HandshakeInv'
<1> USE DEF HandshakeInv
<1>1. /\ initing[i].at \in {"read", "torn"}
      /\ disturbed' = (disturbed \/ initing[i].at = "torn")
      /\ initing' = [initing EXCEPT ![i] = [NotBegun EXCEPT !.at = "over"]]
      /\ UNCHANGED <<issued, pending, second, checking, connections, agentsFile, welcomed, announced, lastKey>>
  BY DEF InitDies
<1>2. /\ initing' \in [Inits -> Writing]
      /\ ~Initing(i)' /\ initing'[i].at = "over" /\ initing'[i].seen = {}
      /\ \A j \in Inits \ {i} : initing'[j] = initing[j] /\ (Initing(j)' <=> Initing(j))
  BY <1>1, InitEnds
<1>3. HandshakeTypeOK'
  <2>1. disturbed' \in BOOLEAN BY <1>1 DEF HandshakeTypeOK
  <2> QED BY <2>1, <1>1, <1>2 DEF HandshakeTypeOK
<1>4. AgentsSound'
  <2>1. \A j \in Inits : initing'[j].seen \subseteq announced /\ (Initing(j)' => initing'[j].name \in Agents)
    BY <1>2 DEF AgentsSound
  <2>2. ASSUME ~disturbed'
        PROVE  /\ \A j \in Inits : ~Initing(j)'
               /\ ~agentsFile.torn /\ KnowsLast(agentsFile.keys)
    <3>1. ~disturbed /\ initing[i].at = "read" /\ Initing(i) BY <2>2, <1>1 DEF Initing
    <3>2. \A j \in Inits : Initing(j) => j = i BY <3>1 DEF AgentsSound
    <3>3. \A j \in Inits : initing[j].at # "torn" BY <3>1, <3>2 DEF Initing
    <3> QED BY <3>1, <3>2, <3>3, <1>2 DEF AgentsSound
  <2>3. \A j \in Inits : OneEach(initing'[j].seen)
    BY <1>2 DEF AgentsSound, OneEach
  <2> QED BY <2>1, <2>2, <2>3, <1>1 DEF AgentsSound, KnowsLast
<1>5. PendingSound' /\ CheckingSound' /\ WelcomedSound' /\ ConnectionsSound'
  BY <1>1, InitsApart
<1> QED BY <1>3, <1>4, <1>5
-----------------------------------------------------------------------------
LEMMA HandshakeStep == HandshakeInv /\ [HandshakeNext]_handshakeVars => HandshakeInv'
<1> SUFFICES ASSUME HandshakeInv, [HandshakeNext]_handshakeVars PROVE HandshakeInv'
  OBVIOUS
<1>1. ASSUME NEW k \in PubKeys, OpenConnection(k) PROVE HandshakeInv'
  BY <1>1, OpenKeeps
<1>2. ASSUME NEW r \in Checks, NEW k \in PubKeys, NEW n \in 0..MaxChallenges, TakeChallenge(r, k, n)
      PROVE HandshakeInv'
  BY <1>2, TakeKeeps
<1>3. ASSUME NEW r \in Checks, MakeToken(r) PROVE HandshakeInv'
  BY <1>3, MakeKeeps
<1>4. ASSUME NEW r \in Checks, Connect(r) PROVE HandshakeInv'
  BY <1>4, ConnectKeeps
<1>5. ASSUME NEW i \in Inits, NEW n \in Agents, ReadAgents(i, n) PROVE HandshakeInv'
  BY <1>5, ReadKeeps
<1>6. ASSUME NEW i \in Inits, TearAgents(i) PROVE HandshakeInv'
  BY <1>6, TearKeeps
<1>7. ASSUME NEW i \in Inits, WriteAgents(i) PROVE HandshakeInv'
  BY <1>7, WriteKeeps
<1>8. ASSUME NEW i \in Inits, InitDies(i) PROVE HandshakeInv'
  BY <1>8, DieKeeps
<1>9. CASE SecondPasses
  BY <1>9, SecondKeeps
<1>10. CASE UNCHANGED handshakeVars
  <2>1. UNCHANGED <<issued, pending, second, checking, connections, agentsFile, initing, welcomed, announced, disturbed, lastKey>>
    BY <1>10 DEF handshakeVars
  <2>2. HandshakeTypeOK' /\ AgentsSound'
    BY <2>1 DEF HandshakeInv, HandshakeTypeOK, AgentsSound, Initing, KnowsLast
  <2>3. PendingSound' /\ CheckingSound' /\ WelcomedSound' /\ ConnectionsSound'
    BY <2>1, InitsApart
  <2> QED BY <2>2, <2>3 DEF HandshakeInv
<1> QED BY <1>1, <1>2, <1>3, <1>4, <1>5, <1>6, <1>7, <1>8, <1>9, <1>10 DEF HandshakeNext

LEMMA HandshakeHolds == HandshakeInv => HandshakeKeeps
<1> SUFFICES ASSUME HandshakeInv PROVE HandshakeKeeps
  OBVIOUS
<1> USE DEF HandshakeInv
<1>1. \A w, v \in welcomed : w.nonce = v.nonce => w = v
  BY DEF WelcomedSound
<1>2. \A w \in welcomed :
        /\ issued[w.nonce].key = w.key
        /\ w.token[3] >= issued[w.nonce].at
        /\ w.name = "anonymous" => ~RequireFile
        /\ w.name = "named" => \E e \in announced : e.key = w.key
  BY DEF WelcomedSound, Issued, MayEnter
<1>3. \A r \in Checks : checking[r].at \in {"let in", "token"} =>
        /\ pending[checking[r].key] # checking[r].nonce
        /\ \A w \in welcomed : w.nonce # checking[r].nonce
        /\ \A s \in Checks \ {r} : checking[s].nonce # checking[r].nonce
  BY DEF CheckingSound, WelcomedSound, Checking
<1>4. /\ \A d, e \in agentsFile.keys : d.name = e.name => d = e
      /\ (~disturbed /\ \A i \in Inits : initing[i].at # "torn") => KnowsLast(agentsFile.keys)
  BY DEF AgentsSound, OneEach
<1> QED BY <1>1, <1>2, <1>3, <1>4 DEF HandshakeKeeps, ConnectionsSound

\* Nobody is let in twice for one challenge, for another's, or with a token older than it;
\* who is named was announced; and init_agent, by itself, forgets no agent it announced, but
\* each agent's key for its next
\* (handle_connection_open and handle_connection_verify in connection.rs, init_agent in init.rs).
THEOREM HandshakeSafe == HandshakeSpec => []HandshakeKeeps
BY HandshakeStarts, HandshakeStep, HandshakeHolds, PTL DEF HandshakeSpec

-----------------------------------------------------------------------------
(* DebugSessions                                                           *)

SessionType == [replays : BOOLEAN, kept : Seq(Sends), last : Seq(Sends)]
SendType == [at : {"rest", "language", "replay", "running", "unknown", "error", "ok"}, id : Nat, replay : BOOLEAN,
             runs : Seq(Sends), owes : SUBSET Sends, alive : BOOLEAN]
DebugTypes ==
  /\ nextSession \in Nat \ {0} /\ sending \in [Sends -> SendType]
  /\ DOMAIN debugSessions \subseteq 1..(nextSession - 1) /\ debugSessions \in [DOMAIN debugSessions -> SessionType]

\* What a session and a send, c, stand at.  A number is given to a session once, so that a
\* session that a send has seen is the one it will answer, or is gone for good.
SessionStands(id) ==
  /\ ToSet(debugSessions[id].kept) = Answered(id) /\ IsInjective(debugSessions[id].kept)
  /\ debugSessions[id].kept # <<>> => /\ Last(debugSessions[id].last) = Last(debugSessions[id].kept)
                                      /\ debugSessions[id].replays \/ Len(debugSessions[id].last) = 1
SendStands(s, c) ==
  /\ c.alive => c.id \in 1..(nextSession - 1)
  /\ c.at \notin {"rest", "unknown"} => c.alive
  /\ c.at \in {"rest", "language", "replay"} => c.runs = <<>>
  /\ c.at = "running" => c.runs # <<>> /\ Last(c.runs) = s /\ (~c.replay => Len(c.runs) = 1)
  /\ c.at \in {"replay", "running"} /\ There(c.id) /\ c.replay => debugSessions[c.id].replays
  /\ c.at = "unknown" /\ c.alive => ~There(c.id)
  /\ c.owes \subseteq Answered(c.id)
  /\ c.replay /\ c.runs # <<>> => c.owes \subseteq ToSet(c.runs)
DebugStands ==
  /\ \A id \in DOMAIN debugSessions : SessionStands(id)
  /\ \A s \in Sends : SendStands(s, sending[s])
DebugInv == DebugTypes /\ DebugStands

LEMMA NotSentType == /\ NotSent \in SendType /\ NotSent.at = "rest" /\ NotSent.runs = <<>> /\ NotSent.owes = {}
                     /\ NotSent.alive = FALSE /\ NotSent.id = 0 /\ NotSent.replay = FALSE
BY DEF NotSent, SendType

\* A snippet that is added to those kept.
LEMMA Added ==
  ASSUME NEW k \in Seq(Sends), NEW s \in Sends
  PROVE  /\ Append(k, s) \in Seq(Sends) /\ Append(k, s) # <<>> /\ Last(Append(k, s)) = s
         /\ ToSet(Append(k, s)) = ToSet(k) \cup {s}
         /\ IsInjective(k) /\ s \notin ToSet(k) => IsInjective(Append(k, s))
<1>1. /\ Append(k, s) \in Seq(Sends) /\ Len(Append(k, s)) = Len(k) + 1 /\ Append(k, s)[Len(k) + 1] = s
      /\ \A i \in 1..Len(k) : Append(k, s)[i] = k[i]
      /\ DOMAIN Append(k, s) = 1..(Len(k) + 1) /\ DOMAIN k = 1..Len(k) /\ Len(k) \in Nat
  OBVIOUS
<1>2. Last(Append(k, s)) = s /\ Append(k, s) # <<>>
  BY <1>1 DEF Last
<1>3. ToSet(Append(k, s)) = ToSet(k) \cup {s}
  <2>1. ASSUME NEW x \in ToSet(Append(k, s)) PROVE x \in ToSet(k) \cup {s}
    <3>1. PICK i \in 1..(Len(k) + 1) : x = Append(k, s)[i]
      BY <1>1 DEF ToSet
    <3>2. CASE i = Len(k) + 1
      BY <3>1, <3>2, <1>1
    <3>3. CASE i \in 1..Len(k)
      BY <3>1, <3>3, <1>1 DEF ToSet
    <3> QED BY <3>1, <3>2, <3>3, <1>1
  <2>2. s \in ToSet(Append(k, s))
    <3>1. Len(k) + 1 \in DOMAIN Append(k, s)
      BY <1>1
    <3> QED BY <3>1, <1>1 DEF ToSet
  <2>3. ASSUME NEW x \in ToSet(k) PROVE x \in ToSet(Append(k, s))
    <3>1. PICK i \in 1..Len(k) : x = k[i]
      BY <1>1 DEF ToSet
    <3>2. i \in DOMAIN Append(k, s) /\ Append(k, s)[i] = x
      BY <3>1, <1>1
    <3> QED BY <3>2 DEF ToSet
  <2> QED BY <2>1, <2>2, <2>3
<1>4. ASSUME IsInjective(k), s \notin ToSet(k) PROVE IsInjective(Append(k, s))
  <2>1. \A i \in 1..Len(k) : k[i] # s
    BY <1>4, <1>1 DEF ToSet
  <2>2. \A i, j \in 1..Len(k) : k[i] = k[j] => i = j
    BY <1>4, <1>1 DEF IsInjective
  <2>3. ASSUME NEW i \in DOMAIN Append(k, s), NEW j \in DOMAIN Append(k, s), Append(k, s)[i] = Append(k, s)[j]
        PROVE  i = j
    <3>1. (i \in 1..Len(k) \/ i = Len(k) + 1) /\ (j \in 1..Len(k) \/ j = Len(k) + 1)
      BY <1>1
    <3> QED BY <3>1, <2>1, <2>2, <2>3, <1>1
  <2> QED BY <2>3 DEF IsInjective
<1> QED BY <1>1, <1>2, <1>3, <1>4

LEMMA DebugInvInit == DebugInit => DebugInv
<1> SUFFICES ASSUME DebugInit PROVE DebugInv
  OBVIOUS
<1>1. DOMAIN debugSessions = {} /\ nextSession = 1 /\ sending = [s \in Sends |-> NotSent]
  BY DEF DebugInit
<1>2. debugSessions \in [DOMAIN debugSessions -> SessionType]
  BY DEF DebugInit
<1>3. DebugTypes
  BY <1>1, <1>2, NotSentType DEF DebugTypes
<1>4. ASSUME NEW s \in Sends PROVE SendStands(s, sending[s])
  BY <1>1, NotSentType DEF SendStands
<1> QED BY <1>1, <1>3, <1>4 DEF DebugInv, DebugStands

\* A step of one send that is not its answer: it becomes r.
LEMMA SendGoes ==
  ASSUME DebugInv, NEW s \in Sends, NEW r \in SendType, sending' = [sending EXCEPT ![s] = r],
         UNCHANGED <<debugSessions, nextSession>>, sending[s].at # "ok", r.at # "ok", SendStands(s, r)
  PROVE  DebugInv'
<1>1. sending' \in [Sends -> SendType] /\ sending'[s] = r /\ \A t \in Sends \ {s} : sending'[t] = sending[t]
  BY DEF DebugInv, DebugTypes
<1>2. DebugTypes'
  BY <1>1 DEF DebugInv, DebugTypes
<1>3. \A id : Answered(id)' = Answered(id)
  BY <1>1 DEF Answered
<1>4. ASSUME NEW id \in DOMAIN debugSessions PROVE SessionStands(id)'
  BY <1>3 DEF DebugInv, DebugStands, SessionStands
<1>5. ASSUME NEW t \in Sends PROVE SendStands(t, sending[t])'
  <2>1. SendStands(t, sending'[t])
    <3>1. CASE t = s
      BY <3>1, <1>1
    <3>2. CASE t # s
      BY <3>2, <1>1 DEF DebugInv, DebugStands
    <3> QED BY <3>1, <3>2
  <2> QED BY <2>1, <1>3 DEF SendStands, There
<1> QED BY <1>2, <1>4, <1>5 DEF DebugInv, DebugStands

LEMMA DebugInvNext == DebugInv /\ [DebugNext]_debugVars => DebugInv'
<1> SUFFICES ASSUME DebugInv, [DebugNext]_debugVars PROVE DebugInv'
  OBVIOUS
<1>0. /\ DebugTypes /\ nextSession \in Nat \ {0} /\ sending \in [Sends -> SendType]
      /\ DOMAIN debugSessions \subseteq 1..(nextSession - 1) /\ debugSessions \in [DOMAIN debugSessions -> SessionType]
  BY DEF DebugInv, DebugTypes
<1>1. /\ \A id \in DOMAIN debugSessions : SessionStands(id)
      /\ \A s \in Sends : SendStands(s, sending[s])
  BY DEF DebugInv, DebugStands
<1>2. ASSUME NEW lang \in {"python", "gdb"}, StartSession(lang) PROVE DebugInv'
  <2> DEFINE n == nextSession
             d == [replays |-> StatefulReplay(lang), kept |-> <<>>, last |-> <<>>]
  <2>1. /\ debugSessions' = [i \in DOMAIN debugSessions \cup {n} |-> IF i = n THEN d ELSE debugSessions[i]]
        /\ nextSession' = n + 1 /\ UNCHANGED sending /\ n \notin DOMAIN debugSessions
    BY <1>2, <1>0 DEF StartSession
  <2>2. d \in SessionType /\ d.kept = <<>>
    BY DEF SessionType, StatefulReplay
  <2> HIDE DEF d
  <2>3. /\ DOMAIN debugSessions' = DOMAIN debugSessions \cup {n} /\ debugSessions'[n] = d
        /\ \A i \in DOMAIN debugSessions : debugSessions'[i] = debugSessions[i]
        /\ debugSessions' \in [DOMAIN debugSessions' -> SessionType]
    BY <2>1, <2>2, <1>0
  <2>4. DebugTypes'
    BY <2>1, <2>3, <1>0 DEF DebugTypes
  <2>5. \A id : Answered(id)' = Answered(id)
    BY <2>1 DEF Answered
  <2>6. Answered(n) = {}
    BY <1>0, <1>1 DEF Answered, SendStands
  <2>7. ASSUME NEW id \in DOMAIN debugSessions' PROVE SessionStands(id)'
    <3>1. CASE id = n
      BY <3>1, <2>2, <2>3, <2>5, <2>6 DEF SessionStands, ToSet, IsInjective
    <3>2. CASE id # n
      BY <3>2, <2>3, <2>5, <2>7, <1>1 DEF SessionStands
    <3> QED BY <3>1, <3>2
  <2>8. ASSUME NEW s \in Sends PROVE SendStands(s, sending[s])'
    <3> DEFINE c == sending[s]
    <3>1. SendStands(s, c) /\ c' = c /\ c \in SendType
      BY <2>1, <1>1, <1>0
    <3>2. c.alive => c.id # n /\ (There(c.id)' <=> There(c.id)) /\ c.id \in 1..nextSession
      BY <3>1, <2>3, <1>0 DEF SendStands, There
    <3>3. c.alive /\ There(c.id) => debugSessions'[c.id] = debugSessions[c.id]
      BY <2>3 DEF There
    <3>4. c.at \in {"replay", "running", "unknown"} => c.at = "unknown" \/ c.alive
      BY <3>1 DEF SendStands
    <3> HIDE DEF c
    <3>5. SendStands(s, c)'
      BY <3>1, <3>2, <3>3, <3>4, <2>1, <2>5, <1>0 DEF SendStands, SendType, There
    <3> QED BY <3>5 DEF c
  <2> QED BY <2>4, <2>7, <2>8 DEF DebugInv, DebugStands
<1>3. ASSUME NEW id \in DOMAIN debugSessions, StopSession(id) PROVE DebugInv'
  <2>1. /\ DOMAIN debugSessions' = DOMAIN debugSessions \ {id} /\ UNCHANGED <<nextSession, sending>>
        /\ \A i \in DOMAIN debugSessions' : debugSessions'[i] = debugSessions[i]
        /\ debugSessions' \in [DOMAIN debugSessions' -> SessionType]
    BY <1>3, <1>0 DEF StopSession
  <2>2. DebugTypes'
    BY <2>1, <1>0 DEF DebugTypes
  <2>3. \A i : Answered(i)' = Answered(i)
    BY <2>1 DEF Answered
  <2>4. ASSUME NEW i \in DOMAIN debugSessions' PROVE SessionStands(i)'
    BY <2>1, <2>3, <2>4, <1>1 DEF SessionStands
  <2>5. ASSUME NEW s \in Sends PROVE SendStands(s, sending[s])'
    BY <2>1, <2>3, <1>1 DEF SendStands, There
  <2> QED BY <2>2, <2>4, <2>5 DEF DebugInv, DebugStands
<1>4. ASSUME NEW s \in Sends, TakeLanguage(s) PROVE DebugInv'
  <2>1. PICK id \in 1..MaxDebugSessions :
          sending' = [sending EXCEPT ![s] = [NotSent EXCEPT !.id = id, !.owes = Answered(id), !.alive = There(id),
                                               !.at = IF There(id) THEN "language" ELSE "unknown"]]
    BY <1>4 DEF TakeLanguage
  <2> DEFINE r == [NotSent EXCEPT !.id = id, !.owes = Answered(id), !.alive = There(id),
                                  !.at = IF There(id) THEN "language" ELSE "unknown"]
  <2>2. /\ r \in SendType /\ r.id = id /\ r.owes = Answered(id) /\ r.alive = There(id) /\ r.replay = FALSE
        /\ r.runs = <<>> /\ r.at = IF There(id) THEN "language" ELSE "unknown"
    <3>1. id \in Nat /\ Answered(id) \in SUBSET Sends /\ There(id) \in BOOLEAN
      BY DEF Answered, There
    <3> QED BY <3>1, NotSentType DEF SendType
  <2>3. sending' = [sending EXCEPT ![s] = r] /\ sending[s].at # "ok" /\ UNCHANGED <<debugSessions, nextSession>>
    BY <2>1, <1>4 DEF TakeLanguage
  <2> HIDE DEF r
  <2>4. SendStands(s, r)
    BY <2>2, <1>0 DEF SendStands, There
  <2> QED BY <2>2, <2>3, <2>4, SendGoes
<1>5. ASSUME NEW s \in Sends, AskReplay(s) PROVE DebugInv'
  <2> DEFINE c == sending[s]
             a == There(c.id) /\ debugSessions[c.id].replays
             r == [c EXCEPT !.at = "replay", !.replay = a]
  <2>0. c \in SendType /\ a \in BOOLEAN /\ c.at = "language" /\ SendStands(s, c)
    BY <1>0, <1>1, <1>5 DEF AskReplay, There, SessionType
  <2>1. sending' = [sending EXCEPT ![s] = r] /\ UNCHANGED <<debugSessions, nextSession>>
    BY <1>5, <1>0 DEF AskReplay
  <2>2. a => debugSessions[c.id].replays
    OBVIOUS
  <2> HIDE DEF a, c
  <2>3. /\ r \in SendType /\ r.at = "replay" /\ r.replay = a /\ r.id = c.id /\ r.runs = c.runs /\ r.owes = c.owes
        /\ r.alive = c.alive
    BY <2>0 DEF SendType
  <2> HIDE DEF r
  <2>4. SendStands(s, r)
    BY <2>0, <2>2, <2>3 DEF SendStands
  <2>5. sending[s].at # "ok"
    BY <2>0 DEF c
  <2> QED BY <2>1, <2>3, <2>4, <2>5, SendGoes
<1>6. ASSUME NEW s \in Sends, TakeHistory(s) PROVE DebugInv'
  <2> DEFINE c == sending[s]
             id == c.id
             k == debugSessions[id].kept
  <2>0. c \in SendType /\ c.at = "replay" /\ SendStands(s, c) /\ UNCHANGED <<debugSessions, nextSession>>
    BY <1>0, <1>1, <1>6 DEF TakeHistory
  <2>1. CASE ~c.replay
    <3> DEFINE r == [c EXCEPT !.at = "running", !.runs = <<s>>]
    <3>1. sending' = [sending EXCEPT ![s] = r]
      BY <1>6, <1>0, <2>1 DEF TakeHistory
    <3>2. <<s>> \in Seq(Sends) /\ <<s>> # <<>> /\ Last(<<s>>) = s /\ Len(<<s>>) = 1
      BY DEF Last
    <3>3. sending[s].at # "ok"
      BY <2>0
    <3> HIDE DEF c
    <3>4. /\ r \in SendType /\ r.at = "running" /\ r.replay = c.replay /\ r.id = c.id /\ r.runs = <<s>> /\ r.owes = c.owes
          /\ r.alive = c.alive
      BY <2>0, <3>2 DEF SendType
    <3> HIDE DEF r
    <3>5. SendStands(s, r)
      BY <2>0, <2>1, <3>2, <3>4 DEF SendStands
    <3> QED BY <2>0, <3>1, <3>3, <3>4, <3>5, SendGoes
  <2>2. CASE c.replay /\ There(id)
    <3> DEFINE r == [c EXCEPT !.at = "running", !.runs = Append(k, s)]
    <3>1. sending' = [sending EXCEPT ![s] = r]
      BY <1>6, <1>0, <2>2 DEF TakeHistory
    <3>2. k \in Seq(Sends) /\ ToSet(k) = Answered(id) /\ sending[s].at # "ok"
      BY <2>0, <2>2, <1>0, <1>1 DEF There, SessionType, SessionStands
    <3> HIDE DEF k
    <3>3. /\ Append(k, s) \in Seq(Sends) /\ Append(k, s) # <<>> /\ Last(Append(k, s)) = s
          /\ Answered(id) \subseteq ToSet(Append(k, s))
      BY <3>2, Added
    <3> HIDE DEF c
    <3>4. /\ r \in SendType /\ r.at = "running" /\ r.replay = c.replay /\ r.id = id /\ r.runs = Append(k, s)
          /\ r.owes = c.owes /\ r.alive = c.alive
      BY <2>0, <3>3 DEF SendType
    <3> HIDE DEF r
    <3>5. SendStands(s, r)
      BY <2>0, <2>2, <3>3, <3>4 DEF SendStands
    <3> QED BY <2>0, <3>1, <3>2, <3>4, <3>5, SendGoes
  <2>3. CASE c.replay /\ ~There(id)
    <3> DEFINE r == [c EXCEPT !.at = "unknown"]
    <3>1. sending' = [sending EXCEPT ![s] = r] /\ sending[s].at # "ok"
      BY <1>6, <1>0, <2>0, <2>3 DEF TakeHistory, To
    <3> HIDE DEF c
    <3>2. /\ r \in SendType /\ r.at = "unknown" /\ r.replay = c.replay /\ r.id = id /\ r.runs = c.runs
          /\ r.owes = c.owes /\ r.alive = c.alive
      BY <2>0 DEF SendType
    <3> HIDE DEF r
    <3>3. SendStands(s, r)
      BY <2>0, <2>3, <3>2 DEF SendStands
    <3> QED BY <2>0, <3>1, <3>2, <3>3, SendGoes
  <2> QED BY <2>1, <2>2, <2>3
<1>7. ASSUME NEW s \in Sends, RunFails(s) PROVE DebugInv'
  <2> DEFINE c == sending[s]
             r == [c EXCEPT !.at = "error"]
  <2>0. c \in SendType /\ c.at = "running" /\ SendStands(s, c) /\ UNCHANGED <<debugSessions, nextSession>>
    BY <1>0, <1>1, <1>7 DEF RunFails
  <2>1. sending' = [sending EXCEPT ![s] = r] /\ sending[s].at # "ok"
    BY <1>7, <1>0, <2>0 DEF RunFails, To
  <2> HIDE DEF c
  <2>2. /\ r \in SendType /\ r.at = "error" /\ r.replay = c.replay /\ r.id = c.id /\ r.runs = c.runs
        /\ r.owes = c.owes /\ r.alive = c.alive
    BY <2>0 DEF SendType
  <2> HIDE DEF r
  <2>3. SendStands(s, r)
    BY <2>0, <2>2 DEF SendStands
  <2> QED BY <2>0, <2>1, <2>2, <2>3, SendGoes
<1>8. ASSUME NEW s \in Sends, Remember(s), ~There(sending[s].id) PROVE DebugInv'
  <2> DEFINE c == sending[s]
             r == [c EXCEPT !.at = "unknown"]
  <2>0. c \in SendType /\ c.at = "running" /\ SendStands(s, c) /\ UNCHANGED <<debugSessions, nextSession>> /\ ~There(c.id)
    BY <1>0, <1>1, <1>8 DEF Remember
  <2>1. sending' = [sending EXCEPT ![s] = r] /\ sending[s].at # "ok"
    BY <1>8, <1>0, <2>0 DEF Remember, To
  <2> HIDE DEF c
  <2>2. /\ r \in SendType /\ r.at = "unknown" /\ r.replay = c.replay /\ r.id = c.id /\ r.runs = c.runs
        /\ r.owes = c.owes /\ r.alive = c.alive
    BY <2>0 DEF SendType
  <2> HIDE DEF r
  <2>3. SendStands(s, r)
    BY <2>0, <2>2 DEF SendStands
  <2> QED BY <2>0, <2>1, <2>2, <2>3, SendGoes
<1>9. ASSUME NEW s \in Sends, Remember(s), There(sending[s].id) PROVE DebugInv'
  <2> DEFINE c == sending[s]
             id == c.id
             k == debugSessions[id].kept
             d == [debugSessions[id] EXCEPT !.kept = Append(k, s), !.last = c.runs]
             r == [c EXCEPT !.at = "ok"]
  <2>0. /\ c \in SendType /\ c.at = "running" /\ SendStands(s, c) /\ UNCHANGED nextSession /\ id \in DOMAIN debugSessions
        /\ debugSessions[id] \in SessionType /\ k \in Seq(Sends)
    BY <1>0, <1>1, <1>9 DEF Remember, There, SessionType
  <2>1. sending' = [sending EXCEPT ![s] = r] /\ debugSessions' = [debugSessions EXCEPT ![id] = d]
    BY <1>9, <1>0, <2>0 DEF Remember, To, Kept
  <2>2. ToSet(k) = Answered(id) /\ IsInjective(k) /\ s \notin Answered(id)
    BY <2>0, <1>1 DEF SessionStands, Answered
  <2>3. /\ Append(k, s) \in Seq(Sends) /\ Append(k, s) # <<>> /\ Last(Append(k, s)) = s
        /\ ToSet(Append(k, s)) = Answered(id) \cup {s} /\ IsInjective(Append(k, s))
    BY <2>0, <2>2, Added
  <2>4. /\ d \in SessionType /\ d.kept = Append(k, s) /\ d.last = c.runs /\ d.replays = debugSessions[id].replays
    <3> HIDE DEF k, c
    <3>1. c.runs \in Seq(Sends)
      BY <2>0 DEF SendType
    <3> QED BY <3>1, <2>0, <2>3 DEF SessionType
  <2>5. /\ r \in SendType /\ r.at = "ok" /\ r.replay = c.replay /\ r.id = id /\ r.runs = c.runs
        /\ r.owes = c.owes /\ r.alive = c.alive
    <3> HIDE DEF c
    <3> QED BY <2>0 DEF SendType
  <2> HIDE DEF k, d, r
  <2>6. /\ sending' \in [Sends -> SendType] /\ sending'[s] = r /\ \A t \in Sends \ {s} : sending'[t] = sending[t]
        /\ DOMAIN debugSessions' = DOMAIN debugSessions /\ debugSessions'[id] = d
        /\ \A i \in DOMAIN debugSessions \ {id} : debugSessions'[i] = debugSessions[i]
        /\ debugSessions' \in [DOMAIN debugSessions' -> SessionType]
    BY <2>0, <2>1, <2>4, <2>5, <1>0
  <2>7. DebugTypes'
    BY <2>0, <2>6, <1>0 DEF DebugTypes
  <2>8. \A i : Answered(i)' = IF i = id THEN Answered(i) \cup {s} ELSE Answered(i)
    BY <2>0, <2>5, <2>6 DEF Answered
  <2>9. ASSUME NEW i \in DOMAIN debugSessions' PROVE SessionStands(i)'
    <3>1. CASE i = id
      <4>1. Last(c.runs) = s /\ (d.replays \/ Len(c.runs) = 1)
        BY <2>0, <2>4 DEF SendStands, There
      <4>2. debugSessions'[i] = d /\ Answered(i)' = Answered(id) \cup {s}
        BY <3>1, <2>6, <2>8
      <4> QED BY <4>1, <4>2, <2>3, <2>4 DEF SessionStands
    <3>2. CASE i # id
      BY <3>2, <2>6, <2>8, <2>9, <1>1 DEF SessionStands
    <3> QED BY <3>1, <3>2
  <2>10. ASSUME NEW t \in Sends PROVE SendStands(t, sending[t])'
    <3>1. SendStands(t, sending'[t])
      <4>1. CASE t = s
        BY <4>1, <2>0, <2>5, <2>6 DEF SendStands
      <4>2. CASE t # s
        BY <4>2, <2>6, <1>1
      <4> QED BY <4>1, <4>2
    <3>2. \A i : Answered(i) \subseteq Answered(i)'
      BY <2>8
    <3>3. \A i \in DOMAIN debugSessions : debugSessions'[i].replays = debugSessions[i].replays
      BY <2>4, <2>6
    <3> QED BY <3>1, <3>2, <3>3, <2>0, <2>6 DEF SendStands, There
  <2> QED BY <2>7, <2>9, <2>10 DEF DebugInv, DebugStands
<1>10. CASE UNCHANGED debugVars
  <2>1. UNCHANGED <<debugSessions, nextSession, sending>>
    BY <1>10 DEF debugVars
  <2>2. \A i : Answered(i)' = Answered(i)
    BY <2>1 DEF Answered
  <2>3. DebugTypes'
    BY <2>1, <1>0 DEF DebugTypes
  <2>4. \A i \in DOMAIN debugSessions' : SessionStands(i)'
    BY <2>1, <2>2, <1>1 DEF SessionStands
  <2>5. \A s \in Sends : SendStands(s, sending[s])'
    BY <2>1, <2>2, <1>1 DEF SendStands, There
  <2> QED BY <2>3, <2>4, <2>5 DEF DebugInv, DebugStands
<1> QED BY <1>2, <1>3, <1>4, <1>5, <1>6, <1>7, <1>8, <1>9, <1>10 DEF DebugNext

-----------------------------------------------------------------------------
\* The listed backends: three ways to a command, none of which is empty.
InterpreterNames ==
  {"python", "node", "javascript", "ruby", "php", "lua", "julia", "r", "elixir", "haskell", "ghci"}

LEMMA InterpretersNamed == DOMAIN Interpreters = InterpreterNames
BY DEF Interpreters, InterpreterNames

LEMMA InterpretersHaveWords == ASSUME NEW l \in InterpreterNames PROVE \E u, v : Interpreters[l] = <<u, v>>
<1>1. CASE l = "python"
  <2>1. Interpreters[l] = <<"python", "-c">>
    BY <1>1 DEF Interpreters
  <2> QED BY <2>1
<1>2. CASE l = "node"
  <2>1. Interpreters[l] = <<"node", "-e">>
    BY <1>2 DEF Interpreters
  <2> QED BY <2>1
<1>3. CASE l = "javascript"
  <2>1. Interpreters[l] = <<"node", "-e">>
    BY <1>3 DEF Interpreters
  <2> QED BY <2>1
<1>4. CASE l = "ruby"
  <2>1. Interpreters[l] = <<"ruby", "-e">>
    BY <1>4 DEF Interpreters
  <2> QED BY <2>1
<1>5. CASE l = "php"
  <2>1. Interpreters[l] = <<"php", "-r">>
    BY <1>5 DEF Interpreters
  <2> QED BY <2>1
<1>6. CASE l = "lua"
  <2>1. Interpreters[l] = <<"lua", "-e">>
    BY <1>6 DEF Interpreters
  <2> QED BY <2>1
<1>7. CASE l = "julia"
  <2>1. Interpreters[l] = <<"julia", "-e">>
    BY <1>7 DEF Interpreters
  <2> QED BY <2>1
<1>8. CASE l = "r"
  <2>1. Interpreters[l] = <<"Rscript", "-e">>
    BY <1>8 DEF Interpreters
  <2> QED BY <2>1
<1>9. CASE l = "elixir"
  <2>1. Interpreters[l] = <<"elixir", "-e">>
    BY <1>9 DEF Interpreters
  <2> QED BY <2>1
<1>10. CASE l = "haskell"
  <2>1. Interpreters[l] = <<"ghci", "-e">>
    BY <1>10 DEF Interpreters
  <2> QED BY <2>1
<1>11. CASE l = "ghci"
  <2>1. Interpreters[l] = <<"ghci", "-e">>
    BY <1>11 DEF Interpreters
  <2> QED BY <2>1
<1> QED BY <1>1, <1>2, <1>3, <1>4, <1>5, <1>6, <1>7, <1>8, <1>9, <1>10, <1>11 DEF InterpreterNames

LEMMA WordsAdd ==
  ASSUME NEW W, NEW s \in Seq(W), NEW x \in Seq(W), x # <<>>
  PROVE  s \o x # <<>> /\ s \o x \in Seq(W)
<1>1. Len(s \o x) = Len(s) + Len(x) /\ Len(s) \in Nat /\ Len(x) \in Nat /\ Len(x) # 0 /\ s \o x \in Seq(W)
  OBVIOUS
<1> QED BY <1>1

LEMMA ThreeWords == ASSUME NEW u, NEW v, NEW x PROVE <<u, v>> \o <<x>> # <<>>
<1> DEFINE W == {u, v, x}
<1>1. u \in W /\ v \in W /\ x \in W
  OBVIOUS
<1> HIDE DEF W
<1>2. <<u, v>> \in Seq(W) /\ <<x>> \in Seq(W) /\ <<x>> # <<>>
  BY <1>1
<1> QED BY <1>2, WordsAdd

LEMMA SevenWords == ASSUME NEW u, NEW v, NEW w, NEW x, NEW y, NEW z, NEW t PROVE <<u, v, w, x>> \o <<t>> \o <<y, z>> # <<>>
<1> DEFINE W == {u, v, w, x, y, z, t}
<1>1. u \in W /\ v \in W /\ w \in W /\ x \in W /\ y \in W /\ z \in W /\ t \in W
  OBVIOUS
<1> HIDE DEF W
<1>2. <<u, v, w, x>> \in Seq(W) /\ <<t>> \in Seq(W) /\ <<t>> # <<>>
  BY <1>1
<1>3. <<y, z>> \in Seq(W) /\ <<y, z>> # <<>>
  BY <1>1
<1>4. <<u, v, w, x>> \o <<t>> \in Seq(W)
  BY <1>2, WordsAdd
<1> QED BY <1>3, <1>4, WordsAdd

LEMMA BackendsAgreeAlways == BackendsAgree
<1>1. SomeTarget # NoTarget /\ SomeTarget.path = FALSE
  BY DebugAssumption DEF SomeTarget
<1>3. <<"x">> # <<>>
  OBVIOUS
<1>4. ASSUME NEW l, l \in InterpreterNames \cup ByScriptFile \cup Debuggers, NEW b \in Backends, b[1] = l
      PROVE  CommandFor(l, <<"x">>, SomeTarget, FALSE) # <<>>
  <2> DEFINE x == <<"x">>
  <2>1. TargetAllowed(SomeTarget) /\ x # <<>>
    BY <1>1, <1>3 DEF TargetAllowed
  <2>2. \E c \in Backends : c[1] = l
    BY <1>4
  <2> HIDE DEF x
  <2>3. CASE l \in InterpreterNames
    <3>1. l \notin Debuggers /\ l \notin ByScriptFile /\ l # "gdb" /\ l # "lldb" /\ l # "jdb" /\ l # "dlv"
      BY <2>3 DEF InterpreterNames, Debuggers, ByScriptFile
    <3>2. CommandFor(l, x, SomeTarget, FALSE) = Interpreters[l] \o x
      BY <2>1, <2>2, <2>3, <3>1, InterpretersNamed DEF CommandFor
    <3> QED BY <3>2, <2>3, InterpretersHaveWords, ThreeWords DEF x
  <2>4. CASE l \in ByScriptFile
    <3>1. l \notin Debuggers /\ l \notin InterpreterNames /\ l # "gdb" /\ l # "lldb" /\ l # "jdb" /\ l # "dlv"
      BY <2>4 DEF InterpreterNames, Debuggers, ByScriptFile
    <3>2. CommandFor(l, x, SomeTarget, FALSE) = <<"jshell", "script">>
      BY <2>1, <2>2, <2>4, <3>1, InterpretersNamed DEF CommandFor
    <3>3. <<"jshell", "script">> # <<>>
      OBVIOUS
    <3> QED BY <3>2, <3>3 DEF x
  <2>5. CASE l = "gdb"
    <3>1. l \in Debuggers /\ l \notin InterpreterNames /\ l \notin ByScriptFile
      BY <2>5 DEF InterpreterNames, Debuggers, ByScriptFile
    <3>2. CommandFor(l, x, SomeTarget, FALSE) = <<"gdb", "-q", "-batch", "-ex">> \o x \o <<"--args", SomeTarget.name>>
      BY <1>1, <2>1, <2>2, <2>5, <3>1, InterpretersNamed DEF CommandFor
    <3> QED BY <3>2, SevenWords DEF x
  <2>6. CASE l = "lldb"
    <3>1. l \in Debuggers /\ l \notin InterpreterNames /\ l \notin ByScriptFile
      BY <2>6 DEF InterpreterNames, Debuggers, ByScriptFile
    <3>2. CommandFor(l, x, SomeTarget, FALSE) = <<"lldb", "-b", "-Q", "-o">> \o x \o <<"--", SomeTarget.name>>
      BY <1>1, <2>1, <2>2, <2>6, <3>1, InterpretersNamed DEF CommandFor
    <3> QED BY <3>2, SevenWords DEF x
  <2>7. CASE l = "jdb"
    <3>1. l \in Debuggers /\ l \notin InterpreterNames /\ l \notin ByScriptFile
      BY <2>7 DEF InterpreterNames, Debuggers, ByScriptFile
    <3>2. CommandFor(l, x, SomeTarget, FALSE) = <<"jdb", "-sourcepath", ".", SomeTarget.name>>
      BY <1>1, <2>1, <2>2, <2>7, <3>1, InterpretersNamed DEF CommandFor
    <3>3. <<"jdb", "-sourcepath", ".", SomeTarget.name>> # <<>>
      OBVIOUS
    <3> QED BY <3>2, <3>3 DEF x
  <2>8. CASE l = "dlv"
    <3>1. l \in Debuggers /\ l \notin InterpreterNames /\ l \notin ByScriptFile
      BY <2>8 DEF InterpreterNames, Debuggers, ByScriptFile
    <3>2. CommandFor(l, x, SomeTarget, FALSE) = <<"dlv", "exec", SomeTarget.name, "--">>
      BY <1>1, <2>1, <2>2, <2>8, <3>1, InterpretersNamed DEF CommandFor
    <3>3. <<"dlv", "exec", SomeTarget.name, "--">> # <<>>
      OBVIOUS
    <3> QED BY <3>2, <3>3 DEF x
  <2> QED BY <1>4, <2>3, <2>4, <2>5, <2>6, <2>7, <2>8 DEF Debuggers, x
<1>5. ASSUME NEW b \in Backends
      PROVE  /\ StatefulReplay(b[1]) <=> ~b[3]
             /\ CommandFor(b[1], <<"x">>, SomeTarget, FALSE) # <<>>
  <2>1. CASE \E l \in InterpreterNames \cup ByScriptFile : b = <<l, FALSE, FALSE>>
    <3>1. PICK l \in InterpreterNames \cup ByScriptFile : b = <<l, FALSE, FALSE>>
      BY <2>1
    <3>2. b[1] = l /\ b[3] = FALSE
      BY <3>1
    <3>3. StatefulReplay(l)
      BY DEF StatefulReplay, InterpreterNames, ByScriptFile
    <3> QED BY <3>2, <3>3, <1>4
  <2>2. CASE \E l \in Debuggers : b = <<l, TRUE, TRUE>>
    <3>1. PICK l \in Debuggers : b = <<l, TRUE, TRUE>>
      BY <2>2
    <3>2. b[1] = l /\ b[3] = TRUE
      BY <3>1
    <3>3. ~StatefulReplay(l)
      BY DEF StatefulReplay, Debuggers
    <3> QED BY <3>2, <3>3, <1>4
  <2> QED BY <2>1, <2>2, InterpretersNamed DEF Backends
<1> QED BY <1>5 DEF BackendsAgree, SomeTarget

LEMMA DebugHolds == DebugInv => DebugKeeps
<1> SUFFICES ASSUME DebugInv PROVE DebugKeeps
  OBVIOUS
<1>1. EarlierSnippetsRun
  BY DEF DebugInv, DebugStands, SendStands, EarlierSnippetsRun
<1>2. KeptOnce
  BY DEF DebugInv, DebugStands, SessionStands, KeptOnce
<1>3. UnknownWasStopped
  BY DEF DebugInv, DebugStands, SendStands, UnknownWasStopped
<1> QED BY <1>1, <1>2, <1>3, BackendsAgreeAlways DEF DebugKeeps

\* What debugging keeps, for any number of sends and sessions (debug.rs:28-370): a send of a
\* session that replays runs every snippet that had been answered when it was sent, each is
\* kept once, and only a session that is gone is unknown.
THEOREM DebugSafe == DebugSpec => []DebugKeeps
BY DebugInvInit, DebugInvNext, DebugHolds, PTL DEF DebugSpec

-----------------------------------------------------------------------------
(* Diagnostics                                                             *)

EntryType == [mode : Modes, mtime : Nat, syn : Int, sem : Int, overtaken : BOOLEAN]
Caches == UNION {[ns -> EntryType] : ns \in SUBSET Names}
DiagRunType ==
  [at : {"rest", "check all", "next", "read", "check", "saving", "done"}, mode : Modes, cache : Caches,
   table : [Names -> Nat] \cup {Nothing}, left : SUBSET Names, name : Names \cup {Nothing}, mtime : Nat, syn : Int]
DiagTypes ==
  /\ version \in [Names -> Nat] /\ editedSince \in [Diagnosers -> SUBSET Names]
  /\ diagnosing \in [Diagnosers -> DiagRunType] /\ diagCache \in [torn : BOOLEAN, entries : Caches]

\* What was found for a file is of the version whose time it has or of a later one, and of
\* that very version unless the file was edited meanwhile, but for the parser's lost word.
EntryStands(e) ==
  /\ e.mode # "semantic" => e.syn >= e.mtime \/ Unparsed(e)
  /\ Semantic(e.mode) /\ ~e.overtaken => e.sem = e.mtime /\ (e.mode = "both" => e.syn = e.mtime \/ Unparsed(e))
LostOnlyOfRust(e, n) == Unparsed(e) => FileOf(n).ext = "rs"
CacheStands(c) == \A n \in DOMAIN c : Semantic(c[n].mode) /\ EntryStands(c[n]) /\ LostOnlyOfRust(c[n], n)
\* So it will be of what a run, d, has read of the file it is at, and of what cargo told it.
RunStands(r, d) ==
  /\ CacheStands(d.cache)
  /\ d.table # Nothing => Semantic(d.mode) /\ \A n \in Names \ editedSince[r] : d.table[n] = version[n]
  /\ d.at \in {"read", "check"} => /\ d.name \in Names /\ d.mtime <= version[d.name]
                                   /\ d.name \notin editedSince[r] => d.mtime = version[d.name]
  /\ d.at \in {"check all", "check"} => Semantic(d.mode)
  /\ d.at = "check" /\ d.mode = "both" => /\ d.syn >= d.mtime
                                          /\ d.name \notin editedSince[r] => d.syn = version[d.name]
GivenStands ==
  given # Nothing => /\ given.entry \in EntryType /\ EntryStands(given.entry)
                     /\ given.entry.mode = given.asked /\ given.stat = given.entry.mtime
DiagInv ==
  /\ DiagTypes /\ GivenStands /\ CacheStands(diagCache.entries)
  /\ \A r \in Diagnosers : RunStands(r, diagnosing[r])

LEMMA IdleType == /\ Idle \in DiagRunType /\ Idle.at = "rest" /\ Idle.cache = NoEntries /\ Idle.table = Nothing
                  /\ NoEntries \in Caches /\ CacheStands(NoEntries)
                  /\ Done \in DiagRunType /\ Done.at = "done" /\ Done.cache = NoEntries /\ Done.table = Nothing
<1>1. NoEntries \in [{} -> EntryType] /\ DOMAIN NoEntries = {}
  BY DEF NoEntries
<1>2. NoEntries \in Caches /\ CacheStands(NoEntries)
  BY <1>1 DEF Caches, CacheStands
<1>3. Idle \in DiagRunType /\ Idle.at = "rest" /\ Idle.cache = NoEntries /\ Idle.table = Nothing
  BY <1>2 DEF Idle, DiagRunType, Modes
<1>4. Done \in DiagRunType /\ Done.at = "done" /\ Done.cache = NoEntries /\ Done.table = Nothing
  BY <1>3 DEF Done, DiagRunType
<1> QED BY <1>2, <1>3, <1>4

LEMMA DiagInvInit == DiagInit => DiagInv
<1> SUFFICES ASSUME DiagInit PROVE DiagInv
  OBVIOUS
<1>1. DiagTypes /\ diagCache.entries = NoEntries /\ given = Nothing /\ \A r \in Diagnosers : diagnosing[r] = Idle
  BY IdleType DEF DiagInit, DiagTypes
<1>2. ASSUME NEW r \in Diagnosers PROVE RunStands(r, diagnosing[r])
  BY <1>1, IdleType DEF RunStands
<1> QED BY <1>1, <1>2, IdleType DEF DiagInv, GivenStands

\* A step of one run, which becomes d.
LEMMA RunGoes ==
  ASSUME DiagInv, NEW r \in Diagnosers, NEW d \in DiagRunType, RunStands(r, d),
         diagnosing' = [diagnosing EXCEPT ![r] = d], UNCHANGED <<version, editedSince>>,
         diagCache' \in [torn : BOOLEAN, entries : Caches], CacheStands(diagCache'.entries), GivenStands'
  PROVE  DiagInv'
<1>1. diagnosing' \in [Diagnosers -> DiagRunType] /\ diagnosing'[r] = d /\ \A q \in Diagnosers \ {r} : diagnosing'[q] = diagnosing[q]
  BY DEF DiagInv, DiagTypes
<1>2. DiagTypes'
  BY <1>1 DEF DiagInv, DiagTypes
<1>3. ASSUME NEW q \in Diagnosers PROVE RunStands(q, diagnosing[q])'
  <2>1. RunStands(q, diagnosing'[q])
    BY <1>1 DEF DiagInv
  <2> QED BY <2>1 DEF RunStands
<1> QED BY <1>2, <1>3 DEF DiagInv

LEMMA CachesGive == ASSUME NEW c \in Caches PROVE DOMAIN c \subseteq Names /\ \A n \in DOMAIN c : c[n] \in EntryType
BY DEF Caches
LEMMA CachesTake ==
  ASSUME NEW ns, ns \subseteq Names, NEW c, c \in [ns -> EntryType] PROVE c \in Caches
BY DEF Caches

LEMMA AnswerGiven ==
  ASSUME DiagInv, NEW r \in Diagnosers, NEW n \in Names, NEW e \in EntryType, EntryStands(e), LostOnlyOfRust(e, n),
         e.mode = diagnosing[r].mode, Gives(r, n, e), UNCHANGED <<version, diagCache, editedSince>>
  PROVE  DiagInv'
<1> DEFINE d == diagnosing[r]
           c == IF Semantic(d.mode) THEN [m \in DOMAIN d.cache \cup {n} |-> IF m = n THEN e ELSE d.cache[m]] ELSE d.cache
           g == [d EXCEPT !.at = "next", !.left = d.left \ {n}, !.name = Nothing, !.cache = c]
<1>1. d \in DiagRunType /\ RunStands(r, d) /\ d.cache \in Caches
  BY DEF DiagInv, DiagTypes, DiagRunType
<1>2. diagnosing' = [diagnosing EXCEPT ![r] = g]
  BY DEF Gives, DiagInv, DiagTypes
<1>3. c \in Caches /\ CacheStands(c)
  <2>1. CASE Semantic(d.mode)
    <3>1. c = [m \in DOMAIN d.cache \cup {n} |-> IF m = n THEN e ELSE d.cache[m]]
      BY <2>1
    <3> HIDE DEF c
    <3>2. DOMAIN c = DOMAIN d.cache \cup {n} /\ \A m \in DOMAIN c : c[m] = IF m = n THEN e ELSE d.cache[m]
      BY <3>1
    <3>3. \A m \in DOMAIN c : c[m] \in EntryType /\ Semantic(c[m].mode) /\ EntryStands(c[m]) /\ LostOnlyOfRust(c[m], m)
      BY <3>2, <2>1, <1>1, CachesGive DEF RunStands, CacheStands
    <3>4. DOMAIN c \subseteq Names /\ c \in [DOMAIN c -> EntryType]
      BY <3>1, <3>2, <3>3, <1>1, CachesGive
    <3> QED BY <3>3, <3>4, CachesTake DEF CacheStands
  <2>2. CASE ~Semantic(d.mode)
    BY <2>2, <1>1 DEF RunStands
  <2> QED BY <2>1, <2>2
<1>4. GivenStands'
  <2>1. given' = [asked |-> d.mode, stat |-> e.mtime, entry |-> e]
    BY DEF Gives
  <2> HIDE DEF d
  <2>2. given'.entry = e /\ given'.asked = d.mode /\ given'.stat = e.mtime /\ e.mode = d.mode
    BY <2>1 DEF d
  <2> QED BY <2>2 DEF GivenStands
<1>5. diagCache' \in [torn : BOOLEAN, entries : Caches] /\ CacheStands(diagCache'.entries)
  BY DEF DiagInv, DiagTypes
<1> HIDE DEF c, d
<1>6. g \in DiagRunType /\ g.at = "next" /\ g.cache = c /\ g.table = d.table /\ g.mode = d.mode
  BY <1>1, <1>3 DEF DiagRunType
<1> HIDE DEF g
<1>7. RunStands(r, g)
  BY <1>1, <1>3, <1>6 DEF RunStands
<1> QED BY <1>2, <1>4, <1>5, <1>6, <1>7, RunGoes

\* What is found for a file now.
LEMMA FoundStands ==
  ASSUME NEW d, d.mode \in Modes, d.mtime \in Nat, NEW r, NEW n, NEW syn \in Int, NEW sem \in Int,
         d.mode # "semantic" => syn >= d.mtime \/ (d.mode = "both" /\ syn = -1),
         Semantic(d.mode) /\ n \notin editedSince[r] => sem = d.mtime /\ (d.mode = "both" => syn = d.mtime \/ syn = -1)
  PROVE  /\ FoundFor(d, r, syn, sem, n) \in EntryType /\ EntryStands(FoundFor(d, r, syn, sem, n))
         /\ FoundFor(d, r, syn, sem, n).mode = d.mode
         /\ (d.mode = "both" => syn # -1) => LostOnlyOfRust(FoundFor(d, r, syn, sem, n), n)
         /\ FileOf(n).ext = "rs" => LostOnlyOfRust(FoundFor(d, r, syn, sem, n), n)
<1> DEFINE e == FoundFor(d, r, syn, sem, n)
<1>1. /\ e.mode = d.mode /\ e.mtime = d.mtime /\ e.syn = syn /\ e.sem = sem /\ e.overtaken = (n \in editedSince[r])
      /\ e \in EntryType
  BY DEF FoundFor, EntryType
<1> HIDE DEF e
<1>2. EntryStands(e)
  BY <1>1 DEF EntryStands, Unparsed
<1>3. /\ (d.mode = "both" => syn # -1) => LostOnlyOfRust(e, n)
      /\ FileOf(n).ext = "rs" => LostOnlyOfRust(e, n)
  BY <1>1 DEF LostOnlyOfRust, Unparsed
<1> QED BY <1>1, <1>2, <1>3 DEF e

LEMMA DiagInvNext == DiagInv /\ [DiagNext]_diagVars => DiagInv'
<1> SUFFICES ASSUME DiagInv, [DiagNext]_diagVars PROVE DiagInv'
  OBVIOUS
<1>0. /\ DiagTypes /\ version \in [Names -> Nat] /\ editedSince \in [Diagnosers -> SUBSET Names]
      /\ diagnosing \in [Diagnosers -> DiagRunType] /\ diagCache \in [torn : BOOLEAN, entries : Caches]
      /\ GivenStands /\ CacheStands(diagCache.entries)
  BY DEF DiagInv, DiagTypes
<1>1. \A r \in Diagnosers : RunStands(r, diagnosing[r])
  BY DEF DiagInv
<1>2. ASSUME NEW n \in Names, EditFile(n) PROVE DiagInv'
  <2>1. /\ UNCHANGED <<diagCache, diagnosing, given>> /\ editedSince' = [r \in Diagnosers |-> editedSince[r] \cup {n}]
        /\ version' = [version EXCEPT ![n] = @ + 1]
    BY <1>2 DEF EditFile
  <2>2. /\ version' \in [Names -> Nat] /\ \A m \in Names : version'[m] = IF m = n THEN version[m] + 1 ELSE version[m]
        /\ editedSince' \in [Diagnosers -> SUBSET Names] /\ \A r \in Diagnosers : editedSince'[r] = editedSince[r] \cup {n}
    BY <2>1, <1>0
  <2>3. DiagTypes' /\ GivenStands' /\ CacheStands(diagCache.entries)'
    BY <2>1, <2>2, <1>0 DEF DiagTypes, GivenStands
  <2>4. ASSUME NEW r \in Diagnosers PROVE RunStands(r, diagnosing[r])'
    <3> DEFINE d == diagnosing[r]
    <3>1. d' = d /\ RunStands(r, d) /\ d.mtime \in Nat /\ d.syn \in Int
      BY <2>1, <1>0, <1>1 DEF DiagRunType
    <3> HIDE DEF d
    <3>2. \A m \in Names : version[m] \in Nat
      BY <1>0
    <3>3. ASSUME d.table # Nothing, NEW m \in Names \ editedSince'[r] PROVE d.table[m] = version'[m]
      <4>1. m \in Names \ editedSince[r] /\ m # n
        BY <2>2, <3>3
      <4> QED BY <4>1, <2>2, <3>1, <3>3 DEF RunStands
    <3>4. ASSUME d.at \in {"read", "check"}
          PROVE  /\ d.name \in Names /\ d.mtime <= version'[d.name]
                 /\ d.name \notin editedSince'[r] => d.mtime = version'[d.name]
                 /\ d.name \notin editedSince'[r] => version'[d.name] = version[d.name] /\ d.name \notin editedSince[r]
      <4>1. /\ d.name \in Names /\ d.mtime <= version[d.name]
            /\ d.name \notin editedSince[r] => d.mtime = version[d.name]
        BY <3>1, <3>4 DEF RunStands
      <4>2. version[d.name] \in Nat /\ (version'[d.name] = version[d.name] \/ version'[d.name] = version[d.name] + 1)
        BY <4>1, <3>2, <2>2
      <4>3. d.name \notin editedSince'[r] => d.name # n /\ d.name \notin editedSince[r]
        BY <2>2
      <4>4. d.name # n => version'[d.name] = version[d.name]
        BY <4>1, <2>2
      <4>5. d.mtime <= version'[d.name]
        BY <4>1, <4>2, <3>1
      <4> QED BY <4>1, <4>3, <4>4, <4>5
    <3>5. RunStands(r, d)'
      BY <3>1, <3>3, <3>4 DEF RunStands
    <3> QED BY <3>5 DEF d
  <2> QED BY <2>3, <2>4 DEF DiagInv
<1>3. ASSUME NEW r \in Diagnosers, BeginDiagnosis(r) PROVE DiagInv'
  <2> DEFINE k == IF diagCache.torn THEN NoEntries ELSE diagCache.entries
  <2>1. k \in Caches /\ CacheStands(k)
    BY <1>0, IdleType
  <2> HIDE DEF k
  <2>2. PICK how \in Modes :
          diagnosing' = [diagnosing EXCEPT ![r] = [Idle EXCEPT !.mode = how, !.left = Names,
            !.cache = k, !.at = IF Semantic(how) THEN "check all" ELSE "next"]]
    BY <1>3 DEF BeginDiagnosis, k
  <2> DEFINE g == [Idle EXCEPT !.mode = how, !.left = Names, !.cache = k, !.at = IF Semantic(how) THEN "check all" ELSE "next"]
  <2>3. /\ diagnosing' = [diagnosing EXCEPT ![r] = g] /\ editedSince' = [editedSince EXCEPT ![r] = {}]
        /\ UNCHANGED <<version, diagCache, given>>
    BY <2>2, <1>3 DEF BeginDiagnosis
  <2>4. /\ g \in DiagRunType /\ g.at \in {"check all", "next"} /\ g.cache = k /\ g.table = Nothing
        /\ g.at = "check all" => Semantic(g.mode)
    BY <2>1, IdleType DEF DiagRunType
  <2> HIDE DEF g
  <2>5. /\ diagnosing' \in [Diagnosers -> DiagRunType] /\ diagnosing'[r] = g
        /\ \A q \in Diagnosers \ {r} : diagnosing'[q] = diagnosing[q] /\ editedSince'[q] = editedSince[q]
        /\ editedSince' \in [Diagnosers -> SUBSET Names]
    BY <2>3, <2>4, <1>0
  <2>6. DiagTypes' /\ GivenStands' /\ CacheStands(diagCache.entries)'
    BY <2>3, <2>5, <1>0 DEF DiagTypes, GivenStands
  <2>7. ASSUME NEW q \in Diagnosers PROVE RunStands(q, diagnosing[q])'
    <3>1. CASE q = r
      BY <3>1, <2>1, <2>4, <2>5 DEF RunStands
    <3>2. CASE q # r
      BY <3>2, <2>3, <2>5, <1>1 DEF RunStands
    <3> QED BY <3>1, <3>2
  <2> QED BY <2>6, <2>7 DEF DiagInv
<1>4. ASSUME NEW r \in Diagnosers, CheckAll(r) PROVE DiagInv'
  <2> DEFINE d == diagnosing[r]
  <2>0. d \in DiagRunType /\ RunStands(r, d) /\ UNCHANGED <<version, editedSince, diagCache, given>>
    BY <1>0, <1>1, <1>4 DEF CheckAll
  <2>1. PICK t \in {version, Nothing} : diagnosing' = [diagnosing EXCEPT ![r].at = "next", ![r].table = t]
    BY <1>4 DEF CheckAll
  <2> DEFINE g == [d EXCEPT !.at = "next", !.table = t]
  <2>2. diagnosing' = [diagnosing EXCEPT ![r] = g]
    BY <2>1, <1>0
  <2>3. d.at = "check all" /\ Semantic(d.mode)
    BY <2>0, <1>4 DEF CheckAll, RunStands
  <2>4. t \in [Names -> Nat] \cup {Nothing} /\ (t = version \/ t = Nothing)
    BY <1>0
  <2> HIDE DEF d
  <2>5. g \in DiagRunType /\ g.at = "next" /\ g.table = t /\ g.cache = d.cache /\ g.mode = d.mode
    BY <2>0, <2>4 DEF DiagRunType
  <2> HIDE DEF g
  <2>6. RunStands(r, g)
    BY <2>0, <2>3, <2>4, <2>5 DEF RunStands
  <2>7. /\ diagCache' \in [torn : BOOLEAN, entries : Caches] /\ CacheStands(diagCache'.entries) /\ GivenStands'
    BY <2>0, <1>0 DEF GivenStands
  <2> QED BY <2>0, <2>2, <2>5, <2>6, <2>7, RunGoes
<1>5. ASSUME NEW r \in Diagnosers, NextFile(r) PROVE DiagInv'
  <2> DEFINE d == diagnosing[r]
  <2>0. d \in DiagRunType /\ RunStands(r, d) /\ UNCHANGED <<version, editedSince, diagCache>> /\ d.left \subseteq Names
    BY <1>0, <1>1, <1>5 DEF NextFile, DiagRunType
  <2>1. PICK n \in d.left :
          IF Semantic(d.mode) /\ Hit(d, n) THEN Gives(r, n, d.cache[n])
          ELSE IF FileOf(n).ext = "rs" /\ d.table # Nothing
          THEN \E parses \in BOOLEAN :
                 Gives(r, n, FoundFor([d EXCEPT !.mtime = version[n]], r,
                                      IF d.mode = "both" /\ parses THEN version[n] ELSE -1, d.table[n], n))
          ELSE /\ diagnosing' = [diagnosing EXCEPT ![r].at = "read", ![r].name = n, ![r].mtime = version[n]]
               /\ UNCHANGED given
    BY <1>5 DEF NextFile
  <2>2. n \in Names /\ version[n] \in Nat
    BY <2>0, <1>0
  <2>3. CASE Semantic(d.mode) /\ Hit(d, n)
    <3>1. Gives(r, n, d.cache[n]) /\ n \in DOMAIN d.cache /\ d.cache[n].mode = d.mode
      BY <2>1, <2>3 DEF Hit
    <3>2. d.cache[n] \in EntryType /\ EntryStands(d.cache[n]) /\ LostOnlyOfRust(d.cache[n], n)
      BY <2>0, <3>1, CachesGive DEF DiagRunType, RunStands, CacheStands
    <3> QED BY <2>0, <2>2, <3>1, <3>2, AnswerGiven
  <2>4. CASE ~(Semantic(d.mode) /\ Hit(d, n)) /\ FileOf(n).ext = "rs" /\ d.table # Nothing
    <3>0. PICK parses \in BOOLEAN :
            Gives(r, n, FoundFor([d EXCEPT !.mtime = version[n]], r,
                                 IF d.mode = "both" /\ parses THEN version[n] ELSE -1, d.table[n], n))
      BY <2>1, <2>4
    <3> DEFINE e == [d EXCEPT !.mtime = version[n]]
               syn == IF d.mode = "both" /\ parses THEN version[n] ELSE -1
               sem == d.table[n]
    <3>1. Gives(r, n, FoundFor(e, r, syn, sem, n))
      BY <3>0
    <3>2. e.mtime = version[n] /\ e.mode = d.mode /\ d.mode \in Modes
      BY <2>0 DEF DiagRunType
    <3>3. /\ sem \in Int /\ syn \in Int /\ Semantic(d.mode)
          /\ n \notin editedSince[r] => sem = version[n]
      <4>1. d.table \in [Names -> Nat]
        BY <2>0, <2>4 DEF DiagRunType
      <4>2. sem \in Nat /\ syn \in Int
        BY <4>1, <2>2
      <4>3. Semantic(d.mode) /\ \A m \in Names \ editedSince[r] : d.table[m] = version[m]
        BY <2>0, <2>4 DEF RunStands
      <4> QED BY <4>2, <4>3, <2>2
    <3>4. d.mode # "semantic" => syn = version[n] \/ (d.mode = "both" /\ syn = -1)
      BY <3>3 DEF Semantic
    <3>5. d.mode = "both" => syn = version[n] \/ syn = -1
      OBVIOUS
    <3> HIDE DEF e, syn, sem
    <3>6. /\ FoundFor(e, r, syn, sem, n) \in EntryType /\ EntryStands(FoundFor(e, r, syn, sem, n))
          /\ FoundFor(e, r, syn, sem, n).mode = d.mode /\ LostOnlyOfRust(FoundFor(e, r, syn, sem, n), n)
      <4>1. /\ e.mode \in Modes /\ e.mtime \in Nat
            /\ e.mode # "semantic" => syn >= e.mtime \/ (e.mode = "both" /\ syn = -1)
        BY <3>2, <3>4, <2>2
      <4>2. Semantic(e.mode) /\ n \notin editedSince[r] => sem = e.mtime /\ (e.mode = "both" => syn = e.mtime \/ syn = -1)
        BY <3>2, <3>3, <3>5
      <4> QED BY <4>1, <4>2, <3>2, <3>3, <2>4, FoundStands
    <3> QED BY <2>0, <2>2, <3>1, <3>6, AnswerGiven
  <2>5. CASE ~(Semantic(d.mode) /\ Hit(d, n)) /\ ~(FileOf(n).ext = "rs" /\ d.table # Nothing)
    <3> DEFINE g == [d EXCEPT !.at = "read", !.name = n, !.mtime = version[n]]
    <3>1. diagnosing' = [diagnosing EXCEPT ![r] = g] /\ UNCHANGED given
      BY <2>1, <2>5, <1>0
    <3>2. /\ diagCache' \in [torn : BOOLEAN, entries : Caches] /\ CacheStands(diagCache'.entries) /\ GivenStands'
      BY <2>0, <3>1, <1>0 DEF GivenStands
    <3> HIDE DEF d
    <3>3. /\ g \in DiagRunType /\ g.at = "read" /\ g.table = d.table /\ g.cache = d.cache /\ g.mode = d.mode
          /\ g.name = n /\ g.mtime = version[n]
      BY <2>0, <2>2 DEF DiagRunType
    <3> HIDE DEF g
    <3>4. g.name \in Names /\ g.mtime <= version[g.name] /\ g.mtime = version[g.name]
      BY <2>2, <3>3
    <3>5. CacheStands(g.cache) /\ (g.table # Nothing => Semantic(g.mode) /\ \A m \in Names \ editedSince[r] : g.table[m] = version[m])
      BY <2>0, <3>3 DEF RunStands
    <3>6. RunStands(r, g)
      BY <3>3, <3>4, <3>5 DEF RunStands
    <3> QED BY <2>0, <3>1, <3>2, <3>3, <3>6, RunGoes
  <2> QED BY <2>3, <2>4, <2>5
<1>6. ASSUME NEW r \in Diagnosers, ReadSource(r) PROVE DiagInv'
  <2> DEFINE d == diagnosing[r]
             n == d.name
  <2>0. /\ d \in DiagRunType /\ RunStands(r, d) /\ UNCHANGED <<version, editedSince, diagCache>> /\ d.at = "read"
        /\ n \in Names /\ d.mtime <= version[n] /\ version[n] \in Nat /\ d.mtime \in Nat /\ d.mode \in Modes
        /\ n \notin editedSince[r] => d.mtime = version[n]
    BY <1>0, <1>1, <1>6 DEF ReadSource, RunStands, DiagRunType
  <2>1. CASE Semantic(d.mode)
    <3> DEFINE y == IF d.mode = "both" THEN version[n] ELSE -1
               g == [d EXCEPT !.at = "check", !.syn = y]
    <3>1. diagnosing' = [diagnosing EXCEPT ![r] = g] /\ UNCHANGED given
      BY <1>6, <2>1, <1>0 DEF ReadSource
    <3>2. /\ diagCache' \in [torn : BOOLEAN, entries : Caches] /\ CacheStands(diagCache'.entries) /\ GivenStands'
      BY <2>0, <3>1, <1>0 DEF GivenStands
    <3>3. y \in Int /\ (d.mode = "both" => y = version[n])
      BY <2>0
    <3> HIDE DEF d, y
    <3>4. /\ g \in DiagRunType /\ g.at = "check" /\ g.table = d.table /\ g.cache = d.cache /\ g.mode = d.mode
          /\ g.name = n /\ g.mtime = d.mtime /\ g.syn = y
      BY <2>0, <3>3 DEF DiagRunType
    <3> HIDE DEF g
    <3>5. RunStands(r, g)
      BY <2>0, <2>1, <3>3, <3>4 DEF RunStands
    <3> QED BY <2>0, <3>1, <3>2, <3>4, <3>5, RunGoes
  <2>2. CASE ~Semantic(d.mode)
    <3>1. Gives(r, n, FoundFor(d, r, version[n], -1, n))
      BY <1>6, <2>2 DEF ReadSource
    <3> DEFINE v == version[n]
    <3>2. v \in Int /\ -1 \in Int /\ v >= d.mtime
      BY <2>0
    <3> HIDE DEF v, d
    <3>3. /\ FoundFor(d, r, v, -1, n) \in EntryType /\ EntryStands(FoundFor(d, r, v, -1, n))
          /\ FoundFor(d, r, v, -1, n).mode = d.mode /\ LostOnlyOfRust(FoundFor(d, r, v, -1, n), n)
      <4>1. PICK y \in Int, m \in Int : y = v /\ m = -1
        BY <3>2
      <4>2. /\ d.mode \in Modes /\ d.mtime \in Nat /\ ~Semantic(d.mode)
            /\ d.mode # "semantic" => y >= d.mtime \/ (d.mode = "both" /\ y = -1)
            /\ Semantic(d.mode) /\ n \notin editedSince[r] => m = d.mtime /\ (d.mode = "both" => y = d.mtime \/ y = -1)
            /\ d.mode = "both" => y # -1
        BY <2>0, <2>2, <3>2, <4>1 DEF Semantic
      <4>3. /\ FoundFor(d, r, y, m, n) \in EntryType /\ EntryStands(FoundFor(d, r, y, m, n))
            /\ FoundFor(d, r, y, m, n).mode = d.mode /\ LostOnlyOfRust(FoundFor(d, r, y, m, n), n)
        BY <4>2, FoundStands
      <4> QED BY ONLY <4>1, <4>3
    <3> QED BY <2>0, <3>1, <3>3, AnswerGiven DEF v, d
  <2> QED BY <2>1, <2>2
<1>7. ASSUME NEW r \in Diagnosers, CheckFile(r) PROVE DiagInv'
  <2> DEFINE d == diagnosing[r]
             n == d.name
             v == version[n]
  <2>0. /\ d \in DiagRunType /\ RunStands(r, d) /\ UNCHANGED <<version, editedSince, diagCache>> /\ d.at = "check"
        /\ Gives(r, n, FoundFor(d, r, d.syn, v, n))
    BY <1>0, <1>1, <1>7 DEF CheckFile
  <2>1. /\ n \in Names /\ d.mtime <= v /\ v \in Nat /\ d.mtime \in Nat /\ d.mode \in Modes /\ d.syn \in Int /\ v \in Int
        /\ n \notin editedSince[r] => d.mtime = v
        /\ Semantic(d.mode) /\ (d.mode = "both" => d.syn >= d.mtime /\ (n \notin editedSince[r] => d.syn = v))
    <3>1. d.mtime \in Nat /\ d.mode \in Modes /\ d.syn \in Int
      BY <2>0 DEF DiagRunType
    <3>2. /\ n \in Names /\ d.mtime <= v /\ (n \notin editedSince[r] => d.mtime = v) /\ Semantic(d.mode)
          /\ d.mode = "both" => d.syn >= d.mtime /\ (n \notin editedSince[r] => d.syn = v)
      BY <2>0 DEF RunStands
    <3>3. v \in Nat /\ v \in Int
      BY <3>2, <1>0
    <3> QED BY <3>1, <3>2, <3>3
  <2> HIDE DEF v, d
  <2>2. d.mode # "semantic" => d.syn >= d.mtime
    BY <2>1 DEF Semantic
  <2>3. /\ FoundFor(d, r, d.syn, v, n) \in EntryType /\ EntryStands(FoundFor(d, r, d.syn, v, n))
        /\ FoundFor(d, r, d.syn, v, n).mode = d.mode /\ LostOnlyOfRust(FoundFor(d, r, d.syn, v, n), n)
    <3> DEFINE y == d.syn
    <3>1. Semantic(d.mode) /\ n \notin editedSince[r] => v = d.mtime /\ (d.mode = "both" => y = d.mtime \/ y = -1)
      BY <2>1
    <3>2. /\ y \in Int /\ v \in Int /\ d.mode \in Modes /\ d.mtime \in Nat
          /\ d.mode # "semantic" => y >= d.mtime \/ (d.mode = "both" /\ y = -1)
          /\ d.mode = "both" => y # -1
      BY <2>1, <2>2
    <3> HIDE DEF y, n
    <3>3. /\ FoundFor(d, r, y, v, n) \in EntryType /\ EntryStands(FoundFor(d, r, y, v, n))
          /\ FoundFor(d, r, y, v, n).mode = d.mode /\ LostOnlyOfRust(FoundFor(d, r, y, v, n), n)
      BY <3>1, <3>2, FoundStands DEF y
    <3> QED BY <3>3 DEF y
  <2> QED BY <2>0, <2>1, <2>3, AnswerGiven DEF d
<1>8. ASSUME NEW r \in Diagnosers, FileFails(r) PROVE DiagInv'
  <2> DEFINE d == diagnosing[r]
             g == [d EXCEPT !.at = "next", !.left = d.left \ {d.name}, !.name = Nothing]
  <2>0. /\ d \in DiagRunType /\ RunStands(r, d) /\ UNCHANGED <<version, editedSince, diagCache, given>>
        /\ diagnosing' = [diagnosing EXCEPT ![r] = g]
    BY <1>0, <1>1, <1>8 DEF FileFails
  <2>1. /\ diagCache' \in [torn : BOOLEAN, entries : Caches] /\ CacheStands(diagCache'.entries) /\ GivenStands'
    BY <2>0, <1>0 DEF GivenStands
  <2> HIDE DEF d
  <2>2. g \in DiagRunType /\ g.at = "next" /\ g.table = d.table /\ g.cache = d.cache /\ g.mode = d.mode
    BY <2>0 DEF DiagRunType
  <2> HIDE DEF g
  <2>3. RunStands(r, g)
    BY <2>0, <2>2 DEF RunStands
  <2> QED BY <2>0, <2>1, <2>2, <2>3, RunGoes
<1>9. ASSUME NEW r \in Diagnosers, SaveCache(r) PROVE DiagInv'
  <2> DEFINE d == diagnosing[r]
             g == [d EXCEPT !.at = "saving"]
  <2>0. d \in DiagRunType /\ RunStands(r, d) /\ UNCHANGED <<version, editedSince, given>>
    BY <1>0, <1>1, <1>9 DEF SaveCache
  <2>1. GivenStands'
    BY <2>0, <1>0 DEF GivenStands
  <2>2. CASE Semantic(d.mode)
    <3>1. diagnosing' = [diagnosing EXCEPT ![r] = g] /\ diagCache' = [torn |-> TRUE, entries |-> NoEntries]
      BY <2>2, <1>9, <1>0 DEF SaveCache
    <3>2. diagCache' \in [torn : BOOLEAN, entries : Caches] /\ CacheStands(diagCache'.entries)
      BY <3>1, IdleType
    <3> HIDE DEF d
    <3>3. g \in DiagRunType /\ g.at = "saving" /\ g.table = d.table /\ g.cache = d.cache /\ g.mode = d.mode
      BY <2>0 DEF DiagRunType
    <3> HIDE DEF g
    <3>4. RunStands(r, g)
      BY <2>0, <3>3 DEF RunStands
    <3> QED BY <2>0, <2>1, <3>1, <3>2, <3>3, <3>4, RunGoes
  <2>3. CASE ~Semantic(d.mode)
    <3>1. diagnosing' = [diagnosing EXCEPT ![r] = Done] /\ UNCHANGED diagCache
      BY <2>3, <1>9 DEF SaveCache
    <3>2. RunStands(r, Done)
      BY IdleType DEF RunStands
    <3> QED BY <2>0, <2>1, <3>1, <3>2, <1>0, IdleType, RunGoes
  <2> QED BY <2>2, <2>3
<1>10. ASSUME NEW r \in Diagnosers, CacheSaved(r) PROVE DiagInv'
  <2> DEFINE k == diagnosing[r].cache
  <2>1. /\ diagnosing' = [diagnosing EXCEPT ![r] = Done] /\ diagCache' = [torn |-> FALSE, entries |-> k]
        /\ UNCHANGED <<version, editedSince, given>>
    BY <1>10 DEF CacheSaved
  <2>2. k \in Caches /\ CacheStands(k)
    BY <1>0, <1>1 DEF DiagRunType, RunStands
  <2> HIDE DEF k
  <2>3. diagCache' \in [torn : BOOLEAN, entries : Caches] /\ CacheStands(diagCache'.entries) /\ GivenStands'
    BY <2>1, <2>2, <1>0 DEF GivenStands
  <2>4. RunStands(r, Done)
    BY IdleType DEF RunStands
  <2> QED BY <2>1, <2>3, <2>4, IdleType, RunGoes
<1>11. CASE UNCHANGED diagVars
  <2>1. UNCHANGED <<version, diagCache, diagnosing, given, editedSince>>
    BY <1>11 DEF diagVars
  <2>2. DiagTypes' /\ GivenStands' /\ CacheStands(diagCache.entries)'
    BY <2>1, <1>0 DEF DiagTypes, GivenStands
  <2>3. ASSUME NEW r \in Diagnosers PROVE RunStands(r, diagnosing[r])'
    BY <2>1, <1>1 DEF RunStands
  <2> QED BY <2>2, <2>3 DEF DiagInv
<1> QED BY <1>2, <1>3, <1>4, <1>5, <1>6, <1>7, <1>8, <1>9, <1>10, <1>11 DEF DiagNext

-----------------------------------------------------------------------------
(* What one diagnosis says                                                 *)

LEMMA ReversedIs ==
  ASSUME NEW S, NEW s \in Seq(S)
  PROVE  Reverse(s) \in Seq(S) /\ Len(Reverse(s)) = Len(s) /\ \A i \in 1..Len(s) : Reverse(s)[i] = s[(Len(s) - i) + 1]
<1> DEFINE n == Len(s)
           r == [i \in 1..n |-> s[(n - i) + 1]]
<1>1. n \in Nat /\ Reverse(s) = r
  BY DEF Reverse
<1>2. \A i \in 1..n : (n - i) + 1 \in 1..n /\ s[(n - i) + 1] \in S
  BY <1>1
<1>3. r \in [1..n -> S] /\ \A i \in 1..n : r[i] = s[(n - i) + 1]
  BY <1>2
<1> HIDE DEF n, r
<1>4. r \in Seq(S) /\ Len(r) = n
  BY <1>1, <1>3
<1> QED BY <1>1, <1>3, <1>4 DEF n

LEMMA PrefixIs ==
  ASSUME NEW S, NEW s \in Seq(S), NEW t \in Seq(S)
  PROVE  IsPrefix(s, t) <=> Len(s) <= Len(t) /\ \A i \in 1..Len(s) : s[i] = t[i]
<1>1. Len(s) \in Nat /\ Len(t) \in Nat
  OBVIOUS
<1>2. ASSUME Len(s) <= Len(t)
      PROVE  SubSeq(s, 1, Len(s)) = SubSeq(t, 1, Len(s)) <=> \A i \in 1..Len(s) : s[i] = t[i]
  <2>1. SubSeq(s, 1, Len(s)) = [i \in 1..Len(s) |-> s[i]]
    BY <1>1
  <2>2. SubSeq(t, 1, Len(s)) = [i \in 1..Len(s) |-> t[i]]
    BY <1>1, <1>2
  <2> QED BY <2>1, <2>2
<1> QED BY <1>2 DEF IsPrefix

\* One sequence ends another when they are the same from the end on.
LEMMA SuffixIs ==
  ASSUME NEW S, NEW s \in Seq(S), NEW t \in Seq(S)
  PROVE  IsSuffix(s, t) <=> Len(s) <= Len(t) /\ \A i \in 1..Len(s) : s[(Len(s) - i) + 1] = t[(Len(t) - i) + 1]
<1>1. Len(s) \in Nat /\ Len(t) \in Nat
  OBVIOUS
<1>2. IsSuffix(s, t) <=> Len(s) <= Len(t) /\ \A i \in 1..Len(s) : Reverse(s)[i] = Reverse(t)[i]
  BY ReversedIs, PrefixIs DEF IsSuffix
<1>3. ASSUME Len(s) <= Len(t), NEW i \in 1..Len(s)
      PROVE  Reverse(s)[i] = s[(Len(s) - i) + 1] /\ Reverse(t)[i] = t[(Len(t) - i) + 1]
  BY <1>1, <1>3, ReversedIs
<1> QED BY <1>2, <1>3

\* What a path ends, its base ends.
LEMMA BaseEnds ==
  ASSUME NEW S, NEW a \in Seq(S), NEW b \in Seq(S), NEW t \in Seq(S), IsSuffix(a \o b, t)
  PROVE  IsSuffix(b, t)
<1> DEFINE p == a \o b
<1>1. /\ p \in Seq(S) /\ Len(p) = Len(a) + Len(b) /\ Len(a) \in Nat /\ Len(b) \in Nat /\ Len(t) \in Nat
      /\ \A j \in 1..Len(b) : p[Len(a) + j] = b[j]
  OBVIOUS
<1> HIDE DEF p
<1>2. Len(p) <= Len(t) /\ \A i \in 1..Len(p) : p[(Len(p) - i) + 1] = t[(Len(t) - i) + 1]
  BY <1>1, SuffixIs DEF p
<1>3. ASSUME NEW i \in 1..Len(b) PROVE b[(Len(b) - i) + 1] = t[(Len(t) - i) + 1]
  <2>1. i \in 1..Len(p) /\ (Len(b) - i) + 1 \in 1..Len(b) /\ (Len(p) - i) + 1 = Len(a) + ((Len(b) - i) + 1)
    BY <1>1
  <2>2. p[(Len(p) - i) + 1] = b[(Len(b) - i) + 1]
    BY <2>1, <1>1
  <2> QED BY <2>1, <2>2, <1>2
<1>4. Len(b) <= Len(t)
  BY <1>1, <1>2
<1> QED BY <1>3, <1>4, SuffixIs

LEMMA CargoAgrees == CargoWaysAgree
<1> SUFFICES ASSUME NEW out \in CheckerOutputs, NEW f \in SourceFiles,
                    \A d \in out : IsSuffix(f.base, PathOf(d.file)) => PathOf(d.file) = PathOf(f)
             PROVE  {d.line : d \in CargoTable(out, f)} = {d.line : d \in Says("cargo", out, f)}
  BY DEF CargoWaysAgree
<1>1. f.dir \in Seq(STRING) /\ f.base \in Seq(STRING) /\ PathOf(f) \in Seq(STRING)
  BY DiagAssumption DEF PathOf
<1>2. ASSUME NEW d \in out PROVE d \in CargoSays(out, f) <=> PathOf(d.file) = PathOf(f)
  <2>1. PathOf(d.file) \in Seq(STRING)
    BY DiagAssumption DEF PathOf
  <2>2. IsSuffix(PathOf(f), PathOf(d.file)) => IsSuffix(f.base, PathOf(d.file))
    BY <1>1, <2>1, BaseEnds DEF PathOf
  <2>3. IsSuffix(PathOf(f), PathOf(f))
    BY <1>1, SuffixIs
  <2> QED BY <2>2, <2>3 DEF CargoSays
<1>3. CargoSays(out, f) = CargoTable(out, f)
  BY <1>2 DEF CargoSays, CargoTable
<1>4. Says("cargo", out, f) =
        {[line |-> d.line, severity |-> NormalizeLevel(d.level), source |-> "semantic"] : d \in CargoSays(out, f)}
  BY DiagAssumption DEF Says
<1> DEFINE Telling(d) == [line |-> d.line, severity |-> NormalizeLevel(d.level), source |-> "semantic"]
<1>5. \A d : Telling(d).line = d.line
  OBVIOUS
<1>6. Says("cargo", out, f) = {Telling(d) : d \in CargoTable(out, f)}
  BY <1>3, <1>4
<1> HIDE DEF Telling
<1>7. {e.line : e \in {Telling(d) : d \in CargoTable(out, f)}} = {d.line : d \in CargoTable(out, f)}
  <2>1. ASSUME NEW l \in {e.line : e \in {Telling(d) : d \in CargoTable(out, f)}}
        PROVE  l \in {d.line : d \in CargoTable(out, f)}
    <3>1. PICK d \in CargoTable(out, f) : l = Telling(d).line
      OBVIOUS
    <3> QED BY <3>1, <1>5
  <2>2. ASSUME NEW d \in CargoTable(out, f) PROVE d.line \in {e.line : e \in {Telling(c) : c \in CargoTable(out, f)}}
    <3>1. Telling(d) \in {Telling(c) : c \in CargoTable(out, f)}
      OBVIOUS
    <3> QED BY <3>1, <1>5
  <2> QED BY <2>1, <2>2
<1> QED BY <1>6, <1>7

Diagnosis(ds, source) == \A d \in ds : \E l, v : d = [line |-> l, severity |-> v, source |-> source]

\* Of what is said of a line one word is kept, the checker's before the parser's.
LEMMA OneIsKept ==
  ASSUME NEW ps, NEW cs, Diagnosis(ps, "syntax"), Diagnosis(cs, "semantic")
  PROVE  /\ \A d, e \in Dedup(ps \cup cs) : Same(d, e) => d = e
         /\ \A d \in ps \cup cs : \E e \in Dedup(ps \cup cs) : Same(d, e)
<1> DEFINE ds == ps \cup cs
<1>1. ASSUME NEW d \in ds
      PROVE  /\ d = [line |-> d.line, severity |-> d.severity, source |-> d.source]
             /\ d.source \in {"syntax", "semantic"} /\ Score(d) = IF d.source = "semantic" THEN 2 ELSE 1
  <2>1. PICK l, v, s : s \in {"syntax", "semantic"} /\ d = [line |-> l, severity |-> v, source |-> s]
    BY DEF Diagnosis
  <2>2. d.line = l /\ d.severity = v /\ d.source = s
    BY <2>1
  <2> QED BY <2>1, <2>2 DEF Score
<1>2. ASSUME NEW d \in ds PROVE Score(d) \in {1, 2} /\ (Score(d) = 2 <=> d.source = "semantic")
  BY <1>1
<1>3. ASSUME NEW d \in Dedup(ds), NEW e \in Dedup(ds), Same(d, e) PROVE d = e
  <2>1. d \in ds /\ e \in ds /\ Same(e, d) /\ Score(e) <= Score(d) /\ Score(d) <= Score(e)
    BY <1>3 DEF Dedup, Same
  <2>2. Score(d) = Score(e)
    BY <2>1, <1>2
  <2>3. d.source = e.source
    BY <2>1, <2>2, <1>1, <1>2
  <2> QED BY <2>1, <2>3, <1>1, <1>3 DEF Same
<1>4. ASSUME NEW d \in ds PROVE \E e \in Dedup(ds) : Same(d, e)
  <2>1. CASE \E e \in ds : Same(d, e) /\ Score(e) = 2
    <3>1. PICK e \in ds : Same(d, e) /\ Score(e) = 2
      BY <2>1
    <3>2. \A c \in ds : Score(c) <= 2
      BY <1>2
    <3> QED BY <3>1, <3>2 DEF Dedup
  <2>2. CASE ~\E e \in ds : Same(d, e) /\ Score(e) = 2
    <3>1. Same(d, d)
      BY DEF Same
    <3>2. \A e \in ds : Same(d, e) => Score(e) = 1
      BY <2>2, <1>2
    <3>3. Score(d) = 1
      BY <3>1, <3>2
    <3> QED BY <3>1, <3>2, <3>3 DEF Dedup
  <2> QED BY <2>1, <2>2
<1> QED BY <1>3, <1>4

LEMMA CheckersDiagnose == ASSUME NEW checker, NEW out, NEW f PROVE Diagnosis(Says(checker, out, f), "semantic")
<1>1. CASE checker = "cargo"
  BY <1>1, DiagAssumption DEF Says, Diagnosis
<1>2. CASE checker = "pyright"
  BY <1>2, DiagAssumption DEF Says, Diagnosis
<1>3. CASE checker = Nothing
  BY <1>3, DiagAssumption DEF Says, Diagnosis
<1>4. CASE checker \notin {"cargo", "pyright", Nothing}
  BY <1>4 DEF Says, Diagnosis
<1> QED BY <1>1, <1>2, <1>3, <1>4

LEMMA NothingIsLost == NothingLost
<1> SUFFICES ASSUME NEW out \in CheckerOutputs, NEW f \in SourceFiles, NEW way \in Modes,
                    NEW installed \in {{}, {"cargo", "python"}}
             PROVE  LET syntax == {[line |-> l, severity |-> "error", source |-> "syntax"] : l \in 1..2}
                        all == WithMode(way, f, syntax, installed, out, {}, {})
                    IN /\ \A d, e \in all : Same(d, e) => d = e
                       /\ way # "semantic" => \A d \in syntax : \E e \in all : Same(d, e)
                       /\ way = "semantic" => \A e \in all : e.source = "semantic"
  BY DEF NothingLost
<1> DEFINE syntax == {[line |-> l, severity |-> "error", source |-> "syntax"] : l \in 1..2}
           all == WithMode(way, f, syntax, installed, out, {}, {})
           checker == CheckerOf(f.ext, installed)
           said == IF checker = Nothing \/ checker \in installed THEN Says(checker, out, f) ELSE FallbackSays(f.ext, {}, {})
           ps == IF way # "semantic" THEN syntax ELSE {}
           cs == IF Semantic(way) THEN said ELSE {}
<1>1. all = Dedup(ps \cup cs)
  BY DEF WithMode
<1>2. Diagnosis(syntax, "syntax") /\ Diagnosis({}, "syntax") /\ Diagnosis({}, "semantic")
  BY DEF Diagnosis
<1>3. FallbackSays(f.ext, {}, {}) = {}
  BY DEF FallbackSays
<1>4. Diagnosis(said, "semantic")
  BY <1>2, <1>3, CheckersDiagnose
<1>5. Diagnosis(ps, "syntax") /\ Diagnosis(cs, "semantic")
  BY <1>2, <1>4
<1> HIDE DEF said, syntax
<1>6. /\ \A d, e \in all : Same(d, e) => d = e
      /\ \A d \in ps \cup cs : \E e \in all : Same(d, e)
  BY <1>1, <1>5, OneIsKept
<1>7. ASSUME way = "semantic", NEW e \in all PROVE e.source = "semantic"
  <2>1. e \in cs
    BY <1>1, <1>7 DEF Dedup
  <2>2. PICK l, v : e = [line |-> l, severity |-> v, source |-> "semantic"]
    BY <2>1, <1>5 DEF Diagnosis
  <2> QED BY <2>2
<1> QED BY <1>6, <1>7 DEF syntax

LEMMA DiagnosisHolds == DiagInv => DiagnosticsKeep
<1> SUFFICES ASSUME DiagInv PROVE DiagnosticsKeep
  OBVIOUS
<1>1. CacheIsOfNow
  BY DEF DiagInv, CacheStands, EntryStands, CacheIsOfNow, LostOnlyOfRust
<1>2. GivenAsAsked
  BY DEF DiagInv, GivenStands, EntryStands, GivenAsAsked
<1> QED BY <1>1, <1>2, CargoAgrees, NothingIsLost DEF DiagnosticsKeep

\* What diagnoses keep, for any files, runs and edits (lsp.rs:290-560): what the cache has for
\* a file as it is was found in that very version unless the file was edited meanwhile,
\* nobody gets a diagnosis of another mode or of a version older than its time, the parser's
\* word is missing of Rust files only, both ways of asking cargo agree, and of what parser and checker say nothing is lost.
THEOREM DiagnosesSafe == DiagSpec => []DiagnosticsKeep
BY DiagInvInit, DiagInvNext, DiagnosisHolds, PTL DEF DiagSpec

-----------------------------------------------------------------------------
(* Builds                                                                  *)

BuildPlaces == {"rest", "asking", "between", "in step", "done"}
\* A build has its fields, and a plan has a number of steps.
BuildFields(b) ==
  /\ b = [at |-> b.at, req |-> b.req, plan |-> b.plan, went |-> b.went, answer |-> b.answer, end |-> b.end,
          shown |-> b.shown]
  /\ b.at \in BuildPlaces /\ b.went \in Seq(BOOLEAN) /\ b.end \in Nat
BuildsTypes ==
  /\ building = [r \in BuildRuns |-> building[r]]
  /\ \A r \in BuildRuns : BuildFields(building[r]) /\ Len(building[r].plan.steps) \in Nat
  /\ settings \in AllSettings /\ changes \in Nat /\ mixed \in BOOLEAN
  /\ Len(buildLog) \in Nat /\ DOMAIN buildLog = 1..Len(buildLog)

Supplied(b) == b.plan.adapter \notin Builtin
\* What its user was shown is what a build that waits for an answer would do now.
Consents(b) ==
  /\ b.at = "asking" => /\ b.req \in BuildRequests /\ b.plan.asks /\ b.plan.planned /\ b.plan.adapter # Unset
                        /\ changes = 0 /\ NothingConfigured => b.plan = Planned(settings, b.req, workFiles)
  /\ (b.went # <<>> \/ b.at \in {"between", "in step"}) /\ Supplied(b)
       => b.req.trusted \/ (b.shown # Unset /\ (changes = 0 /\ NothingConfigured => b.shown = b.plan.adapter))
\* A build that runs has had no step that failed, and has a step to run.
StepsStand(b) ==
  /\ b.at \in {"between", "in step"} => (\A i \in DOMAIN b.went : b.went[i]) /\ b.answer = Unset
  /\ b.at = "in step" => Len(b.went) < Len(b.plan.steps)
  /\ b.at \in {"rest", "asking"} => b.went = <<>>
  /\ \A i \in DOMAIN b.went : ~b.went[i] => i = Len(b.went) /\ b.answer = "error"
  /\ b.answer = "ok" /\ b.went # <<>> => Len(b.went) = Len(b.plan.steps)
  /\ b.went # <<>> \/ b.at = "in step" => b.end >= 1
\* While no two builds were at it, the log is of the build that emptied it.
LogIsOf(r) ==
  /\ r \in BuildRuns /\ building[r].at \notin {"rest", "asking"} /\ Len(buildLog) = building[r].end
  /\ \A i \in DOMAIN buildLog : buildLog[i] # <<>> /\ buildLog[i][1] = r
  /\ buildLog # <<>> => buildLog[1] = <<r, 1, "begins">>
Logs ==
  ~mixed => /\ Executing \subseteq {lastLogged}
            /\ lastLogged # Unset => LogIsOf(lastLogged)
BuildsInv ==
  /\ BuildsTypes /\ (\A r \in BuildRuns : Consents(building[r]) /\ StepsStand(building[r]))
  /\ Logs /\ ErrorsMarkTheirSymbols

-----------------------------------------------------------------------------
(* Plans                                                                   *)

LEMMA RealCommandsAreMany ==
  ASSUME NEW steps, Len(steps) \in Nat, DOMAIN steps = 1..Len(steps) PROVE Len(RealCommands(steps)) \in Nat
                                                                   /\ DOMAIN RealCommands(steps) = 1..Len(RealCommands(steps))
<1> DEFINE real == {i \in DOMAIN steps : steps[i] # <<>>}
           n == Cardinality(real)
           s == [k \in 1..n |-> steps[CHOOSE i \in real : Cardinality({j \in real : j <= i}) = k]]
<1>1. n \in Nat
  <2>1. IsFiniteSet(1..Len(steps))
    BY FS_Interval
  <2> QED BY <2>1, FS_Subset, FS_CardinalityType
<1>2. RealCommands(steps) = s
  BY DEF RealCommands
<1> HIDE DEF n
<1>3. Len(s) = n /\ DOMAIN s = 1..n
  BY <1>1
<1> QED BY <1>1, <1>2, <1>3

LEMMA StepsAreMany ==
  ASSUME NEW cfg \in AllSettings, NEW a, NEW j, a \in Builtin \/ a \in DOMAIN cfg.adapters
  PROVE  Len(PlanSteps(cfg, a, j)) \in Nat
<1>1. CASE a = "cmake"
  <2>1. PlanSteps(cfg, a, j) = CmakeSteps(j)
    BY <1>1 DEF PlanSteps, Builtin
  <2>2. ASSUME NEW s, NEW t PROVE Len(<<s>> \o <<t>>) \in Nat /\ Len(<<>> \o <<t>>) \in Nat
    OBVIOUS
  <2> QED BY <2>1, <2>2 DEF CmakeSteps
<1>2. CASE a \notin Builtin
  <2>1. PlanSteps(cfg, a, j) = CustomSteps(cfg.adapters[a], j)
    BY <1>2 DEF PlanSteps, Builtin
  <2> DEFINE c == cfg.adapters[a]
             real == RealCommands(c.steps)
             cwd == IF c.cwd = Unset THEN "." ELSE Head(c.cwd)
             s == [i \in DOMAIN real |-> Step("build", cwd, [k \in DOMAIN real[i] |-> Filled(real[i][k], j)] \o j.tail)]
  <2>2. Len(real) \in Nat /\ DOMAIN real = 1..Len(real)
    BY <1>2, BuildsAssumption, RealCommandsAreMany
  <2>3. CustomSteps(c, j) = s
    BY DEF CustomSteps
  <2> HIDE DEF real
  <2>4. Len(s) = Len(real)
    BY <2>2
  <2> QED BY <2>1, <2>2, <2>3, <2>4
<1>3. CASE a \in Builtin /\ a # "cmake"
  <2>1. PlanSteps(cfg, a, j) = <<Step("build", IF a = "ninja" THEN NinjaCwd(j) ELSE ".", BuiltinCommand(a, j) \o j.tail)>>
    BY <1>3 DEF PlanSteps
  <2>2. \A s : Len(<<s>>) \in Nat
    OBVIOUS
  <2> QED BY <2>1, <2>2
<1> QED BY <1>1, <1>2, <1>3

LEMMA NotPlannedIs == NotPlanned.planned = FALSE /\ NotPlanned.steps = <<>> /\ NotPlanned.asks = FALSE /\ NotPlanned.adapter = Unset
BY DEF NotPlanned

\* A plan runs a command that is not built in only for a request that is trusted, or asks.
LEMMA PlannedIs ==
  ASSUME NEW cfg \in AllSettings, NEW req, NEW files
  PROVE  LET p == Planned(cfg, req, files)
         IN /\ Len(p.steps) \in Nat
            /\ p.asks => p.planned /\ p.adapter # Unset
            /\ p.planned /\ p.adapter \notin Builtin /\ req.execute => p.asks \/ req.trusted
<1> DEFINE command == CommandOf(cfg, req)
           a == IF command # Unset THEN "custom-shell" ELSE AdapterOf(cfg, req, files)
           steps == IF command # Unset THEN <<Step("shell", ".", command)>> ELSE PlanSteps(cfg, a, JobOf(cfg, req, files))
           p == Planned(cfg, req, files)
           q == [planned |-> TRUE, adapter |-> a, steps |-> steps, asks |-> a \notin Builtin /\ ~req.trusted /\ req.execute]
<1> DEFINE refused == (command # Unset /\ req.execute /\ ~cfg.raw) \/ (command = Unset /\ PlanRefused(cfg, a))
<1>1. p = IF refused THEN NotPlanned ELSE q
  BY DEF Planned
<1>2. CASE refused
  <2>1. p = NotPlanned
    BY <1>1, <1>2
  <2> QED BY <2>1, NotPlannedIs
<1>3. CASE ~refused
  <2>1. command = Unset => a \in Builtin \/ a \in DOMAIN cfg.adapters
    BY <1>3 DEF PlanRefused
  <2>2. Len(steps) \in Nat
    <3>1. CASE command # Unset
      <4>1. \A s : Len(<<s>>) \in Nat
        OBVIOUS
      <4> QED BY <3>1, <4>1
    <3>2. CASE command = Unset
      BY <3>2, <2>1, StepsAreMany
    <3> QED BY <3>1, <3>2
  <2>3. a # Unset
    <3>1. CASE command # Unset
      BY <3>1, BuildsAssumption
    <3>2. CASE command = Unset
      BY <3>2, <2>1, BuildsAssumption
    <3> QED BY <3>1, <3>2
  <2> HIDE DEF a, steps
  <2>4. q.planned /\ q.steps = steps /\ q.adapter = a /\ (q.asks <=> a \notin Builtin /\ ~req.trusted /\ req.execute)
    OBVIOUS
  <2>5. p = q
    BY <1>1, <1>3
  <2> HIDE DEF p, q
  <2> QED BY <2>2, <2>3, <2>4, <2>5 DEF p
<1> QED BY <1>2, <1>3

\* Consent is no part of the choice of the adapter.
LEMMA AdapterIsShown ==
  ASSUME NEW cfg, NEW req \in BuildRequests, NEW files, Planned(cfg, req, files).planned
  PROVE  LET again == [req EXCEPT !.trusted = TRUE]
         IN Planned(cfg, again, files).adapter = Planned(cfg, req, files).adapter
<1> DEFINE again == [req EXCEPT !.trusted = TRUE]
<1>1. req = [adapter |-> req.adapter, profile |-> req.profile, target |-> req.target, execute |-> req.execute,
             zig |-> req.zig, command |-> req.command, trusted |-> req.trusted, tail |-> req.tail, cli |-> req.cli]
  BY BuildsAssumption
<1>2. /\ again.adapter = req.adapter /\ again.target = req.target /\ again.execute = req.execute
      /\ again.command = req.command /\ again.tail = req.tail
  BY <1>1
<1> HIDE DEF again
<1>3. CommandOf(cfg, again) = CommandOf(cfg, req) /\ AdapterOf(cfg, again, files) = AdapterOf(cfg, req, files)
  BY <1>2 DEF CommandOf, AdapterOf
<1> DEFINE command == CommandOf(cfg, req)
           a == IF command # Unset THEN "custom-shell" ELSE AdapterOf(cfg, req, files)
           refused == (command # Unset /\ req.execute /\ ~cfg.raw) \/ (command = Unset /\ PlanRefused(cfg, a))
<1>4. ~refused
  BY NotPlannedIs DEF Planned
<1>5. Planned(cfg, req, files).adapter = a
  BY <1>4 DEF Planned
<1>6. Planned(cfg, again, files).adapter = a
  BY <1>2, <1>3, <1>4 DEF Planned
<1> QED BY <1>5, <1>6 DEF again

-----------------------------------------------------------------------------
(* Running                                                                 *)

LEMMA NothingWent == DOMAIN <<>> = {}
OBVIOUS

LEMMA NoAnswer == Unset # "ok"
BY BuildsAssumption

LEMMA WaitingIs == /\ Waiting.at = "rest" /\ Waiting.went = <<>> /\ Waiting.answer = Unset /\ Waiting.end = 0
                   /\ Waiting.plan = NotPlanned /\ BuildFields(Waiting)
<1>1. <<>> \in Seq(BOOLEAN)
  OBVIOUS
<1> QED BY <1>1 DEF Waiting, BuildFields, BuildPlaces

LEMMA BuildsInvInit == BuildsInit => BuildsInv
<1> SUFFICES ASSUME BuildsInit PROVE BuildsInv
  OBVIOUS
<1>1. building = [r \in BuildRuns |-> Waiting] /\ buildLog = <<>> /\ faulty = {} /\ printed = {} /\ mixed = FALSE
      /\ lastLogged = Unset /\ changes = 0 /\ settings \in AllSettings
  BY DEF BuildsInit
<1>2. BuildsTypes
  <2>1. \A r \in BuildRuns : building[r] = Waiting
    BY <1>1
  <2>2. building = [r \in BuildRuns |-> building[r]]
    BY <1>1
  <2>3. Len(Waiting.plan.steps) \in Nat
    <3>1. Len(<<>>) \in Nat
      OBVIOUS
    <3> QED BY <3>1, WaitingIs, NotPlannedIs
  <2>4. Len(buildLog) \in Nat /\ DOMAIN buildLog = 1..Len(buildLog)
    BY <1>1
  <2>5. \A r \in BuildRuns : BuildFields(building[r]) /\ Len(building[r].plan.steps) \in Nat
    BY <2>1, <2>3, WaitingIs
  <2>6. changes \in Nat /\ mixed \in BOOLEAN /\ settings \in AllSettings
    BY <1>1
  <2> QED BY ONLY <2>2, <2>4, <2>5, <2>6 DEF BuildsTypes
<1>3. ASSUME NEW r \in BuildRuns PROVE Consents(building[r]) /\ StepsStand(building[r])
  <2>1. building[r] = Waiting
    BY <1>1
  <2>2. Waiting.at = "rest" /\ Waiting.went = <<>> /\ Waiting.answer = Unset /\ Waiting.end = 0 /\ Unset # "ok"
    BY WaitingIs, NoAnswer
  <2>3. Consents(Waiting)
    BY <2>2 DEF Consents
  <2>4. StepsStand(Waiting)
    BY <2>2 DEF StepsStand
  <2> QED BY <2>1, <2>3, <2>4
<1>4. Logs
  BY <1>1, WaitingIs DEF Logs, Executing
<1>5. ErrorsMarkTheirSymbols
  BY <1>1 DEF ErrorsMarkTheirSymbols
<1> QED BY <1>2, <1>3, <1>4, <1>5 DEF BuildsInv

\* A step of one build, which becomes c: the others stand as they did.
LEMMA BuildGoes ==
  ASSUME BuildsInv, NEW r \in BuildRuns, NEW c, building' = [building EXCEPT ![r] = c],
         BuildFields(c), Len(c.plan.steps) \in Nat, Consents(c), StepsStand(c),
         \A i \in DOMAIN building[r].went : i \in DOMAIN c.went /\ c.plan.steps[i].kind = building[r].plan.steps[i].kind,
         NothingConfigured' => workFiles' = workFiles, UNCHANGED <<settings, changes>>, mixed' \in BOOLEAN,
         Len(buildLog') \in Nat /\ DOMAIN buildLog' = 1..Len(buildLog'), Logs', ErrorsMarkTheirSymbols'
  PROVE  BuildsInv'
<1>1. BuildsTypes /\ building = [q \in BuildRuns |-> building[q]]
  BY DEF BuildsInv, BuildsTypes
<1>2. building'[r] = c /\ (\A q \in BuildRuns \ {r} : building'[q] = building[q]) /\ building' = [q \in BuildRuns |-> building'[q]]
  BY <1>1
<1>3. BuildsTypes'
  <2>1. \A q \in BuildRuns : BuildFields(building'[q]) /\ Len(building'[q].plan.steps) \in Nat
    BY <1>1, <1>2 DEF BuildsTypes
  <2> QED BY <1>1, <1>2, <2>1 DEF BuildsTypes, BuildFields
<1>4. NothingConfigured' => NothingConfigured
  <2> SUFFICES ASSUME NothingConfigured', NEW q \in BuildRuns, NEW i \in DOMAIN building[q].went
               PROVE  building[q].plan.steps[i].kind # "configure"
    BY DEF NothingConfigured
  <2>1. CASE q = r
    BY <2>1, <1>2 DEF NothingConfigured
  <2>2. CASE q # r
    BY <2>2, <1>2 DEF NothingConfigured
  <2> QED BY <2>1, <2>2
<1>5. ASSUME NEW q \in BuildRuns PROVE Consents(building[q])' /\ StepsStand(building[q])'
  <2>1. Consents(building'[q]) /\ StepsStand(building'[q])
    BY <1>2 DEF BuildsInv
  <2> QED BY <2>1, <1>4 DEF Consents, StepsStand, Supplied
<1> QED BY <1>3, <1>5 DEF BuildsInv

\* What a request becomes.
Gone(req, plan, shown) ==
  [Waiting EXCEPT !.req = req, !.plan = plan, !.shown = shown,
     !.at = IF ~plan.planned \/ ~req.execute \/ (plan.asks /\ shown = Unset /\ ~req.cli) THEN "done"
            ELSE IF plan.asks /\ shown = Unset THEN "asking" ELSE "between",
     !.answer = IF ~plan.planned THEN "refused"
                ELSE IF ~req.execute \/ (plan.asks /\ shown = Unset) THEN "ok" ELSE Unset]

LEMMA GoneIs ==
  ASSUME NEW req, NEW plan, NEW shown
  PROVE  LET c == Gone(req, plan, shown)
         IN /\ BuildFields(c) /\ c.req = req /\ c.plan = plan /\ c.shown = shown /\ c.went = <<>> /\ c.end = 0
            /\ c.at \in {"done", "asking", "between"}
            /\ c.at = "asking" => plan.planned /\ plan.asks /\ shown = Unset
            /\ c.at = "between" => plan.planned /\ req.execute /\ (plan.asks => shown # Unset) /\ c.answer = Unset
<1> DEFINE a == IF ~plan.planned \/ ~req.execute \/ (plan.asks /\ shown = Unset /\ ~req.cli) THEN "done"
                ELSE IF plan.asks /\ shown = Unset THEN "asking" ELSE "between"
           w == IF ~plan.planned THEN "refused"
                ELSE IF ~req.execute \/ (plan.asks /\ shown = Unset) THEN "ok" ELSE Unset
           c == Gone(req, plan, shown)
<1>1. c = [Waiting EXCEPT !.req = req, !.plan = plan, !.shown = shown, !.at = a, !.answer = w]
  BY DEF Gone
<1>2. /\ a \in {"done", "asking", "between"}
      /\ a = "asking" => plan.planned /\ plan.asks /\ shown = Unset
      /\ a = "between" => plan.planned /\ req.execute /\ (plan.asks => shown # Unset) /\ w = Unset
  OBVIOUS
<1> HIDE DEF a, w, c
<1>3. c = [at |-> a, req |-> req, plan |-> plan, went |-> <<>>, answer |-> w, end |-> 0, shown |-> shown]
  BY <1>1 DEF Waiting
<1>4. c.at = a /\ c.req = req /\ c.plan = plan /\ c.shown = shown /\ c.went = <<>> /\ c.end = 0 /\ c.answer = w
  BY ONLY <1>3
<1>5. BuildFields(c)
  <2>1. <<>> \in Seq(BOOLEAN) /\ 0 \in Nat
    OBVIOUS
  <2>2. a \in BuildPlaces
    BY <1>2 DEF BuildPlaces
  <2> QED BY ONLY <1>3, <1>4, <2>1, <2>2 DEF BuildFields
<1> QED BY <1>2, <1>4, <1>5 DEF c

\* Where the steps of a build begin, and nowhere else, the log is emptied.
LEMMA LogOpens ==
  ASSUME BuildsInv, NEW r \in BuildRuns, NEW c, building' = [building EXCEPT ![r] = c], OpensLog(r),
         c.at \in {"done", "asking", "between"}, c.end = 0, building[r].at \in {"rest", "asking"}
  PROVE  Logs' /\ mixed' \in BOOLEAN /\ Len(buildLog') \in Nat /\ DOMAIN buildLog' = 1..Len(buildLog')
<1>1. BuildsTypes /\ building = [q \in BuildRuns |-> building[q]] /\ Logs
  BY DEF BuildsInv, BuildsTypes
<1>2. building'[r] = c /\ \A q \in BuildRuns \ {r} : building'[q] = building[q]
  BY <1>1
<1>3. CASE c.at = "between"
  <2>1. buildLog' = <<>> /\ lastLogged' = r /\ mixed' = (mixed \/ Executing # {})
    BY <1>2, <1>3 DEF OpensLog
  <2>2. Executing = {} => Executing' \subseteq {r}
    BY <1>2 DEF Executing
  <2>3. LogIsOf(r)'
    <3>1. building'[r].at = "between" /\ building'[r].end = 0 /\ Len(buildLog') = 0 /\ DOMAIN buildLog' = {}
      BY <1>2, <1>3, <2>1
    <3>2. building'[r].at \notin {"rest", "asking"}
      BY <3>1
    <3> HIDE DEF OpensLog
    <3> QED BY ONLY <2>1, <3>1, <3>2, r \in BuildRuns DEF LogIsOf
  <2>4. Len(buildLog') \in Nat /\ DOMAIN buildLog' = 1..Len(buildLog')
    BY <2>1
  <2>5. mixed' \in BOOLEAN /\ (~mixed' => Executing = {})
    BY <1>1, <2>1 DEF BuildsTypes
  <2> QED BY ONLY <2>1, <2>2, <2>3, <2>4, <2>5 DEF Logs
<1>4. CASE c.at # "between"
  <2>1. UNCHANGED <<buildLog, lastLogged, mixed>>
    BY <1>2, <1>4 DEF OpensLog
  <2>2. Executing' \subseteq Executing
    BY <1>2, <1>4 DEF Executing
  <2>3. LogIsOf(lastLogged) => LogIsOf(lastLogged)'
    <3> SUFFICES ASSUME LogIsOf(lastLogged) PROVE LogIsOf(lastLogged)'
      OBVIOUS
    <3>1. lastLogged \in BuildRuns \ {r}
      BY DEF LogIsOf
    <3>2. building'[lastLogged] = building[lastLogged]
      BY <1>2, <3>1
    <3> QED BY <2>1, <3>2 DEF LogIsOf
  <2> QED BY <1>1, <2>1, <2>2, <2>3 DEF Logs, BuildsTypes
<1> QED BY <1>3, <1>4

LEMMA Asks == ASSUME BuildsInv, NEW r \in BuildRuns, AskForBuild(r) PROVE BuildsInv'
<1>1. PICK req \in BuildRequests : Goes(r, req, Planned(settings, req, workFiles), Unset)
  BY DEF AskForBuild
<1> DEFINE plan == Planned(settings, req, workFiles)
<1>2. PICK c : c = Gone(req, plan, Unset)
  OBVIOUS
<1>3. /\ building' = [building EXCEPT ![r] = c] /\ OpensLog(r) /\ building[r].at = "rest"
      /\ UNCHANGED <<settings, workFiles, faulty, changes, printed>>
  BY <1>1, <1>2 DEF Goes, Gone, AskForBuild
<1>4. /\ BuildFields(c) /\ c.req = req /\ c.plan = plan /\ c.shown = Unset /\ c.went = <<>> /\ c.end = 0
      /\ c.at \in {"done", "asking", "between"}
      /\ c.at = "asking" => plan.planned /\ plan.asks
      /\ c.at = "between" => plan.planned /\ req.execute /\ ~plan.asks /\ c.answer = Unset
  BY <1>2, GoneIs
<1>5. /\ Len(plan.steps) \in Nat /\ (plan.asks => plan.planned /\ plan.adapter # Unset)
      /\ plan.planned /\ plan.adapter \notin Builtin /\ req.execute => plan.asks \/ req.trusted
  <2>1. settings \in AllSettings
    BY DEF BuildsInv, BuildsTypes
  <2> QED BY <2>1, PlannedIs
<1> HIDE DEF plan
<1>6. Consents(c)
  <2>1. c.at = "asking" => /\ c.req \in BuildRequests /\ c.plan.asks /\ c.plan.planned /\ c.plan.adapter # Unset
                           /\ c.plan = Planned(settings, c.req, workFiles)
    BY <1>4, <1>5 DEF plan
  <2>2. c.at = "between" /\ Supplied(c) => c.req.trusted
    BY <1>4, <1>5 DEF Supplied
  <2>3. c.went = <<>> /\ c.at # "in step"
    BY <1>4
  <2> QED BY ONLY <2>1, <2>2, <2>3 DEF Consents
<1>7. StepsStand(c)
  <2>1. c.went = <<>> /\ c.at # "in step" /\ (c.at = "between" => c.answer = Unset)
    BY <1>4
  <2>2. DOMAIN c.went = {}
    BY <2>1, NothingWent
  <2> QED BY ONLY <2>1, <2>2 DEF StepsStand
<1>8. building[r].went = <<>>
  BY <1>3 DEF BuildsInv, StepsStand
<1>9. ErrorsMarkTheirSymbols'
  BY <1>3 DEF BuildsInv, ErrorsMarkTheirSymbols
<1>10. Logs' /\ mixed' \in BOOLEAN /\ Len(buildLog') \in Nat /\ DOMAIN buildLog' = 1..Len(buildLog')
  BY <1>3, <1>4, LogOpens
<1>11. Len(c.plan.steps) \in Nat
  BY <1>4, <1>5
<1>12. \A i \in DOMAIN building[r].went : i \in DOMAIN c.went /\ c.plan.steps[i].kind = building[r].plan.steps[i].kind
  BY <1>8
<1> QED BY <1>3, <1>4, <1>6, <1>7, <1>9, <1>10, <1>11, <1>12, BuildGoes

LEMMA Confirms == ASSUME BuildsInv, NEW r \in BuildRuns, Confirm(r) PROVE BuildsInv'
<1> DEFINE b == building[r]
           again == [b.req EXCEPT !.trusted = TRUE]
           plan == Planned(settings, again, workFiles)
<1>1. PICK c : c = Gone(b.req, plan, b.plan.adapter)
  OBVIOUS
<1>2. /\ building' = [building EXCEPT ![r] = c] /\ OpensLog(r) /\ b.at = "asking"
      /\ UNCHANGED <<settings, workFiles, faulty, changes, printed>>
  BY <1>1 DEF Goes, Gone, Confirm
<1>3. /\ b.req \in BuildRequests /\ b.plan.asks /\ b.plan.planned /\ b.plan.adapter # Unset /\ b.went = <<>>
      /\ changes = 0 /\ NothingConfigured => b.plan = Planned(settings, b.req, workFiles)
  BY <1>2 DEF BuildsInv, Consents, StepsStand
<1>4. /\ BuildFields(c) /\ c.req = b.req /\ c.plan = plan /\ c.shown = b.plan.adapter /\ c.went = <<>> /\ c.end = 0
      /\ c.at \in {"done", "asking", "between"} /\ c.at # "asking"
      /\ c.at = "between" => plan.planned /\ c.answer = Unset
  BY <1>1, <1>3, GoneIs
<1>5. Len(plan.steps) \in Nat
  <2>1. settings \in AllSettings
    BY DEF BuildsInv, BuildsTypes
  <2> QED BY <2>1, PlannedIs
<1>6. changes = 0 /\ NothingConfigured => plan.adapter = b.plan.adapter
  BY <1>3, AdapterIsShown
<1> HIDE DEF plan
<1>7. Consents(c)
  <2>1. c.at # "asking" /\ c.shown # Unset /\ (changes = 0 /\ NothingConfigured => c.shown = c.plan.adapter)
    BY <1>3, <1>4, <1>6
  <2> QED BY ONLY <2>1 DEF Consents
<1>8. StepsStand(c)
  <2>1. c.went = <<>> /\ c.at # "in step" /\ (c.at = "between" => c.answer = Unset)
    BY <1>4
  <2>2. DOMAIN c.went = {}
    BY <2>1, NothingWent
  <2> QED BY ONLY <2>1, <2>2 DEF StepsStand
<1>9. ErrorsMarkTheirSymbols'
  BY <1>2 DEF BuildsInv, ErrorsMarkTheirSymbols
<1>10. Logs' /\ mixed' \in BOOLEAN /\ Len(buildLog') \in Nat /\ DOMAIN buildLog' = 1..Len(buildLog')
  BY <1>2, <1>4, LogOpens
<1>11. Len(c.plan.steps) \in Nat
  BY <1>4, <1>5
<1>12. \A i \in DOMAIN b.went : i \in DOMAIN c.went /\ c.plan.steps[i].kind = b.plan.steps[i].kind
  BY <1>3
<1> QED BY <1>2, <1>4, <1>7, <1>8, <1>9, <1>10, <1>11, <1>12, BuildGoes

LEMMA Declines == ASSUME BuildsInv, NEW r \in BuildRuns, Decline(r) PROVE BuildsInv'
<1> DEFINE b == building[r]
<1>1. PICK c : c = [b EXCEPT !.at = "done", !.answer = "aborted"]
  OBVIOUS
<1>2. /\ b.at = "asking" /\ building' = [building EXCEPT ![r] = c]
      /\ UNCHANGED <<settings, workFiles, buildLog, faulty, changes, lastLogged, mixed, printed>>
  BY <1>1 DEF Decline, BuildsInv, BuildsTypes
<1>3. BuildFields(b) /\ Len(b.plan.steps) \in Nat /\ b.went = <<>> /\ Consents(b) /\ StepsStand(b)
  BY <1>2 DEF BuildsInv, BuildsTypes, StepsStand
<1>4. c.at = "done" /\ c.answer = "aborted" /\ c.req = b.req /\ c.plan = b.plan /\ c.went = b.went /\ c.end = b.end
      /\ c.shown = b.shown
  BY <1>1, <1>3 DEF BuildFields
<1>5. BuildFields(c)
  BY <1>1, <1>3, <1>4 DEF BuildFields, BuildPlaces
<1>6. Consents(c) /\ StepsStand(c)
  <2>1. c.went = <<>> /\ c.at = "done" /\ c.answer = "aborted"
    BY <1>3, <1>4
  <2> QED BY ONLY <2>1 DEF Consents, StepsStand
<1>7. ErrorsMarkTheirSymbols'
  BY <1>2 DEF BuildsInv, ErrorsMarkTheirSymbols
<1>8. mixed' \in BOOLEAN /\ Len(buildLog') \in Nat /\ DOMAIN buildLog' = 1..Len(buildLog')
  BY <1>2 DEF BuildsInv, BuildsTypes
<1>9. building'[r] = c /\ \A q \in BuildRuns \ {r} : building'[q] = building[q]
  BY <1>2 DEF BuildsInv, BuildsTypes
<1>10. Logs'
  <2>1. Executing' \subseteq Executing
    BY <1>4, <1>9 DEF Executing
  <2>2. LogIsOf(lastLogged) => LogIsOf(lastLogged)'
    BY <1>2, <1>4, <1>9 DEF LogIsOf
  <2> QED BY <1>2, <2>1, <2>2 DEF Logs, BuildsInv
<1> QED BY <1>2, <1>3, <1>4, <1>5, <1>6, <1>7, <1>8, <1>10, BuildGoes

\* A cell at the end of the log makes it one longer; elsewhere it is still a log.
LEMMA Writes ==
  ASSUME Len(buildLog) \in Nat, DOMAIN buildLog = 1..Len(buildLog), NEW place \in Nat, NEW cell
  PROVE  LET w == WriteAt(place, cell)
         IN /\ Len(w) \in Nat /\ DOMAIN w = 1..Len(w)
            /\ place = Len(buildLog) => /\ Len(w) = place + 1 /\ w[place + 1] = cell
                                        /\ \A i \in 1..place : w[i] = buildLog[i]
<1> DEFINE n == Len(buildLog)
           m == Max({n, place + 1})
           w == WriteAt(place, cell)
           f == [i \in 1..m |-> IF i = place + 1 THEN cell ELSE IF i \in DOMAIN buildLog THEN buildLog[i] ELSE <<>>]
<1>1. n \in Nat /\ place + 1 \in Nat
  OBVIOUS
<1>3. w = f
  BY DEF WriteAt
<1> HIDE DEF n
<1>2. m \in Nat /\ (place = n => m = place + 1)
  <2>1. \E x \in {n, place + 1} : \A y \in {n, place + 1} : x >= y
    <3>1. CASE n >= place + 1
      BY <1>1, <3>1
    <3>2. CASE ~(n >= place + 1)
      BY <1>1, <3>2
    <3> QED BY <3>1, <3>2
  <2>2. m \in {n, place + 1} /\ \A y \in {n, place + 1} : m >= y
    BY <2>1 DEF Max
  <2> QED BY <1>1, <2>2
<1> HIDE DEF m
<1>4. Len(f) = m /\ DOMAIN f = 1..m
  BY <1>2
<1>5. ASSUME place = n PROVE f[place + 1] = cell /\ \A i \in 1..place : f[i] = buildLog[i]
  <2>1. DOMAIN buildLog = 1..place /\ m = place + 1
    BY <1>2, <1>5 DEF n
  <2> QED BY <2>1
<1> HIDE DEF f, w
<1> QED BY <1>2, <1>3, <1>4, <1>5 DEF w, n

LEMMA StepBegins == ASSUME BuildsInv, NEW r \in BuildRuns, BeginStep(r) PROVE BuildsInv'
<1> DEFINE b == building[r]
<1>1. PICK c : c = [b EXCEPT !.at = "in step", !.end = b.end + 1]
  OBVIOUS
<1>2. PICK cell : cell = <<r, Len(b.went) + 1, "begins">>
  OBVIOUS
<1>3. /\ b.at = "between" /\ Len(b.went) < Len(b.plan.steps) /\ buildLog' = WriteAt(b.end, cell)
      /\ UNCHANGED <<settings, workFiles, faulty, changes, lastLogged, mixed, printed>>
  BY <1>2 DEF BeginStep
<1>4. building' = [building EXCEPT ![r] = c]
  BY <1>1 DEF BeginStep, BuildsInv, BuildsTypes
<1>5. /\ BuildFields(b) /\ Len(b.plan.steps) \in Nat /\ Consents(b) /\ StepsStand(b) /\ b.end \in Nat
      /\ Len(buildLog) \in Nat /\ DOMAIN buildLog = 1..Len(buildLog) /\ b.went \in Seq(BOOLEAN)
  BY DEF BuildsInv, BuildsTypes, BuildFields
<1>6. c.at = "in step" /\ c.req = b.req /\ c.plan = b.plan /\ c.went = b.went /\ c.end = b.end + 1
      /\ c.shown = b.shown /\ c.answer = b.answer
  BY <1>1, <1>5 DEF BuildFields
<1>6a. c.end \in Nat /\ c.end >= 1
  <2>1. PICK n \in Nat : n = b.end
    BY <1>5
  <2>2. c.end = n + 1
    BY <1>6, <2>1
  <2> QED BY <2>2
<1>7. BuildFields(c)
  <2>1. c = [at |-> "in step", req |-> b.req, plan |-> b.plan, went |-> b.went, answer |-> b.answer, end |-> b.end + 1,
             shown |-> b.shown]
    BY <1>1, <1>5 DEF BuildFields
  <2>2. c.at \in BuildPlaces
    BY <1>6 DEF BuildPlaces
  <2>4. c.end \in Nat
    BY ONLY <1>6a
  <2>3. c.went \in Seq(BOOLEAN)
    BY <1>5, <1>6
  <2> QED BY ONLY <1>6, <2>1, <2>2, <2>3, <2>4 DEF BuildFields
<1>8. Consents(c)
  BY <1>3, <1>5, <1>6 DEF Consents, Supplied
<1>9. StepsStand(c)
  <2>1. (\A i \in DOMAIN c.went : c.went[i]) /\ Len(c.went) < Len(c.plan.steps) /\ c.at = "in step" /\ c.answer = Unset
    BY <1>3, <1>5, <1>6 DEF StepsStand
  <2>2. c.end >= 1
    BY ONLY <1>6a
  <2> QED BY ONLY <2>1, <2>2, NoAnswer DEF StepsStand
<1> DEFINE w == WriteAt(b.end, cell)
<1>10. /\ Len(w) \in Nat /\ DOMAIN w = 1..Len(w)
       /\ b.end = Len(buildLog) => /\ Len(w) = b.end + 1 /\ w[b.end + 1] = cell
                                   /\ \A i \in 1..b.end : w[i] = buildLog[i]
  <2>1. Len(buildLog) \in Nat /\ DOMAIN buildLog = 1..Len(buildLog)
    BY <1>5
  <2>2. PICK p \in Nat : p = b.end
    BY <1>5
  <2>3. /\ Len(WriteAt(p, cell)) \in Nat /\ DOMAIN WriteAt(p, cell) = 1..Len(WriteAt(p, cell))
        /\ p = Len(buildLog) => /\ Len(WriteAt(p, cell)) = p + 1 /\ WriteAt(p, cell)[p + 1] = cell
                                /\ \A i \in 1..p : WriteAt(p, cell)[i] = buildLog[i]
    BY <2>1, Writes
  <2> QED BY ONLY <2>2, <2>3
<1>11. building'[r] = c /\ \A q \in BuildRuns \ {r} : building'[q] = building[q]
  BY <1>4 DEF BuildsInv, BuildsTypes
<1>12. b.end = 0 => Len(b.went) + 1 = 1
  <2>1. b.end = 0 => b.went = <<>>
    <3>1. b.went # <<>> => b.end >= 1
      BY <1>5 DEF StepsStand
    <3> QED BY ONLY <3>1
  <2>2. Len(<<>>) + 1 = 1
    OBVIOUS
  <2> QED BY <2>1, <2>2
<1> HIDE DEF w
<1>13. Logs'
  <2> SUFFICES ASSUME ~mixed PROVE Executing' \subseteq {lastLogged} /\ LogIsOf(r)' /\ lastLogged = r
    BY <1>3 DEF Logs
  <2>1. r \in Executing
    BY <1>3 DEF Executing
  <2>2. lastLogged = r
    BY <2>1 DEF Logs, BuildsInv
  <2>3. Executing' \subseteq Executing
    BY <1>11, <2>1 DEF Executing
  <2>4. LogIsOf(r)
    BY <2>2, BuildsAssumption DEF Logs, BuildsInv
  <2>5. Len(buildLog) = b.end
    BY <2>4 DEF LogIsOf
  <2>6. buildLog' = w
    BY <1>3 DEF w
  <2>7. Len(w) = b.end + 1 /\ w[b.end + 1] = cell /\ (\A i \in 1..b.end : w[i] = buildLog[i]) /\ DOMAIN w = 1..(b.end + 1)
    BY <1>10, <2>5
  <2>8. \A i \in DOMAIN w : w[i] # <<>> /\ w[i][1] = r
    <3> SUFFICES ASSUME NEW i \in 1..(b.end + 1) PROVE w[i] # <<>> /\ w[i][1] = r
      BY <2>7
    <3>1. CASE i = b.end + 1
      <4>1. cell # <<>> /\ cell[1] = r
        BY <1>2
      <4> QED BY <2>7, <3>1, <4>1
    <3>2. CASE i # b.end + 1
      <4>1. i \in 1..b.end /\ i \in DOMAIN buildLog
        BY <1>5, <2>5, <3>2
      <4> QED BY <2>4, <2>7, <4>1 DEF LogIsOf
    <3> QED BY <3>1, <3>2
  <2>9. w[1] = <<r, 1, "begins">>
    <3>1. CASE b.end = 0
      BY <1>2, <1>12, <2>7, <3>1
    <3>2. CASE b.end # 0
      <4>1. 1 \in 1..b.end /\ buildLog # <<>>
        BY <1>5, <2>5, <3>2
      <4> QED BY <2>4, <2>7, <4>1 DEF LogIsOf
    <3> QED BY <3>1, <3>2
  <2>10. LogIsOf(r)'
    <3>1. building'[r].at \notin {"rest", "asking"} /\ Len(buildLog') = building'[r].end
      BY <1>6, <1>11, <2>6, <2>7
    <3> QED BY <2>6, <2>8, <2>9, <3>1 DEF LogIsOf
  <2> QED BY <2>2, <2>3, <2>10 DEF Logs, BuildsInv
<1>14. ErrorsMarkTheirSymbols'
  BY <1>3 DEF BuildsInv, ErrorsMarkTheirSymbols
<1>15. mixed' \in BOOLEAN /\ Len(buildLog') \in Nat /\ DOMAIN buildLog' = 1..Len(buildLog')
  BY <1>3, <1>10 DEF BuildsInv, BuildsTypes, w
<1>16. \A i \in DOMAIN b.went : i \in DOMAIN c.went /\ c.plan.steps[i].kind = b.plan.steps[i].kind
  BY <1>6
<1>17. Len(c.plan.steps) \in Nat
  BY <1>5, <1>6
<1> QED BY <1>3, <1>4, <1>7, <1>8, <1>9, <1>13, <1>14, <1>15, <1>16, <1>17, BuildGoes

LEMMA LeastNumber == ASSUME NEW S \in SUBSET Nat, S # {} PROVE \E i \in S : \A j \in S : i <= j
<1>1. PICK i \in S : \A j \in S : ~(<<j, i>> \in OpToRel(<, Nat))
  BY NatLessThanWellFounded, WFMin
<1>2. \A j \in S : ~(j < i)
  BY <1>1 DEF OpToRel
<1> QED BY <1>2

\* Where there is a symbol around the line, there is a shortest one.
LEMMA ShortestThere ==
  ASSUME NEW l, NEW s \in SymbolRows, Encloses(s, l) PROVE SymbolAt(l) # {}
<1> DEFINE around == {t \in SymbolRows : Encloses(t, l)}
           lengths == {t.to - t.from : t \in around}
<1>1. \A t \in SymbolRows : t.to - t.from \in Nat
  BY BuildsAssumption
<1>2. lengths \in SUBSET Nat /\ lengths # {}
  BY <1>1
<1>3. PICK n \in lengths : \A m \in lengths : n <= m
  BY <1>2, LeastNumber
<1>4. PICK t \in around : n = t.to - t.from
  BY <1>3
<1>5. t \in SymbolAt(l)
  BY <1>3, <1>4 DEF SymbolAt
<1> QED BY <1>5

\* The errors of a report mark their symbols, and only theirs.
LEMMA ReportMarks ==
  ASSUME NEW report, ErrorsMarkTheirSymbols, faulty' = faulty \cup Marked(report), printed' = printed \cup ToSet(report)
  PROVE  ErrorsMarkTheirSymbols'
<1>1. ASSUME NEW l \in printed', Extracted(l), NEW s \in SymbolRows, Encloses(s, l)
      PROVE  \E t \in SymbolRows : Encloses(t, l) /\ t.id \in faulty'
  <2>1. CASE l \in printed
    BY <1>1, <2>1 DEF ErrorsMarkTheirSymbols
  <2>2. CASE l \in ToSet(report)
    <3>1. PICK t \in SymbolAt(l) : TRUE
      BY <1>1, ShortestThere
    <3>2. t \in SymbolRows /\ Encloses(t, l)
      BY <3>1 DEF SymbolAt
    <3>3. t.id \in Marked(report)
      BY <1>1, <2>2, <3>1 DEF Marked
    <3> QED BY <3>2, <3>3
  <2> QED BY <1>1, <2>1, <2>2
<1>2. ASSUME NEW s \in SymbolRows, s.id \in faulty'
      PROVE  \E l \in printed' : /\ Encloses(s, l)
                                 /\ ~\E t \in SymbolRows : Encloses(t, l) /\ t.to - t.from < s.to - s.from
  <2>1. CASE s.id \in faulty
    BY <2>1 DEF ErrorsMarkTheirSymbols
  <2>2. CASE s.id \in Marked(report)
    <3>1. PICK l \in ToSet(report) : s.id \in {t.id : t \in SymbolAt(l)}
      BY <2>2 DEF Marked
    <3>2. PICK t \in SymbolAt(l) : s.id = t.id
      BY <3>1
    <3>3. s = t
      BY <3>2, BuildsAssumption DEF SymbolAt
    <3>4. Encloses(s, l) /\ \A u \in SymbolRows : Encloses(u, l) => s.to - s.from <= u.to - u.from
      BY <3>2, <3>3 DEF SymbolAt
    <3>5. \A u \in SymbolRows : u.to - u.from \in Nat
      BY BuildsAssumption
    <3>6. ~\E u \in SymbolRows : Encloses(u, l) /\ u.to - u.from < s.to - s.from
      BY <3>4, <3>5
    <3> QED BY <3>1, <3>4, <3>6
  <2> QED BY <1>2, <2>1, <2>2
<1> QED BY <1>1, <1>2 DEF ErrorsMarkTheirSymbols

\* One more outcome.
LEMMA OneMore ==
  ASSUME NEW s \in Seq(BOOLEAN), NEW ok \in BOOLEAN
  PROVE  /\ Len(s) \in Nat /\ DOMAIN s = 1..Len(s) /\ Append(s, ok) \in Seq(BOOLEAN) /\ Len(Append(s, ok)) = Len(s) + 1
         /\ DOMAIN Append(s, ok) = 1..(Len(s) + 1) /\ Append(s, ok)[Len(s) + 1] = ok
         /\ \A i \in 1..Len(s) : Append(s, ok)[i] = s[i]
<1>1. Append(s, ok) \in Seq(BOOLEAN) /\ Len(Append(s, ok)) = Len(s) + 1
  BY AppendProperties
<1>2. Append(s, ok)[Len(s) + 1] = ok /\ \A i \in 1..Len(s) : Append(s, ok)[i] = s[i]
  BY AppendProperties
<1>3. Len(s) \in Nat /\ DOMAIN s = 1..Len(s) /\ DOMAIN Append(s, ok) = 1..Len(Append(s, ok))
  BY <1>1, LenProperties
<1> QED BY <1>1, <1>2, <1>3

\* What a step of a build that is over leaves.
Stepped(b, ok, report) ==
  [b EXCEPT !.at = IF StepsLeft(b, ok) THEN "between" ELSE "done",
            !.went = Append(b.went, ok), !.end = IF report = <<>> THEN b.end ELSE b.end + 1,
            !.answer = IF StepsLeft(b, ok) THEN Unset
                       ELSE IF \A k \in DOMAIN Append(b.went, ok) : Append(b.went, ok)[k] THEN "ok" ELSE "error"]

LEMMA SteppedIs ==
  ASSUME NEW b, BuildFields(b), StepsStand(b), b.at = "in step", NEW ok \in BOOLEAN, NEW report, Len(b.plan.steps) \in Nat
  PROVE  LET c == Stepped(b, ok, report)
         IN /\ BuildFields(c) /\ StepsStand(c) /\ c.at \in {"between", "done"} /\ c.req = b.req /\ c.plan = b.plan
            /\ c.shown = b.shown /\ c.went = Append(b.went, ok) /\ Len(c.went) = Len(b.went) + 1
            /\ (\A i \in DOMAIN b.went : i \in DOMAIN c.went) /\ Len(b.went) + 1 \in DOMAIN c.went
            /\ c.end = IF report = <<>> THEN b.end ELSE b.end + 1
<1> DEFINE left == StepsLeft(b, ok)
           w == Append(b.went, ok)
           a == IF left THEN "between" ELSE "done"
           e == IF report = <<>> THEN b.end ELSE b.end + 1
           v == IF left THEN Unset ELSE IF \A k \in DOMAIN w : w[k] THEN "ok" ELSE "error"
           c == Stepped(b, ok, report)
<1>1. c = [b EXCEPT !.at = a, !.went = w, !.end = e, !.answer = v]
  BY DEF Stepped
<1>2. b = [at |-> b.at, req |-> b.req, plan |-> b.plan, went |-> b.went, answer |-> b.answer, end |-> b.end,
           shown |-> b.shown] /\ b.went \in Seq(BOOLEAN) /\ b.end \in Nat
  BY DEF BuildFields
<1>3. (\A i \in DOMAIN b.went : b.went[i]) /\ Len(b.went) < Len(b.plan.steps) /\ b.end >= 1
  BY DEF StepsStand
<1>4. PICK n : n = Len(b.went)
  OBVIOUS
<1>5. PICK s \in Seq(BOOLEAN) : s = b.went
  BY <1>2
<1>5a. /\ n \in Nat /\ DOMAIN s = 1..n /\ w \in Seq(BOOLEAN) /\ Len(w) = n + 1 /\ DOMAIN w = 1..(n + 1)
       /\ w[n + 1] = ok /\ \A i \in 1..n : w[i] = s[i]
  <2>1. n = Len(s) /\ w = Append(s, ok)
    BY <1>4, <1>5
  <2> HIDE DEF w
  <2> QED BY ONLY ok \in BOOLEAN, s \in Seq(BOOLEAN), <2>1, OneMore
<1> HIDE DEF w
<1>5b. n \in Nat /\ Len(w) = n + 1 /\ DOMAIN w = 1..(n + 1) /\ DOMAIN s = 1..n
  BY <1>5a
<1>5c. \A i \in 1..n : w[i]
  <2>1. \A i \in 1..n : s[i]
    BY <1>3, <1>5, <1>5b
  <2> QED BY <1>5a, <2>1
<1>6. e \in Nat /\ e >= 1
  <2>1. PICK k \in Nat : k = b.end
    BY <1>2
  <2>2. k >= 1 /\ (e = k \/ e = k + 1)
    BY <1>3, <2>1
  <2> HIDE DEF e
  <2> QED BY ONLY <2>1, <2>2
<1>7. a \in {"between", "done"} /\ (a = "between" <=> left) /\ (left <=> ok /\ n + 1 < Len(b.plan.steps))
  BY <1>4 DEF StepsLeft
<1>8. \A i \in DOMAIN w : ~w[i] => i = Len(w) /\ ~ok
  <2> SUFFICES ASSUME NEW i \in 1..(n + 1), ~w[i] PROVE i = n + 1 /\ ~ok
    BY <1>5b
  <2>1. i \notin 1..n
    BY <1>5c
  <2>2. i \in 1..(n + 1)
    OBVIOUS
  <2>3. i = n + 1
    BY ONLY <1>5b, <2>1, <2>2
  <2> QED BY <1>5a, <2>3
<1>9. v = "ok" \/ v = "error" \/ (v = Unset /\ left)
  OBVIOUS
<1>10. (left => v = Unset) /\ (~left /\ ok => v = "ok") /\ (~ok => v = "error")
  <2>1. ok => \A k \in DOMAIN w : w[k]
    BY <1>8
  <2>2. ~ok => ~left /\ ~\A k \in DOMAIN w : w[k]
    <3>1. n + 1 \in DOMAIN w
      BY ONLY <1>5b
    <3> QED BY <1>5a, <1>7, <3>1
  <2> QED BY <2>1, <2>2
<1> HIDE DEF left, w, a, e, v, c
<1>11. c = [at |-> a, req |-> b.req, plan |-> b.plan, went |-> w, answer |-> v, end |-> e, shown |-> b.shown]
  BY ONLY <1>1, <1>2
<1>12. c.at = a /\ c.req = b.req /\ c.plan = b.plan /\ c.went = w /\ c.answer = v /\ c.end = e /\ c.shown = b.shown
  BY ONLY <1>11
<1>13. BuildFields(c)
  <2>1. a \in BuildPlaces
    BY <1>7 DEF BuildPlaces
  <2> QED BY ONLY <1>5a, <1>6, <1>11, <1>12, <2>1 DEF BuildFields
<1>14. StepsStand(c)
  <2>1. a = "between" => (\A i \in DOMAIN w : w[i]) /\ v = Unset
    BY <1>7, <1>8, <1>10
  <2>2. \A i \in DOMAIN w : ~w[i] => i = Len(w) /\ v = "error"
    BY <1>8, <1>10
  <2>3. v = "ok" => Len(w) = Len(b.plan.steps)
    <3> SUFFICES ASSUME v = "ok" PROVE Len(w) = Len(b.plan.steps)
      OBVIOUS
    <3>1. ok /\ ~left
      <4>1. ~left
        BY <1>10, NoAnswer
      <4> QED BY <1>10, <4>1
    <3>2. n < Len(b.plan.steps) /\ ~(n + 1 < Len(b.plan.steps))
      BY <1>3, <1>4, <1>7, <3>1
    <3>3. n + 1 = Len(b.plan.steps)
      <4>1. Len(b.plan.steps) \in Nat
        OBVIOUS
      <4> QED BY ONLY <1>5b, <3>2, <4>1
    <3> QED BY <1>5b, <3>3
  <2>4. a # "in step" /\ a # "rest" /\ a # "asking"
    BY <1>7
  <2>5. e >= 1
    BY <1>6
  <2> QED BY ONLY <1>12, <2>1, <2>2, <2>3, <2>4, <2>5 DEF StepsStand
<1>15. (\A i \in DOMAIN b.went : i \in DOMAIN w) /\ n + 1 \in DOMAIN w
  BY ONLY <1>5, <1>5b
<1> QED BY <1>4, <1>5b, <1>7, <1>12, <1>13, <1>14, <1>15 DEF c, w, e

LEMMA StepEnds == ASSUME BuildsInv, NEW r \in BuildRuns, EndStep(r) PROVE BuildsInv'
<1> DEFINE b == building[r]
           i == Len(b.went) + 1
           configures == b.plan.steps[i].kind = "configure"
           dir == <<b.plan.steps[i].command[6]>>
<1>1. PICK ok \in BOOLEAN, report \in Reports :
        /\ ok => report = <<>>
        /\ building' = [building EXCEPT ![r].at = IF StepsLeft(b, ok) THEN "between" ELSE "done",
             ![r].went = Append(b.went, ok), ![r].end = IF report = <<>> THEN b.end ELSE b.end + 1,
             ![r].answer = IF StepsLeft(b, ok) THEN Unset
                           ELSE IF \A k \in DOMAIN Append(b.went, ok) : Append(b.went, ok)[k] THEN "ok" ELSE "error"]
        /\ buildLog' = IF report = <<>> THEN buildLog ELSE WriteAt(b.end, <<r, i, "errors">>)
        /\ faulty' = IF ok THEN faulty ELSE faulty \cup Marked(report)
        /\ printed' = IF ok THEN printed ELSE printed \cup ToSet(report)
        /\ workFiles' \in IF configures THEN {workFiles, workFiles \cup {dir}} ELSE {workFiles}
  BY Zenon DEF EndStep
<1>2. b.at = "in step" /\ UNCHANGED <<settings, changes, lastLogged, mixed>>
  BY DEF EndStep
<1>3. PICK c : c = Stepped(b, ok, report)
  OBVIOUS
<1>4. building' = [building EXCEPT ![r] = c]
  BY <1>1, <1>3 DEF Stepped, BuildsInv, BuildsTypes
<1>5. /\ BuildFields(b) /\ Len(b.plan.steps) \in Nat /\ Consents(b) /\ StepsStand(b)
      /\ Len(buildLog) \in Nat /\ DOMAIN buildLog = 1..Len(buildLog)
  BY DEF BuildsInv, BuildsTypes
<1>6. /\ BuildFields(c) /\ StepsStand(c) /\ c.at \in {"between", "done"} /\ c.req = b.req /\ c.plan = b.plan
      /\ c.shown = b.shown /\ (\A k \in DOMAIN b.went : k \in DOMAIN c.went) /\ i \in DOMAIN c.went
      /\ c.end = IF report = <<>> THEN b.end ELSE b.end + 1
  <2>1. BuildFields(b) /\ StepsStand(b) /\ b.at = "in step" /\ Len(b.plan.steps) \in Nat /\ ok \in BOOLEAN
    BY <1>2, <1>5
  <2> HIDE DEF b
  <2>2. /\ BuildFields(Stepped(b, ok, report)) /\ StepsStand(Stepped(b, ok, report))
        /\ Stepped(b, ok, report).at \in {"between", "done"}
        /\ Stepped(b, ok, report).req = b.req /\ Stepped(b, ok, report).plan = b.plan
        /\ Stepped(b, ok, report).shown = b.shown
        /\ (\A k \in DOMAIN b.went : k \in DOMAIN Stepped(b, ok, report).went)
        /\ Len(b.went) + 1 \in DOMAIN Stepped(b, ok, report).went
        /\ Stepped(b, ok, report).end = IF report = <<>> THEN b.end ELSE b.end + 1
    BY <2>1, SteppedIs, ZenonT(60)
  <2> QED BY ONLY <1>3, <2>2
<1>7. b.end \in Nat /\ b.end >= 1
  BY <1>2, <1>5 DEF BuildFields, StepsStand
<1>8. Consents(c)
  BY <1>2, <1>5, <1>6 DEF Consents, Supplied
<1>9. building'[r] = c /\ \A q \in BuildRuns \ {r} : building'[q] = building[q]
  BY <1>4 DEF BuildsInv, BuildsTypes
<1>10. NothingConfigured' => workFiles' = workFiles
  <2>1. NothingConfigured' => ~configures
    BY <1>6, <1>9 DEF NothingConfigured
  <2> QED BY <1>1, <2>1
<1>11. PICK cell : cell = <<r, i, "errors">>
  OBVIOUS
<1> DEFINE w == WriteAt(b.end, cell)
<1>12. /\ Len(w) \in Nat /\ DOMAIN w = 1..Len(w)
       /\ b.end = Len(buildLog) => /\ Len(w) = b.end + 1 /\ w[b.end + 1] = cell
                                   /\ \A k \in 1..b.end : w[k] = buildLog[k]
  <2>1. Len(buildLog) \in Nat /\ DOMAIN buildLog = 1..Len(buildLog) /\ b.end \in Nat
    BY <1>5, <1>7
  <2>2. PICK p \in Nat : p = b.end
    BY <2>1
  <2>3. /\ Len(WriteAt(p, cell)) \in Nat /\ DOMAIN WriteAt(p, cell) = 1..Len(WriteAt(p, cell))
        /\ p = Len(buildLog) => /\ Len(WriteAt(p, cell)) = p + 1 /\ WriteAt(p, cell)[p + 1] = cell
                                /\ \A k \in 1..p : WriteAt(p, cell)[k] = buildLog[k]
    BY <2>1, Writes
  <2> HIDE DEF i, configures, dir
  <2> QED BY ONLY <2>2, <2>3
<1>13. buildLog' = IF report = <<>> THEN buildLog ELSE w
  BY <1>1, <1>11
<1>14. cell # <<>> /\ cell[1] = r
  BY <1>11
<1> HIDE DEF i, configures, dir, w
<1>15. Logs'
  <2> SUFFICES ASSUME ~mixed PROVE Executing' \subseteq {lastLogged} /\ LogIsOf(r)' /\ lastLogged = r
    BY <1>2 DEF Logs
  <2>1. r \in Executing
    BY <1>2 DEF Executing
  <2>2. lastLogged = r
    BY <2>1 DEF Logs, BuildsInv
  <2>3. Executing' \subseteq Executing
    BY <1>9, <2>1 DEF Executing
  <2>4. LogIsOf(r)
    BY <2>2, BuildsAssumption DEF Logs, BuildsInv
  <2>5. Len(buildLog) = b.end
    BY <2>4 DEF LogIsOf
  <2>6. building'[r].at \notin {"rest", "asking"}
    BY <1>6, <1>9
  <2>7. CASE report = <<>>
    <3>1. buildLog' = buildLog /\ building'[r].end = building[r].end
      BY <1>6, <1>9, <1>13, <2>7
    <3>2. LogIsOf(r)'
      BY <2>4, <2>6, <3>1 DEF LogIsOf
    <3> QED BY <2>2, <2>3, <3>2 DEF Logs, BuildsInv
  <2>8. CASE report # <<>>
    <3>1. buildLog' = w /\ building'[r].end = b.end + 1
      BY <1>6, <1>9, <1>13, <2>8
    <3>2. Len(w) = b.end + 1 /\ w[b.end + 1] = cell /\ (\A k \in 1..b.end : w[k] = buildLog[k]) /\ DOMAIN w = 1..(b.end + 1)
      BY <1>12, <2>5
    <3>3. \A k \in DOMAIN w : w[k] # <<>> /\ w[k][1] = r
      <4> SUFFICES ASSUME NEW k \in 1..(b.end + 1) PROVE w[k] # <<>> /\ w[k][1] = r
        BY <3>2
      <4>1. CASE k = b.end + 1
        BY <1>14, <3>2, <4>1
      <4>2. CASE k # b.end + 1
        <5>1. k \in 1..b.end /\ k \in DOMAIN buildLog
          BY <1>5, <1>7, <2>5, <4>2
        <5> QED BY <2>4, <3>2, <5>1 DEF LogIsOf
      <4> QED BY <4>1, <4>2
    <3>4. w[1] = <<r, 1, "begins">>
      <4>1. 1 \in 1..b.end /\ buildLog # <<>>
        BY <1>5, <1>7, <2>5
      <4> QED BY <2>4, <3>2, <4>1 DEF LogIsOf
    <3>5. LogIsOf(r)'
      <4>1. Len(buildLog') = building'[r].end
        BY <3>1, <3>2
      <4> QED BY <2>6, <3>1, <3>3, <3>4, <4>1 DEF LogIsOf
    <3> QED BY <2>2, <2>3, <3>5 DEF Logs, BuildsInv
  <2> QED BY <2>7, <2>8
<1>16. ErrorsMarkTheirSymbols'
  <2>1. ErrorsMarkTheirSymbols
    BY DEF BuildsInv
  <2>2. CASE ok
    BY <1>1, <2>1, <2>2 DEF ErrorsMarkTheirSymbols
  <2>3. CASE ~ok
    BY <1>1, <2>1, <2>3, ReportMarks
  <2> QED BY <2>2, <2>3
<1>17. mixed' \in BOOLEAN /\ Len(buildLog') \in Nat /\ DOMAIN buildLog' = 1..Len(buildLog')
  BY <1>2, <1>5, <1>12, <1>13 DEF BuildsInv, BuildsTypes
<1>18. \A k \in DOMAIN b.went : k \in DOMAIN c.went /\ c.plan.steps[k].kind = b.plan.steps[k].kind
  BY <1>6
<1>19. Len(c.plan.steps) \in Nat /\ UNCHANGED <<settings, changes>>
  BY <1>2, <1>5, <1>6
<1> QED BY <1>4, <1>6, <1>8, <1>10, <1>15, <1>16, <1>17, <1>18, <1>19, BuildGoes

LEMMA SettingsChange == ASSUME BuildsInv, ChangeSettings PROVE BuildsInv'
<1>1. /\ settings' \in AllSettings /\ changes' = changes + 1 /\ changes \in Nat
      /\ UNCHANGED <<building, workFiles, buildLog, faulty, lastLogged, mixed, printed>>
  BY DEF ChangeSettings, BuildsInv, BuildsTypes
<1>2. BuildsTypes'
  BY <1>1 DEF BuildsInv, BuildsTypes
<1>3. changes' # 0
  BY <1>1
<1>4. ASSUME NEW r \in BuildRuns PROVE Consents(building[r])' /\ StepsStand(building[r])'
  <2>1. Consents(building[r]) /\ StepsStand(building[r])
    BY DEF BuildsInv
  <2> QED BY <1>1, <1>3, <2>1 DEF Consents, StepsStand, Supplied
<1>5. Logs'
  BY <1>1 DEF BuildsInv, Logs, Executing, LogIsOf
<1>6. ErrorsMarkTheirSymbols'
  BY <1>1 DEF BuildsInv, ErrorsMarkTheirSymbols
<1> QED BY <1>2, <1>4, <1>5, <1>6 DEF BuildsInv

LEMMA BuildsRest == ASSUME BuildsInv, UNCHANGED buildsVars PROVE BuildsInv'
<1>1. UNCHANGED <<building, settings, workFiles, buildLog, faulty, changes, lastLogged, mixed, printed>>
  BY DEF buildsVars
<1>2. BuildsTypes'
  BY <1>1 DEF BuildsInv, BuildsTypes
<1>3. NothingConfigured' <=> NothingConfigured
  BY <1>1 DEF NothingConfigured
<1>4. ASSUME NEW r \in BuildRuns PROVE Consents(building[r])' /\ StepsStand(building[r])'
  <2>1. Consents(building[r]) /\ StepsStand(building[r])
    BY DEF BuildsInv
  <2> QED BY <1>1, <1>3, <2>1 DEF Consents, StepsStand, Supplied
<1>5. Logs'
  BY <1>1 DEF BuildsInv, Logs, Executing, LogIsOf
<1>6. ErrorsMarkTheirSymbols'
  BY <1>1 DEF BuildsInv, ErrorsMarkTheirSymbols
<1> QED BY <1>2, <1>4, <1>5, <1>6 DEF BuildsInv

LEMMA BuildsInvNext == ASSUME BuildsInv, [BuildsNext]_buildsVars PROVE BuildsInv'
<1>1. ASSUME NEW r \in BuildRuns, AskForBuild(r) PROVE BuildsInv'
  BY <1>1, Asks
<1>2. ASSUME NEW r \in BuildRuns, Confirm(r) PROVE BuildsInv'
  BY <1>2, Confirms
<1>3. ASSUME NEW r \in BuildRuns, Decline(r) PROVE BuildsInv'
  BY <1>3, Declines
<1>4. ASSUME NEW r \in BuildRuns, BeginStep(r) PROVE BuildsInv'
  BY <1>4, StepBegins
<1>5. ASSUME NEW r \in BuildRuns, EndStep(r) PROVE BuildsInv'
  BY <1>5, StepEnds
<1>6. CASE ChangeSettings
  BY <1>6, SettingsChange
<1>7. CASE UNCHANGED buildsVars
  BY <1>7, BuildsRest
<1> QED BY <1>1, <1>2, <1>3, <1>4, <1>5, <1>6, <1>7 DEF BuildsNext

LEMMA BuildsInvKeeps == BuildsInv => BuildsKeep
<1> SUFFICES ASSUME BuildsInv PROVE BuildsKeep
  OBVIOUS
<1>1. OnlyWithConsent
  <2> SUFFICES ASSUME NEW r \in BuildRuns,
                      building[r].at # "rest", building[r].plan.adapter \notin Builtin,
                      building[r].went # <<>> \/ r \in Executing
               PROVE  \/ building[r].req.trusted
                      \/ /\ building[r].shown # Unset
                         /\ changes = 0 /\ NothingConfigured => building[r].shown = building[r].plan.adapter
    BY Zenon DEF OnlyWithConsent
  <2>1. Consents(building[r])
    BY DEF BuildsInv
  <2> QED BY <2>1 DEF Consents, Supplied, Executing
<1>2. FailureEndsBuild
  BY DEF BuildsInv, StepsStand, FailureEndsBuild
<1>3. LogIsOfOneBuild
  BY DEF BuildsInv, Logs, LogIsOf, LogIsOfOneBuild
<1>4. ErrorsMarkTheirSymbols
  BY DEF BuildsInv
<1> QED BY <1>1, <1>2, <1>3, <1>4 DEF BuildsKeep

\* A build runs what its settings name, with consent, until a step fails, and tells of it in the
\* log and in the index: whatever the settings, the requests, the files and the errors are
\* (build.rs:239-1095).
THEOREM BuildsSafe == BuildsSpec => []BuildsKeep
<1>1. BuildsInit => BuildsInv
  BY BuildsInvInit
<1>2. BuildsInv /\ [BuildsNext]_buildsVars => BuildsInv'
  BY BuildsInvNext
<1>3. BuildsInv => BuildsKeep
  BY BuildsInvKeeps
<1> QED BY <1>1, <1>2, <1>3, PTL DEF BuildsSpec

-----------------------------------------------------------------------------
(* DslAtomic                                                               *)

USE ProgramsAssumption, LimitsAssumption

\* Without a transaction nothing is staged.
Closed == ~active => saves = <<>> /\ staged = {}

StoreType ==
  /\ active \in BOOLEAN /\ staged \subseteq Files /\ saves \in Seq(SUBSET Files)
  /\ shadow \subseteq Files

IInv == TypeOK /\ Closed /\ StagedIsThere

\* What Front does to a sequence.
LEMMA FrontOf ==
  ASSUME NEW S, NEW s \in Seq(S), s # <<>>
  PROVE  /\ Front(s) \in Seq(S) /\ Last(s) \in S /\ Last(s) = s[Len(s)]
         /\ Len(s) \in DOMAIN s /\ Len(Front(s)) = Len(s) - 1
         /\ \A i \in DOMAIN Front(s) : i \in DOMAIN s /\ Front(s)[i] = s[i]
<1>1. Len(s) \in Nat \ {0} /\ DOMAIN s = 1..Len(s)
  BY EmptySeq, LenProperties
<1>2. s[Len(s)] \in S
  BY <1>1, ElementOfSeq
<1>3. 1 \in 1..(Len(s) + 1) /\ Len(s) - 1 \in 0..Len(s)
  BY <1>1
<1>4. /\ Front(s) \in Seq(S) /\ Len(Front(s)) = Len(s) - 1
      /\ \A i \in 1..(Len(s) - 1) : Front(s)[i] = s[i]
  BY <1>1, <1>3, SubSeqProperties DEF Front
<1> QED BY <1>1, <1>2, <1>4, LenProperties DEF Last

\* The three calls of the store keep its part of the invariant.
LEMMA StoreSteps ==
  ASSUME StoreType, Closed, StagedIsThere,
         StoreBegin \/ (active /\ StoreCommit) \/ StoreRollback
  PROVE  (StoreType /\ Closed /\ StagedIsThere)'
<1>1. CASE StoreBegin /\ active
  <2>1. /\ saves' \in Seq(SUBSET Files) /\ Len(saves') = Len(saves) + 1
        /\ \A i \in 1..Len(saves) : saves'[i] = saves[i]
        /\ saves'[Len(saves) + 1] = staged
    BY <1>1, AppendProperties DEF StoreBegin, StoreType
  <2>2. Len(saves) \in Nat /\ DOMAIN saves = 1..Len(saves) /\ DOMAIN saves' = 1..Len(saves')
    BY <2>1, LenProperties DEF StoreType
  <2>3. \A i \in DOMAIN saves' : (i \in DOMAIN saves /\ saves'[i] = saves[i]) \/ saves'[i] = staged
    BY <2>1, <2>2
  <2> QED BY <1>1, <2>1, <2>3 DEF StoreBegin, StoreType, Closed, StagedIsThere
<1>2. CASE /\ active' \in BOOLEAN /\ staged' = {} /\ shadow' = {}
           /\ saves' = <<>>
  <2>1. saves' \in Seq(SUBSET Files) /\ DOMAIN saves' = {}
    BY <1>2, EmptySeq
  <2> QED BY <1>2, <2>1 DEF StoreType, Closed, StagedIsThere
<1>3. CASE saves # <<>> /\ ((active /\ StoreCommit) \/ StoreRollback)
  <2>1. /\ Front(saves) \in Seq(SUBSET Files) /\ Last(saves) \in SUBSET Files
        /\ Len(saves) \in DOMAIN saves /\ Last(saves) = saves[Len(saves)]
        /\ \A i \in DOMAIN Front(saves) : i \in DOMAIN saves /\ Front(saves)[i] = saves[i]
    BY <1>3, FrontOf DEF StoreType
  <2>2. active /\ saves' = Front(saves) /\ staged' \in {staged, Last(saves)}
        /\ UNCHANGED <<active, shadow>>
    BY <1>3 DEF StoreCommit, StoreRollback, Closed
  <2> QED BY <2>1, <2>2 DEF StoreType, Closed, StagedIsThere
<1>4. CASE ~active /\ StoreRollback
  BY <1>4 DEF StoreRollback, store, StoreType, Closed, StagedIsThere
<1> QED BY <1>1, <1>2, <1>3, <1>4 DEF StoreBegin, StoreCommit, StoreRollback, StoreType, Closed

-----------------------------------------------------------------------------
(* Any number of clients                                                   *)

ClientType ==
  /\ program \in [Clients -> Seq(Node)]
  /\ mode \in [Clients -> {"idle", "run", "unwind"}]
  /\ blocks \in [Clients -> Seq(Block)] /\ shared \in BOOLEAN

\* The end of a block drops the last of them.
LEMMA LeftBlocks ==
  ASSUME NEW c \in Clients, ClientType, blocks[c] # <<>>,
         blocks' = [blocks EXCEPT ![c] = Front(@)]
  PROVE  /\ blocks' \in [Clients -> Seq(Block)]
         /\ Len(blocks'[c]) = Len(blocks[c]) - 1
         /\ \A i \in DOMAIN blocks'[c] :
              i \in DOMAIN blocks[c] /\ blocks'[c][i] = blocks[c][i]
<1>1. blocks[c] \in Seq(Block) /\ blocks'[c] = Front(blocks[c])
  BY DEF ClientType
<1>2. /\ Front(blocks[c]) \in Seq(Block) /\ Len(Front(blocks[c])) = Len(blocks[c]) - 1
      /\ \A i \in DOMAIN Front(blocks[c]) :
           i \in DOMAIN blocks[c] /\ Front(blocks[c])[i] = blocks[c][i]
  BY <1>1, FrontOf
<1> QED BY <1>1, <1>2 DEF ClientType

\* The node that is passed leaves the program.
LEMMA PassedNode ==
  ASSUME NEW c \in Clients, ClientType, program[c] # <<>>
  PROVE  Head(program[c]) \in Node /\ Tail(program[c]) \in Seq(Node)
<1>1. program[c] \in Seq(Node)
  BY DEF ClientType
<1> QED BY <1>1, HeadTailProperties

LEMMA AdvanceKept ==
  ASSUME NEW c \in Clients, ClientType, program[c] # <<>>, Advance(c)
  PROVE  /\ program' \in [Clients -> Seq(Node)] /\ shared' \in BOOLEAN
         /\ mode' \in [Clients -> {"idle", "run", "unwind"}]
  BY PassedNode DEF Advance, ClientType

LEMMA RaiseKept ==
  ASSUME NEW c \in Clients, ClientType, Raise(c)
  PROVE  /\ program' \in [Clients -> Seq(Node)] /\ shared' \in BOOLEAN
         /\ mode' \in [Clients -> {"idle", "run", "unwind"}]
  BY EmptySeq DEF Raise, ClientType

LEMMA ClientSteps == ASSUME StoreType, ClientType, [Next]_vars PROVE ClientType'
<1>1. ASSUME Meddle PROVE ClientType'
  BY <1>1 DEF Meddle, client, ClientType
<1>2. ASSUME NEW c \in Clients, Start(c) PROVE ClientType'
  BY <1>2 DEF Start, Accepted, ClientType
<1>3. ASSUME NEW c \in Clients, Edit(c) PROVE ClientType'
  BY <1>3, AdvanceKept DEF Edit, At, ClientType
<1>4. ASSUME NEW c \in Clients, Fails(c) PROVE ClientType'
  BY <1>4, AdvanceKept DEF Fails, At, ClientType
<1>5. ASSUME NEW c \in Clients, Abort(c) PROVE ClientType'
  BY <1>5, RaiseKept DEF Abort, ClientType
<1>6. ASSUME NEW c \in Clients, Enter(c) PROVE ClientType'
  <2>1. [staged |-> IF active THEN staged ELSE {}, shadow |-> IF active THEN shadow ELSE {}]
          \in Block
    BY DEF StoreType, Block
  <2>2. blocks' \in [Clients -> Seq(Block)]
    BY <1>6, <2>1, AppendProperties DEF Enter, ClientType
  <2> QED BY <1>6, <2>2, AdvanceKept DEF Enter, At, ClientType
<1>7. ASSUME NEW c \in Clients, Leave(c) PROVE ClientType'
  <2>1. CASE Advance(c)
    BY <1>7, <2>1, LeftBlocks, AdvanceKept DEF Leave, At, ClientType
  <2>2. CASE Raise(c)
    BY <1>7, <2>2, LeftBlocks, RaiseKept DEF Leave, ClientType
  <2> QED BY <1>7, <2>1, <2>2 DEF Leave
<1>8. ASSUME NEW c \in Clients, Unwind(c) PROVE ClientType'
  BY <1>8, LeftBlocks DEF Unwind, ClientType
<1>9. ASSUME NEW c \in Clients, Finish(c) PROVE ClientType'
  BY <1>9 DEF Finish, ClientType
<1>10. ASSUME UNCHANGED vars PROVE ClientType'
  BY <1>10 DEF vars, client, ClientType
<1> QED BY <1>1, <1>2, <1>3, <1>4, <1>5, <1>6, <1>7, <1>8, <1>9, <1>10 DEF Next

LEMMA StoreKept ==
  ASSUME StoreType, Closed, StagedIsThere, ClientType, [Next]_vars
  PROVE  (StoreType /\ Closed /\ StagedIsThere)'
<1> DEFINE Goal == (StoreType /\ Closed /\ StagedIsThere)'
<1>1. ASSUME UNCHANGED store PROVE Goal
  BY <1>1 DEF store, StoreType, Closed, StagedIsThere
<1>2. ASSUME NEW c \in Clients, Edit(c), active PROVE Goal
  <2>1. Head(program[c]).file \in Files
    BY <1>2, PassedNode DEF Edit, At, Node
  <2> QED BY <1>2, <2>1 DEF Edit, StoreType, Closed, StagedIsThere
<1>4. ASSUME NEW c \in Clients, Edit(c) PROVE Goal
  BY <1>1, <1>2, <1>4 DEF Edit
<1>5. ASSUME NEW c \in Clients, Start(c) \/ Fails(c) \/ Abort(c) \/ Finish(c) PROVE Goal
  BY <1>1, <1>5 DEF Start, Fails, Abort, Finish
<1>7. ASSUME NEW c \in Clients, Enter(c) \/ Leave(c) \/ Unwind(c) PROVE Goal
  <2>1. UNCHANGED store \/ StoreBegin \/ (active /\ StoreCommit) \/ StoreRollback
    BY <1>7 DEF Enter, Leave, Unwind
  <2> QED BY <1>1, <2>1, StoreSteps
<1>6. ASSUME Meddle PROVE Goal
  <2>1. StoreBegin \/ (active /\ StoreCommit) \/ StoreRollback
    BY <1>6 DEF Meddle
  <2> QED BY <2>1, StoreSteps
<1> QED BY <1>1, <1>4, <1>5, <1>6, <1>7 DEF Next, vars, Goal

LEMMA InitOK == Init => IInv
<1> SUFFICES ASSUME Init PROVE IInv OBVIOUS
<1>1. saves \in Seq(SUBSET Files) /\ DOMAIN saves = {}
  BY EmptySeq DEF Init
<1>2. StoreType /\ Closed /\ StagedIsThere
  BY <1>1 DEF Init, StoreType, Closed, StagedIsThere
<1>3. ClientType
  BY EmptySeq DEF Init, ClientType
<1> QED BY <1>2, <1>3 DEF IInv, TypeOK, StoreType, ClientType

LEMMA Inductive == Spec => []IInv
<1>1. IInv /\ [Next]_vars => IInv'
  BY StoreKept, ClientSteps DEF IInv, TypeOK, StoreType, ClientType
<1> QED BY InitOK, <1>1, PTL DEF Spec

\* The types of the variables.
THEOREM TypeCorrect == Spec => []TypeOK
  BY Inductive, PTL DEF IInv

\* However requests share the transaction, every path that is staged or saved
\* as staged has its edit in the shadow directory (StoreCommit would skip it).
THEOREM StagedPathsHaveEdits == Spec => []StagedIsThere
  BY Inductive, PTL DEF IInv
-----------------------------------------------------------------------------
(* Programs that take turns                                                *)

ClientsIdle == \A c \in Clients : mode[c] = "idle"

\* The savepoints are the open blocks of the program that runs, in order, and
\* the transaction stays open.
Stacked ==
  /\ active
  /\ \A c, d \in Clients : mode[c] # "idle" /\ mode[d] # "idle" => c = d
  /\ \A c \in Clients :
       /\ mode[c] = "idle" => blocks[c] = <<>>
       /\ mode[c] # "idle" =>
            /\ Len(saves) = Len(blocks[c])
            /\ \A i \in DOMAIN blocks[c] : saves[i] = blocks[c][i].staged
  /\ ClientsIdle => saves = <<>>

\* With a block open the store has a savepoint.
LEMMA SavepointOfBlock ==
  ASSUME IInv, Stacked, NEW c \in Clients, blocks[c] # <<>>
  PROVE  saves # <<>>
<1>1. saves \in Seq(SUBSET Files) /\ blocks[c] \in Seq(Block)
  BY DEF IInv, TypeOK
<1> QED BY <1>1, EmptySeq DEF Stacked

\* A step of the program that runs, which matches its blocks to the savepoints,
\* keeps the stack.
LEMMA OthersStay ==
  ASSUME IInv, Stacked, NEW c \in Clients, mode[c] # "idle", mode'[c] # "idle",
         mode' = [mode EXCEPT ![c] = mode'[c]], active',
         \A d \in Clients \ {c} : blocks'[d] = blocks[d],
         Len(saves') = Len(blocks'[c]),
         \A i \in DOMAIN blocks'[c] : saves'[i] = blocks'[c][i].staged
  PROVE  Stacked'
<1>1. \A d \in Clients \ {c} : mode'[d] = mode[d] /\ mode[d] = "idle"
  BY DEF Stacked, IInv, TypeOK
<1> QED BY <1>1 DEF Stacked, ClientsIdle

LEMMA StackedStep ==
  ASSUME IInv, Stacked, [Next]_vars, ~shared'
  PROVE  Stacked'
<1>1. StoreType /\ ClientType
  BY DEF IInv, TypeOK, StoreType, ClientType
<1>2. ASSUME NEW c \in Clients, Start(c) PROVE Stacked'
  <2>1. ClientsIdle /\ saves = <<>> /\ blocks[c] = <<>>
    BY <1>2 DEF Start, Stacked, ClientsIdle
  <2>2. Len(<<>>) = 0 /\ DOMAIN <<>> = {}
    OBVIOUS
  <2>3. /\ active' /\ saves' = <<>> /\ UNCHANGED blocks /\ mode'[c] = "run"
        /\ \A d \in Clients \ {c} : mode'[d] = "idle"
    BY <1>1, <1>2, <2>1 DEF Start, store, Stacked, ClientsIdle, ClientType
  <2> QED BY <2>1, <2>2, <2>3 DEF Stacked, ClientsIdle
<1>4. ASSUME NEW c \in Clients, Edit(c) \/ Fails(c) \/ Abort(c) PROVE Stacked'
  <2>1. /\ mode[c] = "run" /\ mode'[c] # "idle" /\ mode' = [mode EXCEPT ![c] = mode'[c]]
        /\ UNCHANGED <<active, saves, blocks>>
    BY <1>1, <1>4 DEF Edit, Fails, Abort, At, Advance, Raise, store, ClientType
  <2> QED BY <2>1, OthersStay DEF Stacked
<1>5. ASSUME NEW c \in Clients, Enter(c) PROVE Stacked'
  <2> DEFINE new == [staged |-> staged, shadow |-> shadow]
  <2>1. /\ saves' = Append(saves, staged) /\ active'
        /\ blocks' = [blocks EXCEPT ![c] = Append(@, new)]
    BY <1>5 DEF Enter, StoreBegin, Stacked
  <2>2. new \in Block /\ new.staged = staged
    BY <1>1 DEF StoreType, Block
  <2> HIDE DEF new
  <2>3. /\ blocks'[c] = Append(blocks[c], new) /\ blocks[c] \in Seq(Block)
        /\ \A d \in Clients \ {c} : blocks'[d] = blocks[d]
    BY <1>1, <2>1 DEF ClientType
  <2>4. /\ Len(saves') = Len(saves) + 1 /\ saves'[Len(saves) + 1] = staged
        /\ \A i \in 1..Len(saves) : saves'[i] = saves[i]
    BY <1>1, <2>1, AppendProperties DEF StoreType
  <2>5. /\ Len(blocks'[c]) = Len(blocks[c]) + 1 /\ blocks'[c][Len(blocks[c]) + 1] = new
        /\ \A i \in 1..Len(blocks[c]) : blocks'[c][i] = blocks[c][i]
        /\ blocks'[c] \in Seq(Block)
    BY <2>2, <2>3, AppendProperties
  <2>6. /\ DOMAIN blocks'[c] = 1..(Len(blocks[c]) + 1) /\ DOMAIN blocks[c] = 1..Len(blocks[c])
        /\ Len(blocks[c]) \in Nat
    BY <2>3, <2>5, LenProperties
  <2>8. mode[c] = "run" /\ mode'[c] # "idle" /\ mode' = [mode EXCEPT ![c] = mode'[c]]
    BY <1>1, <1>5 DEF Enter, At, Advance, ClientType
  <2>9. Len(saves) = Len(blocks[c]) /\ \A i \in DOMAIN blocks[c] : saves[i] = blocks[c][i].staged
    BY <2>8 DEF Stacked
  <2>7. \A i \in DOMAIN blocks'[c] : saves'[i] = blocks'[c][i].staged
    BY <2>2, <2>4, <2>5, <2>6, <2>9
  <2> QED BY <2>1, <2>3, <2>4, <2>5, <2>7, <2>8, <2>9, OthersStay
<1>6. ASSUME NEW c \in Clients, blocks[c] # <<>>, saves' = Front(saves), active',
             blocks' = [blocks EXCEPT ![c] = Front(@)],
             mode[c] # "idle", UNCHANGED mode
      PROVE  Stacked'
  <2>1. /\ Len(saves') = Len(saves) - 1
        /\ \A i \in DOMAIN saves' : saves'[i] = saves[i]
        /\ DOMAIN saves' = 1..Len(saves')
    <3>1. saves # <<>>
      BY <1>6, SavepointOfBlock
    <3> QED BY <1>1, <1>6, <3>1, FrontOf, LenProperties DEF StoreType
  <2>2. /\ Len(blocks'[c]) = Len(blocks[c]) - 1
        /\ \A i \in DOMAIN blocks'[c] : i \in DOMAIN blocks[c] /\ blocks'[c][i] = blocks[c][i]
        /\ DOMAIN blocks'[c] = 1..Len(blocks'[c])
    BY <1>1, <1>6, LeftBlocks, LenProperties DEF ClientType
  <2>3. \A d \in Clients \ {c} : blocks'[d] = blocks[d]
    BY <1>1, <1>6 DEF ClientType
  <2>4. Len(saves) = Len(blocks[c]) /\ \A i \in DOMAIN blocks[c] : saves[i] = blocks[c][i].staged
    BY <1>6 DEF Stacked
  <2>5. Len(saves') = Len(blocks'[c]) /\ \A i \in DOMAIN blocks'[c] : saves'[i] = blocks'[c][i].staged
    BY <2>1, <2>2, <2>4
  <2>6. mode'[c] # "idle" /\ mode' = [mode EXCEPT ![c] = mode'[c]]
    BY <1>1, <1>6 DEF ClientType
  <2> QED BY <1>6, <2>3, <2>5, <2>6, OthersStay
<1>7. ASSUME NEW c \in Clients, Leave(c) PROVE Stacked'
  <2>1. saves # <<>>
    BY <1>7, SavepointOfBlock DEF Leave
  <2>2. StoreCommit /\ Advance(c)
    BY <1>7, <2>1 DEF Leave, Stacked
  <2>3. mode[c] # "idle" /\ UNCHANGED mode
    BY <1>7, <2>2 DEF Leave, At, Advance
  <2> QED BY <1>6, <1>7, <2>1, <2>2, <2>3 DEF Leave, StoreCommit, Stacked
<1>8. ASSUME NEW c \in Clients, Unwind(c) PROVE Stacked'
  <2>1. saves # <<>>
    BY <1>8, SavepointOfBlock DEF Unwind
  <2> QED BY <1>6, <1>8, <2>1 DEF Unwind, StoreRollback, Stacked
<1>9. ASSUME NEW c \in Clients, Finish(c) PROVE Stacked'
  <2>1. saves = <<>>
    <3>1. saves \in Seq(SUBSET Files) /\ Len(saves) = Len(<<>>) /\ Len(<<>>) = 0
      BY <1>1, <1>9 DEF Finish, Stacked, StoreType
    <3> QED BY <3>1, EmptySeq
  <2>2. /\ mode'[c] = "idle" /\ UNCHANGED <<active, saves, blocks>>
        /\ \A d \in Clients \ {c} : mode'[d] = mode[d]
    BY <1>1, <1>9 DEF Finish, store, ClientType
  <2>3. \A d \in Clients \ {c} : mode'[d] = "idle"
    BY <1>9, <2>2 DEF Finish, Stacked
  <2> QED BY <1>9, <2>1, <2>2, <2>3 DEF Stacked, ClientsIdle, Finish
<1>10. ASSUME UNCHANGED vars PROVE Stacked'
  BY <1>10 DEF vars, store, client, Stacked, ClientsIdle
<1> QED BY <1>2, <1>4, <1>5, <1>7, <1>8, <1>9, <1>10 DEF Next, Meddle

\* Once shared, always shared.
LEMMA StaysShared == ASSUME IInv, [Next]_vars, shared PROVE shared'
<1>1. ASSUME NEW c \in Clients, Leave(c) PROVE shared'
  BY <1>1 DEF Leave, Advance, Raise
<1> QED BY <1>1 DEF Next, Meddle, Start, Edit, Fails, Abort, Enter, Unwind, Finish,
                    Advance, Raise, vars

TurnInv == IInv /\ (~shared => Stacked)

LEMMA AlwaysStacked == Spec => []TurnInv
<1>1. Init => Stacked
  <2> SUFFICES ASSUME Init PROVE Stacked OBVIOUS
  <2>1. Len(<<>>) = 0 /\ DOMAIN <<>> = {}
    OBVIOUS
  <2> QED BY <2>1 DEF Init, Stacked
<1>2. IInv /\ (~shared => Stacked) /\ [Next]_vars => (~shared => Stacked)'
  BY StackedStep, StaysShared
<1> QED BY <1>1, <1>2, Inductive, PTL DEF Spec, TurnInv

\* However the programs that take turns end, they leave the savepoints as they
\* found them and the transaction open.
THEOREM ProgramsBalance == Spec => []Balanced
<1>1. TurnInv => Balanced
  BY DEF TurnInv, Balanced, Stacked, ClientsIdle
<1> QED BY <1>1, AlwaysStacked, PTL

\* While programs take turns, a block that is rolled back leaves staged what was
\* staged when the block began, at any depth of nesting.
THEOREM RollbackReturns == Spec => RollbackUnstages
<1>1. ASSUME IInv, Stacked, NEW c \in Clients, Unwind(c)
      PROVE  staged' = Found(c).staged
  <2>1. saves # <<>>
    BY <1>1, SavepointOfBlock DEF Unwind
  <2>2. staged' = saves[Len(saves)]
    BY <1>1, <2>1 DEF Unwind, StoreRollback, Stacked, Last
  <2>3. Len(blocks[c]) \in DOMAIN blocks[c]
    BY <1>1, FrontOf DEF Unwind, IInv, TypeOK
  <2>4. mode[c] # "idle"
    BY <1>1 DEF Unwind
  <2> QED BY <1>1, <2>2, <2>3, <2>4 DEF Stacked, Found, Last
<1>2. TurnInv /\ [Next]_vars =>
        [\A c \in Clients : Unwind(c) /\ ~shared => staged' = Found(c).staged]_vars
  BY <1>1 DEF TurnInv
<1> QED BY <1>2, AlwaysStacked, PTL DEF Spec, RollbackUnstages

\* Types and balance together.
THEOREM StackIsSound == Spec => []StackSound
  BY TypeCorrect, ProgramsBalance, PTL DEF StackSound

-----------------------------------------------------------------------------
(* Side by side                                                            *)

\* The part that is looked at keeps its own invariant.
ProgramsInv ==
  /\ part = "handshake" => HandshakeInv
  /\ part = "builds" => BuildsInv
  /\ part = "debug" => DebugInv
  /\ part = "diagnostics" => DiagInv
allVars == <<part, vars, handshakeVars, buildsVars, debugVars, diagVars>>

LEMMA ProgramsStep == ProgramsInv /\ [MCNext]_allVars => ProgramsInv'
<1> SUFFICES ASSUME ProgramsInv, [MCNext]_allVars PROVE ProgramsInv'
  OBVIOUS
<1>1. part' = part
  BY DEF MCNext, allVars
<1>2. CASE part = "handshake"
  <2>1. [HandshakeNext]_handshakeVars
    BY <1>2 DEF MCNext, allVars
  <2>2. HandshakeInv'
    BY <1>2, <2>1, HandshakeStep DEF ProgramsInv
  <2> QED BY <1>1, <1>2, <2>2 DEF ProgramsInv
<1>3. CASE part = "builds"
  <2>1. [BuildsNext]_buildsVars
    BY <1>3 DEF MCNext, allVars
  <2>2. BuildsInv'
    BY <1>3, <2>1, BuildsInvNext DEF ProgramsInv
  <2> QED BY <1>1, <1>3, <2>2 DEF ProgramsInv
<1>4. CASE part = "debug"
  <2>1. [DebugNext]_debugVars
    BY <1>4 DEF MCNext, allVars
  <2>2. DebugInv'
    BY <1>4, <2>1, DebugInvNext DEF ProgramsInv
  <2> QED BY <1>1, <1>4, <2>2 DEF ProgramsInv
<1>5. CASE part = "diagnostics"
  <2>1. [DiagNext]_diagVars
    BY <1>5 DEF MCNext, allVars
  <2>2. DiagInv'
    BY <1>5, <2>1, DiagInvNext DEF ProgramsInv
  <2> QED BY <1>1, <1>5, <2>2 DEF ProgramsInv
<1>6. CASE part \notin {"handshake", "builds", "debug", "diagnostics"}
  BY <1>1, <1>6 DEF ProgramsInv
<1> QED BY <1>2, <1>3, <1>4, <1>5, <1>6

\* What the run `dsl` looks at in the parts beside execute_dsl holds for any number of agents,
\* builds, sends and diagnosers, and for all settings, files, errors and outputs (connection.rs,
\* build.rs, debug.rs, lsp.rs).
THEOREM ProgramsSafe == MCSpec => []ProgramsKeep
<1>1. MCInit => ProgramsInv
  BY HandshakeStarts, BuildsInvInit, DebugInvInit, DiagInvInit DEF MCInit, ProgramsInv
<1>2. ProgramsInv => ProgramsKeep
  BY HandshakeHolds, BuildsInvKeeps, DebugHolds, DiagnosisHolds DEF ProgramsInv, ProgramsKeep
<1> QED BY <1>1, <1>2, ProgramsStep, PTL DEF MCSpec, allVars
=============================================================================
