------------------------------ MODULE Handshake ------------------------------
(***************************************************************************)
(* How an agent gets its connection (connection.rs, auth.rs): it asks for a *)
(* challenge, signs it, and is let in when its key is among those that     *)
(* init_agent (init.rs) has written to authorized_agents.json, each run    *)
(* a new one in place of the one that its agent had.  Requests are tasks   *)
(* of their own; the locks are let go between their steps.                 *)
(***************************************************************************)
EXTENDS Naturals, Sequences, FiniteSets

CONSTANTS
  Agents,    \* names of agents
  Checks,    \* requests to verify a challenge
  Inits,     \* runs of init_agent, each of which makes a key
  RequireFile, \* collaboration.require_authorized_agents_file
  ChallengeTtl,
  MaxChallenges, MaxSeconds, \* bounds: challenges issued, seconds that pass
  NoTask

ASSUME HandshakeAssumption ==
  RequireFile \in BOOLEAN /\ ChallengeTtl \in Nat /\ NoTask \notin Agents \cup Inits

PubKeys == Inits \* a key is known by the run that made it

VARIABLES
  issued,     \* history: the key and second of each challenge, its nonce is its place
  pending,    \* pending_challenges: the nonce of each key, 0 if it has none
  second,     \* the clock
  checking,   \* each verification: where it is, for whom, with which nonce
  connections,\* by token, which is made of the agent's name and the second
  agentsFile, \* authorized_agents.json: there, torn, and the agents in it with their keys
  initing,    \* each init_agent: where it is, for whom, and what it has read
  welcomed,   \* history: what let each connection in
  announced, disturbed, \* history: agents written with their keys, and whether inits overlapped or died
  lastKey     \* history: the last key written of each agent

handshakeVars == <<issued, pending, second, checking, connections, agentsFile, initing,
                   welcomed, announced, disturbed, lastKey>>

AtRest == [at |-> "rest", key |-> NoTask, nonce |-> 0, name |-> "", token |-> <<>>]
NotBegun == [at |-> "rest", name |-> NoTask, seen |-> {}]
HandshakeInit ==
  /\ issued = <<>> /\ pending = [k \in PubKeys |-> 0] /\ second = 0
  /\ checking = [r \in Checks |-> AtRest]
  /\ connections = [t \in {} |-> NoTask]
  /\ agentsFile = [there |-> FALSE, torn |-> FALSE, keys |-> {}]
  /\ initing = [i \in Inits |-> NotBegun]
  /\ welcomed = {} /\ announced = {} /\ disturbed = FALSE
  /\ lastKey = [n \in Agents |-> NoTask]
-----------------------------------------------------------------------------
(* Challenges                                                              *)

\* handle_connection_open, with any key: whatever challenge it had is forgotten.
OpenConnection(k) ==
  /\ initing[k].at # "rest" /\ Len(issued) < MaxChallenges
  /\ issued' = Append(issued, [key |-> k, at |-> second])
  /\ pending' = [pending EXCEPT ![k] = Len(issued) + 1]
  /\ UNCHANGED <<second, checking, connections, agentsFile, initing, welcomed, announced, disturbed, lastKey>>

\* Who the file says the key is: by name (the agent of its run), anybody, or nobody.
NameOfKey(k) ==
  IF agentsFile.there THEN IF ~agentsFile.torn /\ k \in {e.key : e \in agentsFile.keys} THEN "named" ELSE "nobody"
  ELSE IF RequireFile THEN "nobody" ELSE "anonymous"
\* The challenge is good: it is young, what is signed is its nonce, and the key is known.
LetsIn(k, signed) ==
  /\ second - issued[pending[k]].at <= ChallengeTtl
  /\ signed = pending[k]
  /\ NameOfKey(k) # "nobody"
\* Mutant: a challenge is taken away once it has been answered, not before.
TakeChallengeLate(r, k, signed) ==
  /\ checking[r].at = "rest" /\ pending[k] # 0
  /\ LetsIn(k, signed)
  /\ checking' = [checking EXCEPT ![r] = [at |-> "let in", key |-> k, nonce |-> signed, name |-> NameOfKey(k), token |-> <<>>]]
  /\ UNCHANGED <<pending, issued, second, connections, agentsFile, initing, welcomed, announced, disturbed, lastKey>>
\* handle_connection_verify until the lock of the connections: the challenge is taken
\* whatever comes of it, and who has none is refused.
TakeChallenge(r, k, signed) ==
  /\ checking[r].at = "rest" /\ pending[k] # 0
  /\ pending' = [pending EXCEPT ![k] = 0]
  /\ IF LetsIn(k, signed)
     THEN checking' = [checking EXCEPT ![r] = [at |-> "let in", key |-> k, nonce |-> signed, name |-> NameOfKey(k), token |-> <<>>]]
     ELSE UNCHANGED checking
  /\ UNCHANGED <<issued, second, connections, agentsFile, initing, welcomed, announced, disturbed, lastKey>>
\* create_connection_token: the same for a name and key within a second.
MakeToken(r) ==
  /\ checking[r].at = "let in"
  /\ checking' = [checking EXCEPT ![r].at = "token", ![r].token = <<checking[r].name, checking[r].key, second>>]
  /\ UNCHANGED <<issued, pending, second, connections, agentsFile, initing, welcomed, announced, disturbed, lastKey>>
\* ... and then its entry, in place of one that has the token already.
Connect(r) ==
  LET c == checking[r]
  IN  /\ c.at = "token"
      /\ connections' = [t \in DOMAIN connections \cup {c.token} |-> IF t = c.token THEN c.key ELSE connections[t]]
      /\ welcomed' = welcomed \cup {[by |-> r, key |-> c.key, nonce |-> c.nonce, token |-> c.token, name |-> c.name]}
      /\ checking' = [checking EXCEPT ![r] = [AtRest EXCEPT !.at = "over"]]
      /\ UNCHANGED <<issued, pending, second, agentsFile, initing, announced, disturbed, lastKey>>

SecondPasses ==
  /\ second < MaxSeconds /\ second' = second + 1
  /\ UNCHANGED <<issued, pending, checking, connections, agentsFile, initing, welcomed, announced, disturbed, lastKey>>
-----------------------------------------------------------------------------
(* init_agent                                                              *)

\* It makes a key for the agent, reads the agents (of what it cannot parse, none), truncates
\* the file and writes them with the agent's new key in place of its old one.
ReadAgents(i, n) ==
  /\ initing[i].at = "rest"
  /\ initing' = [initing EXCEPT ![i] = [at |-> "read", name |-> n, seen |-> IF agentsFile.torn THEN {} ELSE agentsFile.keys]]
  /\ disturbed' = (disturbed \/ \E j \in Inits : initing[j].at \in {"read", "torn"})
  /\ UNCHANGED <<issued, pending, second, checking, connections, agentsFile, welcomed, announced, lastKey>>
TearAgents(i) ==
  /\ initing[i].at = "read"
  /\ agentsFile' = [there |-> TRUE, torn |-> TRUE, keys |-> {}]
  /\ initing' = [initing EXCEPT ![i].at = "torn"]
  /\ UNCHANGED <<issued, pending, second, checking, connections, welcomed, announced, disturbed, lastKey>>
Named(i) == [name |-> initing[i].name, key |-> i]
WriteAgents(i) ==
  /\ initing[i].at = "torn"
  /\ agentsFile' = [there |-> TRUE, torn |-> FALSE,
                    keys |-> {e \in initing[i].seen : e.name # initing[i].name} \cup {Named(i)}]
  /\ announced' = announced \cup {Named(i)} /\ lastKey' = [lastKey EXCEPT ![initing[i].name] = i]
  /\ initing' = [initing EXCEPT ![i] = [NotBegun EXCEPT !.at = "over"]]
  /\ UNCHANGED <<issued, pending, second, checking, connections, welcomed, disturbed>>
InitDies(i) ==
  /\ initing[i].at \in {"read", "torn"}
  /\ disturbed' = (disturbed \/ initing[i].at = "torn")
  /\ initing' = [initing EXCEPT ![i] = [NotBegun EXCEPT !.at = "over"]]
  /\ UNCHANGED <<issued, pending, second, checking, connections, agentsFile, welcomed, announced, lastKey>>

HandshakeNext ==
  \/ \E k \in PubKeys : OpenConnection(k)
  \/ \E r \in Checks : \/ \E k \in PubKeys, n \in 0..MaxChallenges : n <= Len(issued) /\ TakeChallenge(r, k, n)
                       \/ MakeToken(r) \/ Connect(r)
  \/ \E i \in Inits : (\E n \in Agents : ReadAgents(i, n)) \/ TearAgents(i) \/ WriteAgents(i) \/ InitDies(i)
  \/ SecondPasses
HandshakeSpec == HandshakeInit /\ [][HandshakeNext]_handshakeVars
-----------------------------------------------------------------------------
(* Properties                                                              *)

\* Each agent that was written, by its last key.
KnowsLast(known) == \A n \in Agents : lastKey[n] # NoTask => [name |-> n, key |-> lastKey[n]] \in known
\* Nobody is let in twice for one challenge, nor for one that was issued to another, too
\* long ago, or before another that the same key asked for and was let in with; and what
\* is connected is what was let in, anonymous only while no file names the agents.
HandshakeKeeps ==
  /\ \A w, v \in welcomed : w.nonce = v.nonce => w = v
  /\ \A w \in welcomed :
       /\ issued[w.nonce].key = w.key
       /\ w.token[3] >= issued[w.nonce].at
       /\ w.name = "anonymous" => ~RequireFile
       /\ w.name = "named" => \E e \in announced : e.key = w.key
  /\ \A r \in Checks : checking[r].at \in {"let in", "token"} =>
       /\ pending[checking[r].key] # checking[r].nonce
       /\ \A w \in welcomed : w.nonce # checking[r].nonce
       /\ \A s \in Checks \ {r} : checking[s].nonce # checking[r].nonce
  /\ DOMAIN connections = {w.token : w \in welcomed}
  /\ \A t \in DOMAIN connections : connections[t] = t[2]
  \* An agent has one key in the file, and while inits neither overlap nor die torn every agent
  \* that was written stays there with its last key, whoever is written after it.
  /\ \A d, e \in agentsFile.keys : d.name = e.name => d = e
  /\ (~disturbed /\ \A i \in Inits : initing[i].at # "torn") => KnowsLast(agentsFile.keys)
=============================================================================
