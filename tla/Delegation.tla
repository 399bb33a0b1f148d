---------------------------- MODULE Delegation ----------------------------
(***************************************************************************)
(* The delegation board of a plan and its frontier queue (context.rs:      *)
(* handle_delegate, handle_frontier, and the enqueueing of handle_crawl):  *)
(* two files that workers and their manager share.  A call reads the files *)
(* it needs, decides on its copy, and writes the copy back; nothing is     *)
(* locked.  A claim is a lease: a status call takes it from a worker whose *)
(* last heartbeat is older than its time-out.  Of the ages that heartbeats *)
(* have only "older than the time-out or not" is kept.                     *)
(***************************************************************************)
EXTENDS Naturals, FiniteSets, Sequences

CONSTANTS
  Nodes, Workers,
  MaxClaims,  \* max_claims of auto_assign
  MaxOverlaps, \* bound on the calls that begin while another is under way
  None

ASSUME WorkersAssumption == None \notin Workers
ASSUME OptionsAssumption == MaxClaims \in Nat \ {0} /\ MaxOverlaps \in Nat

NodeState == [status: {"absent", "pending", "claimed", "completed"},
              by: Workers \cup {None}, fresh: BOOLEAN]
Absent    == [status |-> "absent", by |-> None, fresh |-> FALSE]
\* Mutant: a node starts with the name of the action for its status.
Created   == [status |-> "create", by |-> None, fresh |-> FALSE]
Pending   == [status |-> "pending", by |-> None, fresh |-> FALSE]
Completed == [status |-> "completed", by |-> None, fresh |-> FALSE]
ClaimedBy(w) == [status |-> "claimed", by |-> w, fresh |-> TRUE]

BoardCalls    == {"create", "claim", "heartbeat", "complete", "status"}
FrontierCalls == {"seed", "pop", "reset"}
Kinds         == BoardCalls \cup FrontierCalls \cup {"auto_assign"}

Boards   == [Nodes -> NodeState]
Frontier == [queue: Seq(Nodes), visited: SUBSET Nodes]
Call     == [kind: Kinds, node: Nodes, board: Boards, frontier: Frontier, half: BOOLEAN, knew: SUBSET Nodes]

VARIABLES
  board, frontier, \* the two files
  call,     \* each worker's call, with the copies that it read and (history) what
            \* had been handed out then
  leases,   \* history: the nodes each worker was told it has, and has neither
            \* completed nor let expire
  done,     \* history: nodes whose completion was acknowledged
  seized,   \* history: nodes claimed while somebody else had them claimed
  given,    \* history: nodes handed out by pop or auto_assign since the last reset
  undone,   \* history: those that a call which read the frontier before has written over
  overlaps  \* history: calls that began while another was under way

handed == <<given, undone>>
vars == <<board, frontier, call, leases, done, seized, handed, overlaps>>

TypeOK ==
  /\ board \in Boards /\ frontier \in Frontier
  /\ call \in [Workers -> Call \cup {None}]
  /\ leases \in [Workers -> SUBSET Nodes] /\ done \subseteq Nodes
  /\ seized \subseteq Nodes /\ given \subseteq Nodes /\ undone \subseteq Nodes /\ overlaps \in 0..MaxOverlaps

Empty == [queue |-> <<>>, visited |-> {}]
Blank == [n \in Nodes |-> Absent]
Init ==
  /\ board = Blank /\ frontier = Empty
  /\ call = [w \in Workers |-> None]
  /\ leases = [w \in Workers |-> {}] /\ done = {}
  /\ seized = {} /\ given = {} /\ undone = {} /\ overlaps = 0
-----------------------------------------------------------------------------
Queued(f) == {f.queue[i] : i \in DOMAIN f.queue}

\* What a handler asks of the board it read before it goes on.
Accepts(w, k, n) ==
  /\ k = "claim" => board[n].status \in {"pending", "claimed"}
  /\ k = "heartbeat" => board[n].status = "claimed" /\ board[n].by = w
  /\ k = "complete" => /\ board[n].status # "absent"
                       /\ board[n].status = "claimed" => board[n].by = w

\* Calls without a node get any one.
TakesNode == {"claim", "heartbeat", "complete", "seed"}
Load(w) ==
  /\ call[w] = None
  /\ overlaps' = IF \A v \in Workers : call[v] = None THEN overlaps ELSE overlaps + 1
  /\ overlaps' <= MaxOverlaps
  /\ \E k \in Kinds, n \in Nodes :
       /\ k \in TakesNode \/ n = CHOOSE m \in Nodes : TRUE
       /\ Accepts(w, k, n)
       /\ call' = [call EXCEPT ![w] =
            [kind |-> k, node |-> n, half |-> FALSE, knew |-> IF k \in BoardCalls THEN {} ELSE given \ undone,
             board |-> IF k \in FrontierCalls THEN Blank ELSE board,
             frontier |-> IF k \in BoardCalls THEN Empty ELSE frontier]]
  /\ UNCHANGED <<board, frontier, leases, done, seized, handed>>

Calls(w, k) == call[w] # None /\ call[w].kind = k
Return(w) == call' = [call EXCEPT ![w] = None]
SaveNode(w, state) == board' = [call[w].board EXCEPT ![call[w].node] = state]
\* The frontier becomes f, and out is handed out: what others were given meanwhile is undone.
SaveFrontier(w, f, out) ==
  frontier' = f /\ given' = given \cup out /\ undone' = (undone \cup (given \ call[w].knew)) \ out

\* create replaces the board: leases and completions on the old one are void.
Create(w) ==
  /\ Calls(w, "create") /\ Return(w)
  /\ \E S \in SUBSET Nodes : board' = [n \in Nodes |-> IF n \in S THEN Pending ELSE Absent]
  /\ leases' = [v \in Workers |-> {}] /\ done' = {} /\ seized' = {}
  /\ UNCHANGED <<frontier, handed, overlaps>>

Claim(w) ==
  /\ Calls(w, "claim") /\ Return(w)
  /\ SaveNode(w, ClaimedBy(w))
  /\ leases' = [leases EXCEPT ![w] = @ \cup {call[w].node}]
  /\ seized' = IF call[w].board[call[w].node].by \notin {None, w}
               THEN seized \cup {call[w].node} ELSE seized
  /\ UNCHANGED <<frontier, done, handed, overlaps>>

Heartbeat(w) ==
  /\ Calls(w, "heartbeat") /\ Return(w)
  /\ SaveNode(w, ClaimedBy(w))
  /\ UNCHANGED <<frontier, leases, done, seized, handed, overlaps>>

\* Anybody may complete a node that nobody has claimed.
Complete(w) ==
  /\ Calls(w, "complete") /\ Return(w)
  /\ SaveNode(w, Completed)
  /\ leases' = [leases EXCEPT ![w] = @ \ {call[w].node}]
  /\ done' = done \cup {call[w].node}
  /\ UNCHANGED <<frontier, seized, handed, overlaps>>

\* Mutant: a node is free as long as it is not completed.
AssignedOpen(c) ==
  LET q == c.frontier.queue
      Ready == {i \in DOMAIN q : q[i] \in Nodes
                                  /\ c.board[q[i]].status \in {"pending", "claimed"}}
  IN  {q[i] : i \in {j \in Ready : Cardinality({k \in Ready : k < j}) < MaxClaims}}
\* The first MaxClaims pending nodes of the queue.
Assigned(c) ==
  LET q == c.frontier.queue
      Ready == {i \in DOMAIN q : q[i] \in Nodes /\ c.board[q[i]].status = "pending"}
  IN  {q[i] : i \in {j \in Ready : Cardinality({k \in Ready : k < j}) < MaxClaims}}

\* auto_assign saves the board, and then the frontier.
AssignBoard(w) ==
  /\ Calls(w, "auto_assign") /\ ~call[w].half
  /\ board' = [n \in Nodes |-> IF n \in Assigned(call[w]) THEN ClaimedBy(w) ELSE call[w].board[n]]
  /\ call' = [call EXCEPT ![w].half = TRUE]
  /\ UNCHANGED <<frontier, leases, done, seized, handed, overlaps>>

\* The queue without what the loop has removed, in its order.
Without(q, taken) ==
  LET left[i \in 0..Len(q)] ==
        IF i = 0 THEN <<>> ELSE IF q[i] \in taken THEN left[i - 1] ELSE Append(left[i - 1], q[i])
  IN  left[Len(q)]
AssignFrontier(w) ==
  LET taken == Assigned(call[w])
  IN  /\ Calls(w, "auto_assign") /\ call[w].half /\ Return(w)
      /\ SaveFrontier(w, [queue |-> Without(call[w].frontier.queue, taken),
                          visited |-> call[w].frontier.visited \cup taken], taken)
      /\ leases' = [leases EXCEPT ![w] = @ \cup taken]
      /\ UNCHANGED <<board, done, seized, overlaps>>

\* Mutant: whatever has no recent heartbeat is requeued.
StaleAny(b) == {n \in Nodes : b[n].status # "absent" /\ ~b[n].fresh}
\* The claims that a status call finds too old.
Stale(b) == {n \in Nodes : b[n].status = "claimed" /\ ~b[n].fresh}

\* status makes them pending; without any it writes nothing.
Status(w) ==
  LET stale == Stale(call[w].board) IN
  /\ Calls(w, "status") /\ Return(w)
  /\ IF stale = {} THEN UNCHANGED board
     ELSE board' = [n \in Nodes |-> IF n \in stale THEN Pending ELSE call[w].board[n]]
  /\ leases' = [v \in Workers |-> leases[v] \ stale]
  /\ UNCHANGED <<frontier, done, seized, handed, overlaps>>

\* Mutant: what was handed out before is queued again.
SeedAgain(w) ==
  LET f == call[w].frontier IN
  /\ Calls(w, "seed") /\ Return(w)
  /\ SaveFrontier(w, IF call[w].node \in Queued(f) THEN f
                     ELSE [f EXCEPT !.queue = Append(@, call[w].node)], {})
  /\ UNCHANGED <<board, leases, done, seized, overlaps>>

\* seed, and crawl with enqueue, take nodes neither queued nor visited.
Seed(w) ==
  LET f == call[w].frontier IN
  /\ Calls(w, "seed") /\ Return(w)
  /\ SaveFrontier(w, IF call[w].node \in f.visited \cup Queued(f) THEN f
                     ELSE [f EXCEPT !.queue = Append(@, call[w].node)], {})
  /\ UNCHANGED <<board, leases, done, seized, overlaps>>

Pop(w) ==
  LET f == call[w].frontier IN
  /\ Calls(w, "pop") /\ Return(w)
  /\ IF f.queue = <<>> THEN SaveFrontier(w, f, {})
     ELSE SaveFrontier(w, [queue |-> Tail(f.queue), visited |-> f.visited \cup {Head(f.queue)}], {Head(f.queue)})
  /\ UNCHANGED <<board, leases, done, seized, overlaps>>

Reset(w) ==
  /\ Calls(w, "reset") /\ Return(w) /\ frontier' = Empty /\ given' = {} /\ undone' = {}
  /\ UNCHANGED <<board, leases, done, seized, overlaps>>

\* The process of a call dies, between its reads and writes or between two
\* writes; the worker is told nothing.
Crash(w) ==
  /\ call[w] # None /\ Return(w)
  /\ UNCHANGED <<board, frontier, leases, done, seized, handed, overlaps>>

\* The last heartbeat of a claim grows older than the time-out.
Age(n) ==
  /\ board[n].status = "claimed" /\ board[n].fresh
  /\ board' = [board EXCEPT ![n].fresh = FALSE]
  /\ UNCHANGED <<frontier, call, leases, done, seized, handed, overlaps>>
-----------------------------------------------------------------------------
Finish(w) ==
  \/ Create(w) \/ Claim(w) \/ Heartbeat(w) \/ Complete(w)
  \/ AssignBoard(w) \/ AssignFrontier(w) \/ Status(w)
  \/ Seed(w) \/ Pop(w) \/ Reset(w)
Next == \/ \E w \in Workers : Load(w) \/ Finish(w) \/ Crash(w)
        \/ \E n \in Nodes : Age(n)
Spec == Init /\ [][Next]_vars
-----------------------------------------------------------------------------
(* Properties                                                              *)

\* While calls take turns, no two workers have been told that a node is theirs,
\* unless one claimed it from the other or the lease of the first ran out.
OneOwner ==
  overlaps = 0 => \A v, w \in Workers : v # w => leases[v] \cap leases[w] \subseteq seized

\* While calls take turns, a completion that was acknowledged stays on the board.
CompletedStays == overlaps = 0 => \A n \in done : board[n].status = "completed"

\* However the writes of calls interleave and processes die, no node is queued twice at a
\* time, and one that was handed out since the last reset is queued again only if a call that had
\* read the frontier before has written its copy back; while calls take turns, that is none.
QueuedOnce ==
  /\ \A i, j \in DOMAIN frontier.queue : frontier.queue[i] = frontier.queue[j] => i = j
  /\ Queued(frontier) \cap given \subseteq undone
  /\ overlaps = 0 => undone = {}

\* Board and frontier in every state: they have their types, and nothing is queued twice
\* or again, unless an older copy has been written back.
QueueSound == TypeOK /\ QueuedOnce
=============================================================================
