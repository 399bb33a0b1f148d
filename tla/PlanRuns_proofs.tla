-------------------------- MODULE PlanRuns_proofs --------------------------
(***************************************************************************)
(* Proofs about PlanRuns, for any plan and any number of executions that   *)
(* overlap and die as they please: the run state on disk never lies, and   *)
(* the checkpoints of a first execution keep up with the nodes.            *)
(***************************************************************************)
EXTENDS PlanRuns, FiniteSetTheorems, TLAPS

USE NodesAssumption, PlansAssumption

-----------------------------------------------------------------------------
(* The inductive invariant: what holds of the file holds of what each      *)
(* execution has in memory, and the last to write has the file in memory.  *)

StatusIn(s, n) == s.nodes[n].status
Open_(s, n)    == StatusIn(s, n) \notin {"absent", "completed"}

InOrder(s) ==
  /\ \A n \in Nodes : StatusIn(s, n) # "absent" => \A d \in Edges(n) : StatusIn(s, d) = "completed"
  /\ \A m, n \in Nodes : Open_(s, m) /\ Open_(s, n) => m = n
Truthful(s) ==
  /\ s.status = "completed" => \A n \in Nodes : StatusIn(s, n) = "completed"
  /\ s.status = "failed" => \E n \in Nodes : StatusIn(s, n) # "completed"
InBudget(s) ==
  \A n \in Nodes : /\ s.nodes[n].retries <= plan.limit[n]
                   /\ StatusIn(s, n) = "failed" => s.nodes[n].retries = plan.limit[n]
Sound(s) == InOrder(s) /\ Truthful(s) /\ InBudget(s)

\* Where an execution is tells what it knows.
Place(r) ==
  /\ at[r] # "idle" => \A n \in Nodes : StatusIn(local[r], n) = "absent" <=> n \in left[r]
  /\ at[r] = "idle" => left[r] = Nodes
  /\ at[r] \in {"opened", "next", "mark"} => \A n \in Nodes : ~Open_(local[r], n)
  /\ at[r] \in {"attempt", "retry"} =>
       Open_(local[r], cur[r]) /\ tries[r] <= plan.limit[cur[r]]
  /\ at[r] = "failing" => Open_(local[r], cur[r])
  /\ at[r] \in {"opened", "next", "attempt", "retry", "mark", "failing"} =>
       local[r].status = "started"
  /\ at[r] = "seal" => local[r].status \in {"completed", "failed"}
  /\ at[r] = "done" => local[r].status \in {"completed", "failed"} \/ Cyclic

LastWriter ==
  \/ file = None /\ \A r \in Runs : at[r] = "idle"
  \/ \E r \in Runs : at[r] # "idle" /\ file = local[r]

IInv ==
  /\ TypeOK /\ LastWriter
  /\ \A r \in Runs : Sound(local[r]) /\ Place(r)

LEMMA InitOK == Init => IInv
<1> SUFFICES ASSUME Init PROVE IInv OBVIOUS
<1>1. (CHOOSE n \in Nodes : TRUE) \in Nodes
  OBVIOUS
<1>2. TypeOK
  BY <1>1 DEF Init, TypeOK, RunState, NodeState, None, Untried, Places
<1>3. \A r \in Runs : Sound(local[r]) /\ Place(r)
  BY DEF Init, None, Untried, Sound, InOrder, Truthful, InBudget, Place, StatusIn, Open_
<1> QED BY <1>2, <1>3 DEF IInv, LastWriter, Init

\* What an execution persists: sound states at the right places.
LEMMA FreshSound == ASSUME TypeOK PROVE Sound(Fresh) /\ Fresh \in RunState
  BY DEF TypeOK, Fresh, Untried, RunState, NodeState, Sound, InOrder, Truthful, InBudget,
         StatusIn, Open_

\* The update of one node.
LEMMA NodeUpdate ==
  ASSUME TypeOK, NEW r \in Runs, NEW n \in Nodes, NEW k \in Nat,
         NEW st \in {"absent", "executing", "retrying", "completed", "failed"}
  PROVE  /\ OfNode(r, n, st, k) \in RunState
         /\ OfNode(r, n, st, k).status = local[r].status
         /\ StatusIn(OfNode(r, n, st, k), n) = st
         /\ OfNode(r, n, st, k).nodes[n].retries = k
         /\ \A m \in Nodes \ {n} : OfNode(r, n, st, k).nodes[m] = local[r].nodes[m]
  BY DEF TypeOK, OfNode, RunState, NodeState, StatusIn

\* Others stay where they are.
LEMMA OthersStay ==
  ASSUME IInv, NEW r \in Runs, NEW s \in Runs, s # r, UNCHANGED plan,
         local'[s] = local[s], left'[s] = left[s], cur'[s] = cur[s],
         tries'[s] = tries[s], at'[s] = at[s]
  PROVE  (Sound(local[s]) /\ Place(s))'
<1>1. Cyclic' = Cyclic /\ \A n \in Nodes : Edges(n)' = Edges(n)
  BY DEF Cyclic, Edges
<1>2. /\ Sound(local[s]) /\ Place(s)
  BY DEF IInv
<1>3. Sound(local[s])'
  <2>1. InOrder(local[s])'
    BY <1>1, <1>2 DEF Sound, InOrder, StatusIn, Open_
  <2>2. Truthful(local[s])'
    BY <1>2 DEF Sound, Truthful, StatusIn
  <2>3. InBudget(local[s])'
    BY <1>2 DEF Sound, InBudget, StatusIn
  <2> QED BY <2>1, <2>2, <2>3 DEF Sound
<1>4. Place(s)'
  BY <1>1, <1>2 DEF Place, StatusIn, Open_
<1> QED BY <1>3, <1>4

\* A step of one execution keeps the invariant if it leaves that execution in
\* a sound state at the right place, and writes the file from it or not at all.
LEMMA OneMoves ==
  ASSUME IInv, NEW r \in Runs, TypeOK', UNCHANGED plan, at'[r] # "idle",
         \A s \in Runs \ {r} : /\ local'[s] = local[s] /\ left'[s] = left[s]
                               /\ cur'[s] = cur[s] /\ tries'[s] = tries[s] /\ at'[s] = at[s],
         \/ UNCHANGED <<file, local>> /\ at[r] # "idle"
         \/ file' = local'[r],
         (Sound(local[r]) /\ Place(r))'
  PROVE  IInv'
<1>1. \A s \in Runs : (Sound(local[s]) /\ Place(s))'
  BY OthersStay
<1>2. LastWriter'
  <2>1. CASE UNCHANGED <<file, local>> /\ at[r] # "idle"
    <3>1. PICK s \in Runs : at[s] # "idle" /\ file = local[s]
      BY <2>1 DEF IInv, LastWriter
    <3>2. at'[s] # "idle"
      BY <3>1
    <3> QED BY <2>1, <3>1, <3>2 DEF LastWriter
  <2>2. CASE file' = local'[r]
    BY <2>2 DEF LastWriter
  <2> QED BY <2>1, <2>2
<1> QED BY <1>1, <1>2 DEF IInv

LEMMA TypeStep == ASSUME TypeOK, [Next]_vars PROVE TypeOK'
<1>1. ASSUME NEW r \in Runs, Start(r) PROVE TypeOK'
  BY <1>1, FreshSound DEF Start, Persist, Goto, TypeOK, Places
<1>2. ASSUME NEW r \in Runs, Open(r) PROVE TypeOK'
  BY <1>2 DEF Open, Checkpoint, Goto, TypeOK, Places, Events
<1>3. ASSUME NEW r \in Runs, Take(r) PROVE TypeOK'
  <2>1. PICK n \in left[r] : /\ cur' = [cur EXCEPT ![r] = n]
                             /\ left' = [left EXCEPT ![r] = @ \ {n}]
                             /\ Persist(r, OfNode(r, n, "executing", 0))
    BY <1>3 DEF Take
  <2>2. n \in Nodes /\ OfNode(r, n, "executing", 0) \in RunState
    BY NodeUpdate DEF TypeOK
  <2> QED BY <1>3, <2>1, <2>2 DEF Take, Persist, Goto, TypeOK, Places
<1>4. ASSUME NEW r \in Runs, Attempt(r) PROVE TypeOK'
  <2>1. /\ OfNode(r, cur[r], "completed", tries[r]) \in RunState
        /\ OfNode(r, cur[r], "retrying", tries[r]) \in RunState
    BY NodeUpdate DEF TypeOK
  <2> QED BY <1>4, <2>1 DEF Attempt, Persist, Goto, TypeOK, Places
<1>5. ASSUME NEW r \in Runs, Retry(r) PROVE TypeOK'
  <2>1. OfNode(r, cur[r], "failed", tries[r]) \in RunState
    BY NodeUpdate DEF TypeOK
  <2> QED BY <1>5, <2>1 DEF Retry, Persist, Goto, TypeOK, Places
<1>6. ASSUME NEW r \in Runs, Mark(r) PROVE TypeOK'
  BY <1>6 DEF Mark, Checkpoint, Goto, TypeOK, Places, Events
<1>7. ASSUME NEW r \in Runs, Close(r) PROVE TypeOK'
  <2>1. [local[r] EXCEPT !.status = Outcome(r)] \in RunState
    BY DEF TypeOK, RunState, Outcome
  <2> QED BY <1>7, <2>1 DEF Close, Persist, Goto, TypeOK, Places
<1>8. ASSUME NEW r \in Runs, Seal(r) PROVE TypeOK'
  BY <1>8 DEF Seal, Checkpoint, Goto, TypeOK, Places, Events
<1>9. ASSUME Die PROVE TypeOK'
  BY <1>9 DEF Die, disk, TypeOK, Places
<1>10. ASSUME UNCHANGED vars PROVE TypeOK'
  BY <1>10 DEF vars, TypeOK
<1> QED BY <1>1, <1>2, <1>3, <1>4, <1>5, <1>6, <1>7, <1>8, <1>9, <1>10 DEF Next, Step

LEMMA SoundAt ==
  ASSUME UNCHANGED plan, NEW r \in Runs, NEW s, local'[r] = s, Sound(s)
  PROVE  Sound(local[r])'
<1>1. \A n \in Nodes : Edges(n)' = Edges(n)
  BY DEF Edges
<1>2. InOrder(local[r])'
  BY <1>1 DEF Sound, InOrder, StatusIn, Open_
<1>3. Truthful(local[r])' /\ InBudget(local[r])'
  BY DEF Sound, Truthful, InBudget, StatusIn
<1> QED BY <1>2, <1>3 DEF Sound

LEMMA TakeStep == ASSUME IInv, NEW r \in Runs, Take(r) PROVE IInv'
<1>1. PICK n \in left[r] : /\ Edges(n) \cap left[r] = {}
                           /\ cur' = [cur EXCEPT ![r] = n]
                           /\ left' = [left EXCEPT ![r] = @ \ {n}]
                           /\ Persist(r, OfNode(r, n, "executing", 0))
  BY DEF Take
<1> DEFINE s == OfNode(r, n, "executing", 0)
<1>2. TypeOK /\ TypeOK' /\ n \in Nodes /\ left[r] \subseteq Nodes /\ Edges(n) \subseteq Nodes
  BY TypeStep DEF IInv, Next, Step, TypeOK, Edges
<1>3. /\ s.status = local[r].status /\ StatusIn(s, n) = "executing" /\ s.nodes[n].retries = 0
      /\ \A m \in Nodes \ {n} : s.nodes[m] = local[r].nodes[m]
  BY <1>2, NodeUpdate
<1> HIDE DEF s
<1>4. /\ Sound(local[r]) /\ local[r].status = "started"
      /\ \A m \in Nodes : StatusIn(local[r], m) = "absent" <=> m \in left[r]
      /\ \A m \in Nodes : ~Open_(local[r], m)
  BY DEF IInv, Place, Take
<1>5. \A m \in Nodes \ {n} : StatusIn(s, m) = StatusIn(local[r], m)
  BY <1>3 DEF StatusIn
<1>6. \A d \in Edges(n) : d # n /\ StatusIn(s, d) = "completed"
  BY <1>1, <1>2, <1>4, <1>5 DEF Open_
<1>7. InOrder(s)
  <2>1. ASSUME NEW m \in Nodes, StatusIn(s, m) # "absent", NEW d \in Edges(m)
        PROVE  StatusIn(s, d) = "completed"
    <3>1. CASE m = n
      BY <3>1, <2>1, <1>6
    <3>2. CASE m # n
      <4>1. StatusIn(local[r], d) = "completed" /\ d \in Nodes
        BY <1>4, <1>5, <2>1, <3>2 DEF Sound, InOrder, Edges
      <4> QED BY <4>1, <1>1, <1>2, <1>4, <1>5
    <3> QED BY <3>1, <3>2
  <2>2. ASSUME NEW m \in Nodes, Open_(s, m) PROVE m = n
    BY <2>2, <1>4, <1>5 DEF Open_
  <2> QED BY <2>1, <2>2 DEF InOrder
<1>8. Truthful(s) /\ InBudget(s)
  <2>1. Truthful(s)
    BY <1>3, <1>4 DEF Truthful
  <2>2. plan.limit \in [Nodes -> Nat]
    BY <1>2 DEF TypeOK
  <2>3. ASSUME NEW m \in Nodes PROVE /\ s.nodes[m].retries <= plan.limit[m]
                                     /\ StatusIn(s, m) = "failed" => s.nodes[m].retries = plan.limit[m]
    BY <1>3, <1>4, <1>5, <2>2 DEF Sound, InBudget
  <2> QED BY <2>1, <2>3 DEF InBudget
<1>9. /\ local'[r] = s /\ file' = s /\ left'[r] = left[r] \ {n} /\ cur'[r] = n
      /\ tries'[r] = 0 /\ at'[r] = "attempt" /\ UNCHANGED plan
      /\ \A q \in Runs \ {r} : /\ local'[q] = local[q] /\ left'[q] = left[q]
                               /\ cur'[q] = cur[q] /\ tries'[q] = tries[q] /\ at'[q] = at[q]
  BY <1>1, <1>2 DEF Take, Persist, Goto, TypeOK, s
<1>10. Sound(local[r])'
  BY <1>7, <1>8, <1>9, SoundAt DEF Sound
<1>11. Place(r)'
  <2>1. plan.limit \in [Nodes -> Nat]
    BY <1>2 DEF TypeOK
  <2>2. Open_(s, n) /\ s.status = "started"
    BY <1>3, <1>4 DEF Open_
  <2>3. \A m \in Nodes : StatusIn(s, m) = "absent" <=> m \in left[r] \ {n}
    BY <1>3, <1>4, <1>5
  <2> QED BY <1>2, <1>9, <2>1, <2>2, <2>3 DEF Place, StatusIn, Open_
<1> QED BY <1>2, <1>9, <1>10, <1>11, OneMoves

\* The node at work is completed, to be retried or given up.
LEMMA NodeStep ==
  ASSUME IInv, TypeOK', NEW r \in Runs, UNCHANGED <<plan, left, cur, tries>>,
         at[r] \in {"attempt", "retry"},
         NEW st \in {"completed", "retrying", "failed"}, NEW place,
         st = "failed" => tries[r] = plan.limit[cur[r]],
         place = IF st = "completed" THEN "mark" ELSE IF st = "failed" THEN "failing" ELSE "retry",
         Persist(r, OfNode(r, cur[r], st, tries[r])), Goto(r, place)
  PROVE  IInv'
<1> DEFINE n == cur[r]
           s == OfNode(r, n, st, tries[r])
<1>1. TypeOK /\ n \in Nodes /\ tries[r] \in Nat /\ plan.limit \in [Nodes -> Nat]
  BY DEF IInv, TypeOK
<1>2. /\ s.status = local[r].status /\ StatusIn(s, n) = st /\ s.nodes[n].retries = tries[r]
      /\ \A m \in Nodes \ {n} : s.nodes[m] = local[r].nodes[m]
  BY <1>1, NodeUpdate
<1>3. /\ local'[r] = s /\ file' = s /\ at'[r] = place
      /\ \A q \in Runs \ {r} : local'[q] = local[q] /\ at'[q] = at[q]
  BY <1>1 DEF Persist, Goto, TypeOK
<1> HIDE DEF s
<1>4. /\ Sound(local[r]) /\ local[r].status = "started"
      /\ \A m \in Nodes : StatusIn(local[r], m) = "absent" <=> m \in left[r]
      /\ Open_(local[r], n) /\ tries[r] <= plan.limit[n]
  BY DEF IInv, Place
<1>5. \A m \in Nodes \ {n} : StatusIn(s, m) = StatusIn(local[r], m)
  BY <1>2 DEF StatusIn
<1>6. InOrder(s)
  <2>1. ASSUME NEW m \in Nodes, StatusIn(s, m) # "absent", NEW d \in Edges(m)
        PROVE  StatusIn(s, d) = "completed"
    <3>1. StatusIn(local[r], m) # "absent"
      BY <1>4, <1>5, <2>1 DEF Open_
    <3>2. StatusIn(local[r], d) = "completed" /\ d \in Nodes
      BY <1>4, <2>1, <3>1 DEF Sound, InOrder, Edges
    <3> QED BY <1>4, <1>5, <3>2 DEF Open_
  <2>2. ASSUME NEW m \in Nodes, Open_(s, m) PROVE m = n
    BY <2>2, <1>1, <1>4, <1>5 DEF Open_, Sound, InOrder
  <2> QED BY <2>1, <2>2 DEF InOrder
<1>7. Truthful(s) /\ InBudget(s)
  <2>1. Truthful(s)
    BY <1>2, <1>4 DEF Truthful
  <2>2. ASSUME NEW m \in Nodes PROVE /\ s.nodes[m].retries <= plan.limit[m]
                                     /\ StatusIn(s, m) = "failed" => s.nodes[m].retries = plan.limit[m]
    BY <1>1, <1>2, <1>4, <1>5 DEF Sound, InBudget
  <2> QED BY <2>1, <2>2 DEF InBudget
<1>8. Sound(local[r])'
  BY <1>3, <1>6, <1>7, SoundAt DEF Sound
<1>9. Place(r)'
  <2>1. \A m \in Nodes : StatusIn(s, m) = "absent" <=> m \in left[r]
    BY <1>2, <1>4, <1>5 DEF Open_
  <2>2. st = "completed" => \A m \in Nodes : ~Open_(s, m)
    BY <1>1, <1>2, <1>4, <1>5 DEF Open_, Sound, InOrder
  <2>3. st # "completed" => Open_(s, n)
    BY <1>2 DEF Open_
  <2> QED BY <1>1, <1>2, <1>3, <1>4, <2>1, <2>2, <2>3 DEF Place, StatusIn, Open_
<1> QED BY <1>3, <1>8, <1>9, OneMoves

LEMMA StartStep == ASSUME IInv, NEW r \in Runs, Start(r) PROVE IInv'
<1>1. TypeOK /\ TypeOK' /\ Sound(Fresh)
  BY TypeStep, FreshSound DEF IInv, Next
<1>2. /\ local'[r] = Fresh /\ file' = Fresh /\ at'[r] = "opened" /\ UNCHANGED <<plan, left, cur, tries>>
      /\ \A q \in Runs \ {r} : local'[q] = local[q] /\ at'[q] = at[q]
  BY <1>1 DEF Start, Persist, Goto, TypeOK
<1>3. Sound(local[r])'
  BY <1>1, <1>2, SoundAt
<1>4. left[r] = Nodes
  BY DEF IInv, Place, Start
<1>5. Place(r)'
  BY <1>2, <1>4 DEF Place, StatusIn, Open_, Fresh, Untried
<1> QED BY <1>1, <1>2, <1>3, <1>5, OneMoves

\* Steps that write a checkpoint move on and change nothing else.
LEMMA CheckpointStep ==
  ASSUME IInv, NEW r \in Runs, Open(r) \/ Mark(r) \/ Seal(r)
  PROVE  IInv'
<1>1. TypeOK /\ TypeOK' /\ Sound(local[r]) /\ Place(r)
  BY TypeStep DEF IInv, Next, Step
<1>2. /\ UNCHANGED <<plan, file, local, left, cur, tries>> /\ at[r] # "idle"
      /\ \/ at[r] \in {"opened", "mark"} /\ at'[r] = "next"
         \/ at[r] = "opened" /\ at'[r] = "done" /\ Cyclic
         \/ at[r] = "seal" /\ at'[r] = "done"
      /\ \A q \in Runs \ {r} : at'[q] = at[q]
  BY <1>1 DEF Open, Mark, Seal, Goto, TypeOK
<1>3. Sound(local[r])'
  BY <1>1, <1>2, SoundAt
<1>4. Cyclic' = Cyclic
  BY <1>2 DEF Cyclic, Edges
<1>5. Place(r)'
  BY <1>1, <1>2, <1>4 DEF Place, StatusIn, Open_
<1> QED BY <1>1, <1>2, <1>3, <1>5, OneMoves

LEMMA AttemptStep == ASSUME IInv, NEW r \in Runs, Attempt(r) PROVE IInv'
<1>1. TypeOK /\ TypeOK' /\ Sound(local[r]) /\ Place(r) /\ UNCHANGED <<plan, left, cur, tries>>
  BY TypeStep DEF IInv, Next, Step, Attempt
<1>2. CASE Persist(r, OfNode(r, cur[r], "completed", tries[r])) /\ Goto(r, "mark")
  BY <1>1, <1>2, NodeStep DEF Attempt
<1>3. CASE Persist(r, OfNode(r, cur[r], "retrying", tries[r])) /\ Goto(r, "retry")
  BY <1>1, <1>3, NodeStep DEF Attempt
<1>4. CASE Goto(r, "failing") /\ UNCHANGED <<file, local>>
  <2>1. /\ at[r] = "attempt" /\ at'[r] = "failing"
        /\ \A q \in Runs \ {r} : at'[q] = at[q]
    BY <1>1, <1>4 DEF Attempt, Goto, TypeOK
  <2>2. Sound(local[r])'
    BY <1>1, <1>4, SoundAt
  <2>3. Place(r)'
    BY <1>1, <1>4, <2>1 DEF Place, StatusIn, Open_
  <2> QED BY <1>1, <1>4, <2>1, <2>2, <2>3, OneMoves
<1> QED BY <1>2, <1>3, <1>4 DEF Attempt

LEMMA RetryStep == ASSUME IInv, NEW r \in Runs, Retry(r) PROVE IInv'
<1>1. TypeOK /\ TypeOK' /\ Sound(local[r]) /\ Place(r) /\ UNCHANGED <<plan, left, cur>>
  BY TypeStep DEF IInv, Next, Step, Retry
<1>2. tries[r] \in Nat /\ plan.limit[cur[r]] \in Nat /\ tries[r] <= plan.limit[cur[r]]
  BY <1>1 DEF TypeOK, Place, Retry
<1>3. CASE tries[r] < plan.limit[cur[r]]
  <2>1. /\ tries'[r] = tries[r] + 1 /\ at'[r] = "attempt" /\ at[r] = "retry"
        /\ UNCHANGED <<file, local>>
        /\ \A q \in Runs \ {r} : at'[q] = at[q] /\ tries'[q] = tries[q]
    BY <1>1, <1>3 DEF Retry, Goto, TypeOK
  <2>2. Sound(local[r])'
    BY <1>1, <2>1, SoundAt
  <2>3. Place(r)'
    BY <1>1, <1>2, <1>3, <2>1 DEF Place, StatusIn, Open_
  <2> QED BY <1>1, <2>1, <2>2, <2>3, OneMoves
<1>4. CASE ~(tries[r] < plan.limit[cur[r]])
  <2>1. tries[r] = plan.limit[cur[r]]
    BY <1>2, <1>4
  <2> QED BY <1>1, <1>4, <2>1, NodeStep DEF Retry
<1> QED BY <1>3, <1>4

LEMMA CloseStep == ASSUME IInv, NEW r \in Runs, Close(r) PROVE IInv'
<1> DEFINE s == [local[r] EXCEPT !.status = Outcome(r)]
<1>1. TypeOK /\ TypeOK' /\ Sound(local[r]) /\ Place(r) /\ UNCHANGED <<plan, left, cur, tries>>
  BY TypeStep DEF IInv, Next, Step, Close
<1>2. s.nodes = local[r].nodes /\ s.status = Outcome(r)
  BY <1>1 DEF TypeOK, RunState
<1>3. /\ local'[r] = s /\ file' = s /\ at'[r] = "seal"
      /\ \A q \in Runs \ {r} : local'[q] = local[q] /\ at'[q] = at[q]
  BY <1>1 DEF Close, Persist, Goto, TypeOK
<1> HIDE DEF s
<1>4. Sound(s)
  <2>1. InOrder(s) /\ InBudget(s)
    BY <1>1, <1>2 DEF Sound, InOrder, InBudget, StatusIn, Open_
  <2>2. CASE at[r] = "failing"
    <3>1. s.status = "failed" /\ StatusIn(s, cur[r]) # "completed" /\ cur[r] \in Nodes
      BY <1>1, <1>2, <2>2 DEF Outcome, Place, Open_, StatusIn, TypeOK
    <3> QED BY <2>1, <3>1 DEF Sound, Truthful
  <2>3. CASE at[r] = "next" /\ left[r] = {}
    <3>1. s.status = "completed" /\ \A n \in Nodes : StatusIn(s, n) = "completed"
      BY <1>1, <1>2, <2>3 DEF Outcome, Place, Open_, StatusIn
    <3> QED BY <2>1, <3>1 DEF Sound, Truthful
  <2> QED BY <2>2, <2>3 DEF Close, Ended
<1>5. Sound(local[r])'
  BY <1>1, <1>3, <1>4, SoundAt
<1>6. Place(r)'
  BY <1>1, <1>2, <1>3 DEF Place, StatusIn, Open_, Outcome, Close, Ended
<1> QED BY <1>1, <1>3, <1>5, <1>6, OneMoves

LEMMA DieStep == ASSUME IInv, Die PROVE IInv'
<1>1. TypeOK' /\ UNCHANGED <<plan, file, local, left, cur, tries>>
  BY TypeStep DEF IInv, Next, Die, disk
<1>2. \A r \in Runs : (at'[r] = "dead" /\ at[r] # "idle") \/ at'[r] = at[r]
  BY DEF Die, Running
<1>3. Cyclic' = Cyclic
  BY <1>1 DEF Cyclic, Edges
<1>4. ASSUME NEW r \in Runs PROVE (Sound(local[r]) /\ Place(r))'
  <2>1. Sound(local[r]) /\ Place(r)
    BY DEF IInv
  <2>2. Sound(local[r])'
    BY <1>1, <2>1, SoundAt
  <2> QED BY <1>1, <1>2, <1>3, <2>1, <2>2 DEF Place, StatusIn, Open_
<1>5. LastWriter'
  BY <1>1, <1>2 DEF IInv, LastWriter
<1> QED BY <1>1, <1>4, <1>5 DEF IInv

LEMMA Inductive == Spec => []IInv
<1>1. ASSUME IInv, [Next]_vars PROVE IInv'
  <2>1. CASE UNCHANGED vars
    <3>1. UNCHANGED <<plan, file, local, left, cur, tries, at>>
      BY <2>1 DEF vars
    <3>2. Cyclic' = Cyclic
      BY <3>1 DEF Cyclic, Edges
    <3>3. ASSUME NEW r \in Runs PROVE (Sound(local[r]) /\ Place(r))'
      <4>1. Sound(local[r]) /\ Place(r)
        BY <1>1 DEF IInv
      <4>2. Sound(local[r])'
        BY <3>1, <4>1, SoundAt
      <4> QED BY <3>1, <3>2, <4>1, <4>2 DEF Place, StatusIn, Open_
    <3>4. TypeOK' /\ LastWriter'
      BY <1>1, <3>1, TypeStep DEF IInv, LastWriter
    <3> QED BY <3>3, <3>4 DEF IInv
  <2> QED BY <1>1, <2>1, StartStep, CheckpointStep, TakeStep, AttemptStep, RetryStep,
             CloseStep, DieStep DEF Next, Step
<1> QED BY InitOK, <1>1, PTL DEF Spec

\* The file is the memory of an execution, or nothing yet.
LEMMA FileSound == ASSUME IInv PROVE Sound(file)
<1>1. CASE file = None
  BY <1>1 DEF IInv, TypeOK, None, Untried, Sound, InOrder, Truthful, InBudget, StatusIn, Open_
<1> QED BY <1>1 DEF IInv, LastWriter

\* The types of the variables.
THEOREM TypeCorrect == Spec => []TypeOK
  BY Inductive, PTL DEF IInv

\* Whoever wrote the run state last, the nodes in it were begun one at a time
\* and after the dependencies they have in the plan.
THEOREM FileTellsOrder == Spec => []StoryInOrder
<1>1. IInv => StoryInOrder
  BY FileSound DEF Sound, InOrder, StoryInOrder, StatusIn, Open_, Status, Edges
<1> QED BY <1>1, Inductive, PTL

\* A run on record as completed has all its nodes completed, one on record as
\* failed has not.
THEOREM FileTellsOutcome == Spec => []OutcomeIsTrue
<1>1. IInv => OutcomeIsTrue
  BY FileSound DEF Sound, Truthful, OutcomeIsTrue, StatusIn, Status
<1> QED BY <1>1, Inductive, PTL

\* Retries stay within the limit of the node and use it up before giving up.
THEOREM RetriesBounded == Spec => []RetryBudget
<1>1. IInv => RetryBudget
  BY FileSound DEF Sound, InBudget, RetryBudget, StatusIn, Status
<1> QED BY <1>1, Inductive, PTL

\* When every execution has returned, the file says how the last to write ended.
THEOREM ReturnsAreRecorded == Runs # {} /\ Spec => []ReturnIsRecorded
<1>1. ASSUME Runs # {} PROVE IInv => ReturnIsRecorded
  BY <1>1 DEF IInv, LastWriter, Place, ReturnIsRecorded
<1>2. ASSUME Runs # {} PROVE Spec => []ReturnIsRecorded
  BY <1>1, <1>2, Inductive, PTL
<1> QED BY <1>2

\* Types and outcome together.
THEOREM RecordIsSound == Spec => []RecordSound
  BY TypeCorrect, FileTellsOutcome, PTL DEF RecordSound

-----------------------------------------------------------------------------
(* The checkpoints keep up with the run state                              *)

Done(r) == {n \in Nodes : StatusIn(local[r], n) = "completed"}

\* An execution alone has a milestone for each node it has completed, but the one
\* it is about to write, and its next checkpoint is a new one.
InStep(r) ==
  /\ IsFiniteSet(Milestones) /\ \A c \in Milestones : c[1] < seq[r]
  /\ at[r] # "dead" =>
       Cardinality(Done(r)) = Cardinality(Milestones) + (IF at[r] = "mark" THEN 1 ELSE 0)
  /\ at[r] = "dead" => Cardinality(Done(r)) - Cardinality(Milestones) \in {0, 1}
KeepUp ==
  /\ (\A r \in Runs : at[r] = "idle") => cps = {}
  /\ OnlyOne => \A r \in Runs : at[r] # "idle" => InStep(r)

LEMMA DoneFinite ==
  ASSUME NEW r \in Runs
  PROVE  IsFiniteSet(Done(r)) /\ Cardinality(Done(r)) \in Nat
<1>1. IsFiniteSet(Done(r))
  BY FS_Subset DEF Done
<1> QED BY <1>1, FS_CardinalityType

\* A step of an execution under way.
LEMMA OneKeepsUp ==
  ASSUME KeepUp, NEW r \in Runs, at[r] # "idle", at'[r] # "idle",
         \A q \in Runs \ {r} : at'[q] = at[q], InStep(r) => InStep(r)'
  PROVE  KeepUp'
<1>1. OnlyOne' => OnlyOne
  BY DEF OnlyOne
<1>2. OnlyOne' => \A q \in Runs : at'[q] # "idle" => q = r
  BY DEF OnlyOne
<1> QED BY <1>1, <1>2 DEF KeepUp

\* One that changes neither the completed nodes nor the milestones.
LEMMA NothingDone ==
  ASSUME IInv, KeepUp, NEW r \in Runs, at[r] \notin {"idle", "mark", "dead"},
         at'[r] \notin {"idle", "mark", "dead"}, \A q \in Runs \ {r} : at'[q] = at[q],
         \A n \in Nodes : StatusIn(local[r], n)' = "completed" <=> StatusIn(local[r], n) = "completed",
         Milestones' = Milestones, seq'[r] \in {seq[r], seq[r] + 1}
  PROVE  KeepUp'
<1>1. Done(r)' = Done(r)
  BY DEF Done
<1>2. seq[r] \in Nat /\ \A c \in Milestones : c[1] \in Nat
  BY DEF IInv, TypeOK, Milestones
<1>3. InStep(r) => InStep(r)'
  <2>1. (\A c \in Milestones : c[1] < seq[r]) => \A c \in Milestones : c[1] < seq'[r]
    BY <1>2
  <2> QED BY <1>1, <2>1 DEF InStep
<1> QED BY <1>3, OneKeepsUp

LEMMA StartKeepsUp == ASSUME IInv, KeepUp, NEW r \in Runs, Start(r) PROVE KeepUp'
<1>1. /\ at[r] = "idle" /\ at'[r] = "opened" /\ local'[r] = Fresh /\ cps' = cps
      /\ \A q \in Runs \ {r} : at'[q] = at[q]
  BY DEF IInv, TypeOK, Start, Persist, Goto
<1>2. ASSUME OnlyOne' PROVE InStep(r)'
  <2>1. \A q \in Runs : at[q] = "idle"
    BY <1>1, <1>2 DEF OnlyOne
  <2>2. Milestones' = {} /\ Done(r)' = {}
    BY <1>1, <2>1 DEF KeepUp, Milestones, Done, StatusIn, Fresh, Untried
  <2> QED BY <1>1, <2>2, FS_EmptySet DEF InStep
<1>3. OnlyOne' => \A q \in Runs : at'[q] # "idle" => q = r
  BY <1>1 DEF OnlyOne
<1> QED BY <1>1, <1>2, <1>3 DEF KeepUp

LEMMA MarkKeepsUp == ASSUME IInv, KeepUp, NEW r \in Runs, Mark(r) PROVE KeepUp'
<1> DEFINE c == <<seq[r], "node_completed">>
<1>1. /\ at[r] = "mark" /\ at'[r] = "next" /\ local' = local
      /\ seq[r] \in Nat /\ seq'[r] = seq[r] + 1 /\ cps' = cps \cup {c}
      /\ \A q \in Runs \ {r} : at'[q] = at[q]
  BY DEF IInv, TypeOK, Mark, Checkpoint, Goto
<1>2. Milestones' = Milestones \cup {c}
  BY <1>1 DEF Milestones
<1>3. c[1] = seq[r] /\ \A d \in Milestones : d[1] \in Nat
  BY DEF IInv, TypeOK, Milestones
<1> HIDE DEF c
<1>4. Done(r)' = Done(r)
  BY <1>1 DEF Done, StatusIn
<1>5. ASSUME InStep(r) PROVE InStep(r)'
  <2>1. c \notin Milestones
    BY <1>1, <1>3, <1>5 DEF InStep
  <2>2. IsFiniteSet(Milestones') /\ Cardinality(Milestones') = Cardinality(Milestones) + 1
    BY <1>2, <1>5, <2>1, FS_AddElement DEF InStep
  <2>3. Cardinality(Milestones) \in Nat
    BY <1>5, FS_CardinalityType DEF InStep
  <2>4. \A d \in Milestones' : d[1] < seq'[r]
    BY <1>1, <1>2, <1>3, <1>5 DEF InStep
  <2> QED BY <1>1, <1>4, <1>5, <2>2, <2>3, <2>4 DEF InStep
<1> QED BY <1>1, <1>5, OneKeepsUp

LEMMA AttemptKeepsUp == ASSUME IInv, KeepUp, NEW r \in Runs, Attempt(r) PROVE KeepUp'
<1>1. /\ TypeOK /\ at[r] = "attempt" /\ cur[r] \in Nodes /\ tries[r] \in Nat
      /\ StatusIn(local[r], cur[r]) # "completed" /\ cps' = cps /\ seq' = seq
  BY DEF IInv, TypeOK, Place, Attempt, Open_
<1>2. Milestones' = Milestones
  BY <1>1 DEF Milestones
<1>3. CASE Persist(r, OfNode(r, cur[r], "completed", tries[r])) /\ Goto(r, "mark")
  <2>1. /\ local'[r] = OfNode(r, cur[r], "completed", tries[r]) /\ at'[r] = "mark"
        /\ \A q \in Runs \ {r} : at'[q] = at[q]
    BY <1>1, <1>3 DEF Persist, Goto, TypeOK
  <2>2. \A n \in Nodes : StatusIn(local'[r], n) = IF n = cur[r] THEN "completed" ELSE StatusIn(local[r], n)
    BY <1>1, <2>1, NodeUpdate DEF StatusIn
  <2>3. Done(r)' = Done(r) \cup {cur[r]} /\ cur[r] \notin Done(r)
    BY <1>1, <2>2 DEF Done, StatusIn
  <2>4. Cardinality(Done(r)') = Cardinality(Done(r)) + 1
    BY <2>3, DoneFinite, FS_AddElement
  <2>5. ASSUME InStep(r) PROVE InStep(r)'
    <3>1. Cardinality(Milestones) \in Nat
      BY <2>5, FS_CardinalityType DEF InStep
    <3> QED BY <1>1, <1>2, <2>1, <2>4, <2>5, <3>1 DEF InStep
  <2> QED BY <1>1, <2>1, <2>5, OneKeepsUp
<1>4. CASE Persist(r, OfNode(r, cur[r], "retrying", tries[r])) /\ Goto(r, "retry")
  <2>1. /\ local'[r] = OfNode(r, cur[r], "retrying", tries[r]) /\ at'[r] = "retry"
        /\ \A q \in Runs \ {r} : at'[q] = at[q]
    BY <1>1, <1>4 DEF Persist, Goto, TypeOK
  <2>2. \A n \in Nodes : StatusIn(local'[r], n) = "completed" <=> StatusIn(local[r], n) = "completed"
    BY <1>1, <2>1, NodeUpdate DEF StatusIn
  <2> QED BY <1>1, <1>2, <2>1, <2>2, NothingDone DEF StatusIn
<1>5. CASE Goto(r, "failing") /\ UNCHANGED <<file, local>>
  <2>1. at'[r] = "failing" /\ \A q \in Runs \ {r} : at'[q] = at[q]
    BY <1>1, <1>5 DEF Goto, TypeOK
  <2> QED BY <1>1, <1>2, <1>5, <2>1, NothingDone DEF StatusIn
<1> QED BY <1>3, <1>4, <1>5 DEF Attempt

LEMMA QuietKeepsUp ==
  ASSUME IInv, KeepUp, NEW r \in Runs, Open(r) \/ Take(r) \/ Retry(r) \/ Close(r) \/ Seal(r)
  PROVE  KeepUp'
<1>1. TypeOK /\ Place(r)
  BY DEF IInv
<1>2. /\ at[r] \in {"opened", "next", "retry", "failing", "seal"}
      /\ at'[r] \in {"next", "attempt", "failing", "seal", "done"}
      /\ \A q \in Runs \ {r} : at'[q] = at[q]
  BY <1>1 DEF Open, Take, Retry, Close, Seal, Ended, Goto, TypeOK
<1>3. Milestones' = Milestones /\ seq'[r] \in {seq[r], seq[r] + 1}
  BY <1>1 DEF Open, Take, Retry, Close, Seal, Checkpoint, Milestones, TypeOK
<1>4. \A n \in Nodes : StatusIn(local'[r], n) = "completed" <=> StatusIn(local[r], n) = "completed"
  <2>1. CASE Open(r) \/ Seal(r)
    BY <2>1 DEF Open, Seal
  <2>2. CASE Take(r)
    <3>1. PICK n \in left[r] : Persist(r, OfNode(r, n, "executing", 0))
      BY <2>2 DEF Take
    <3>2. n \in Nodes /\ StatusIn(local[r], n) = "absent"
      BY <1>1, <2>2, <3>1 DEF TypeOK, Place, Take
    <3>3. local'[r] = OfNode(r, n, "executing", 0)
      BY <1>1, <3>1 DEF Persist, TypeOK
    <3> QED BY <1>1, <3>2, <3>3, NodeUpdate DEF StatusIn
  <2>3. CASE Retry(r)
    <3>1. local' = local \/ local'[r] = OfNode(r, cur[r], "failed", tries[r])
      BY <1>1, <2>3 DEF Retry, Persist, TypeOK
    <3>2. cur[r] \in Nodes /\ tries[r] \in Nat /\ StatusIn(local[r], cur[r]) # "completed"
      BY <1>1, <2>3 DEF TypeOK, Place, Retry, Open_
    <3>3. CASE local' = local BY <3>3
    <3>4. CASE local'[r] = OfNode(r, cur[r], "failed", tries[r])
      BY <1>1, <3>2, <3>4, NodeUpdate DEF StatusIn
    <3> QED BY <3>1, <3>3, <3>4
  <2>4. CASE Close(r)
    <3>1. local'[r].nodes = local[r].nodes
      BY <1>1, <2>4 DEF Close, Persist, TypeOK, RunState
    <3> QED BY <3>1 DEF StatusIn
  <2> QED BY <2>1, <2>2, <2>3, <2>4
<1> QED BY <1>2, <1>3, <1>4, NothingDone DEF StatusIn

LEMMA DieKeepsUp == ASSUME IInv, KeepUp, Die PROVE KeepUp'
<1>1. UNCHANGED <<cps, local, seq>>
  BY DEF Die, disk
<1>2. \A r \in Runs : (at'[r] = "dead" /\ at[r] # "idle") \/ at'[r] = at[r]
  BY DEF Die, Running
<1>3. ASSUME NEW r \in Runs, InStep(r) PROVE InStep(r)'
  <2>1. Milestones' = Milestones /\ Done(r)' = Done(r)
    BY <1>1 DEF Milestones, Done, StatusIn
  <2>2. Cardinality(Milestones) \in Nat /\ Cardinality(Done(r)) \in Nat
    BY <1>3, DoneFinite, FS_CardinalityType DEF InStep
  <2>3. Cardinality(Done(r)) - Cardinality(Milestones) \in {0, 1}
    BY <1>3, <2>2 DEF InStep
  <2> QED BY <1>1, <1>2, <1>3, <2>1, <2>3 DEF InStep
<1>4. OnlyOne' => OnlyOne
  BY <1>2 DEF OnlyOne
<1> QED BY <1>1, <1>2, <1>3, <1>4 DEF KeepUp

\* The first execution of a plan, as long as there is no other, has a checkpoint for
\* each node its file has on record as completed, but for the one it dies or works on.
THEOREM MilestonesKeepUp == Spec => []CheckpointsKeepUp
<1>1. Init => KeepUp
  BY DEF Init, KeepUp
<1>2. ASSUME IInv, KeepUp, [Next]_vars PROVE KeepUp'
  <2>1. CASE UNCHANGED vars
    BY <1>2, <2>1 DEF vars, KeepUp, OnlyOne, InStep, Milestones, Done, StatusIn
  <2> QED BY <1>2, <2>1, StartKeepsUp, MarkKeepsUp, AttemptKeepsUp, QuietKeepsUp, DieKeepsUp
          DEF Next, Step
<1>3. ASSUME IInv, KeepUp PROVE CheckpointsKeepUp
  <2> SUFFICES ASSUME OnlyOne, file.status # "none"
               PROVE  Cardinality(Completed) - Cardinality(Milestones) \in {0, 1}
    BY DEF CheckpointsKeepUp
  <2>1. PICK r \in Runs : at[r] # "idle" /\ file = local[r]
    BY <1>3 DEF IInv, LastWriter, None
  <2>2. Completed = Done(r) /\ InStep(r)
    BY <1>3, <2>1 DEF Completed, Status, Done, StatusIn, KeepUp
  <2>3. Cardinality(Milestones) \in Nat /\ Cardinality(Done(r)) \in Nat
    BY <2>2, DoneFinite, FS_CardinalityType DEF InStep
  <2> QED BY <2>2, <2>3 DEF InStep
<1> QED BY <1>1, <1>2, <1>3, Inductive, PTL DEF Spec
=============================================================================
