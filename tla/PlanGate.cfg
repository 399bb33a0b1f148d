SPECIFICATION FairSpec
CONSTANTS
  c1 = c1 c2 = c2 q1 = q1 q2 = q2 q3 = q3 None = None
  Conns = {c1, c2}
  Requests = {q1, q2, q3}
  Of <- TwoConns
  MaxNodes = 2
  MaxHazardous = 3
  SelfCalls = TRUE
CHECK_DEADLOCK FALSE
INVARIANTS PlanSound  MutationsArePlanned PlansPass
PROPERTIES AllAnswered
