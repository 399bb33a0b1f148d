SPECIFICATION MCSpec
CONSTANTS
  Nodes = {n1, n2}
  Plans <- AllPlans
  Runs = {r1, r2}
  Stray = {t}
  MaxRetries = 1
  p = p q = q t1 = t1 t2 = t2 NoLock = NoLock Blank = Blank NoTx = NoTx
  Contexts = {p, q} Pids = {p, q} Txs = {t1, t2}
  PidOf <- OwnProcess
  Circumstances <- AllCircumstances
  Lines <- AllLines
  MaxLines = 2 ChannelCap = 1 MaxEvents = 1
CHECK_DEADLOCK FALSE
INVARIANTS RecordSound StoryInOrder RetryBudget ReturnIsRecorded CheckpointsKeepUp
  WorkSound OneWriter
PROPERTIES RunsEnd StaleLockYields ServesAll
