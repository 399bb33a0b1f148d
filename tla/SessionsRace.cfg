SPECIFICATION SessionsSpec
CONSTANTS
  p = p q = q t1 = t1 t2 = t2
  Contexts = {p, q}
  Pids = {p, q}
  PidOf <- OwnProcess
  Txs = {t1}
  Circumstances <- AllCircumstances
  NoLock = NoLock Blank = Blank NoTx = NoTx
SYMMETRY Symmetry
INVARIANT NeverTwoWriters
