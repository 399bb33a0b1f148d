SPECIFICATION Spec
CONSTANTS
  c1 = c1 f1 = f1 f2 = f2
  Clients = {c1}
  Files = {f1, f2}
  Programs <- OneAndOthers
  MaxLen = 4
  MAX_DSL_DEPTH = 3
  MAX_DSL_NODES = 3
PROPERTY RollbackUndoesEdits
