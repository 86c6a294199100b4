SPECIFICATION Spec
CONSTANTS
  None = None
  Sessions = {s1}
  Prompts = {p1}
  Workers = {w1}
  Interrupters = {}
  Deleters = {d1, d2}
  Steps = 1
  MayAsk = FALSE
  MayApprove = FALSE
  MayThrow = FALSE
INVARIANTS
  RowsAlwaysLast
CHECK_DEADLOCK FALSE
