SPECIFICATION Spec
CONSTANTS
  None = None
  Sessions = {s1, s2}
  Prompts = {p1}
  Workers = {w1, w2}
  Interrupters = {i1}
  Deleters = {d1}
  Steps = 1
  MayAsk = FALSE
  MayApprove = TRUE
  MayThrow = FALSE
SYMMETRY Symmetry
PROPERTIES
  StopsOnlyItsRun
CHECK_DEADLOCK FALSE
