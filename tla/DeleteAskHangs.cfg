SPECIFICATION FairSpec
CONSTANTS
  None = None
  Sessions = {s1}
  Prompts = {p1}
  Workers = {w1}
  Interrupters = {}
  Deleters = {d1}
  Steps = 1
  MayAsk = TRUE
  MayApprove = FALSE
  MayThrow = FALSE
PROPERTIES
  DeleteEnds
CHECK_DEADLOCK FALSE
