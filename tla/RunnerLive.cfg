SPECIFICATION FairSpec
CONSTANTS
  None = None
  Sessions = {s1}
  Prompts = {p1, p2}
  Workers = {w1}
  Interrupters = {i1}
  Deleters = {d1}
  Steps = 1
  MayAsk = FALSE
  MayApprove = TRUE
  MayThrow = FALSE
PROPERTIES
  DeleteEnds
  ShutdownEnds
  InterruptStops
  QueuedRuns
CHECK_DEADLOCK FALSE
