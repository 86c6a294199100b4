SPECIFICATION Spec
CONSTANTS
  None = None
  Sessions = {s1}
  Prompts = {p1, p2}
  Workers = {w1, w2}
  Interrupters = {i1, i2}
  Deleters = {d1, d2}
  Steps = 1
  MayAsk = TRUE
  MayApprove = TRUE
  MayThrow = TRUE
SYMMETRY Symmetry
CONSTRAINT OneDeleteAtATime
INVARIANTS
  TypeOK
  OneRunner
  NoStrandedPrompt
  PromptsInOrder
  RowsLast
  HeldFlagAlive
  NextTurnNotPoisoned
PROPERTIES
  PromptRowsStay
CHECK_DEADLOCK FALSE
