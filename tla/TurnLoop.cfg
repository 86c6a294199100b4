SPECIFICATION FairSpec
CONSTANTS
  MaxSteps = 2
  MaxTodos = 7
  MaxTurns = 2
  Compacting = FALSE
  Continues = TRUE
INVARIANTS
  StepsEarned
  NoReplay
PROPERTIES
  TurnEnds
CHECK_DEADLOCK FALSE
