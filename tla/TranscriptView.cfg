CONSTANTS
  a = a
  b = b
  Sessions <- TwoSessions
  Talking <- OneTalks
  MaxPrompts = 1
  MaxSteps = 2
  MaxBytes = 2
  MaxCalls = 2
  MaxLoads = 2
  MaxQueue = 3
SPECIFICATION Spec
CHECK_DEADLOCK FALSE
INVARIANTS RowsTold TextTold BatchAnswered
