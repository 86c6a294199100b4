CONSTANTS
  a = a
  b = b
  n1 = n1
  n2 = n2
  n3 = n3
  NoWait = NoWait
  Sessions <- Both
  Calls <- MCCalls
  Documents <- MCDocuments
  Globs <- MCGlobs
  Working <- One
  Budgets <- MCBudgets
  Talks <- Both
  Waits <- Ids
SPECIFICATION ApprovalsSpec
SYMMETRY IdsSymmetry
CHECK_DEADLOCK FALSE
INVARIANTS FlagsConverge GateHonest ApprovalShown
