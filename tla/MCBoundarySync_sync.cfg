SPECIFICATION Spec
CONSTANTS
  s1 = s1
  s2 = s2
  Sessions = {s1, s2}
  Operator = op
  Hunks <- MCHunks
  FileOf <- MCFileOf
  None = None
  FirstMayFail = FALSE
  Budgets <- MCBudgets
CHECK_DEADLOCK FALSE
INVARIANTS TypeOK InOrder HeldShown Accounted DivergenceTold
PROPERTIES NoClobber
