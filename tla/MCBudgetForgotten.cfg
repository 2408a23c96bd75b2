SPECIFICATION Spec
CONSTANTS
  b1 = b1
  b2 = b2
  None = None
  Bundles <- OneBundle
  Commands = {"apply"}
  Faults = {}
  MaxStarts = 5
  MaxGeneration = 5
INVARIANT BudgetIsSpentOnce
CHECK_DEADLOCK FALSE
