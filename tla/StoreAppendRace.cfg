SPECIFICATION Spec
CONSTANTS
  Pages = {p1, p2}
  FlushBudget = 0
  Loads <- AppendLoads
CHECK_DEADLOCK FALSE
SYMMETRY PageSymmetry
INVARIANT CrashLosesNothing
