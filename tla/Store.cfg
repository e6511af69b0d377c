SPECIFICATION Spec
CONSTANTS
  Pages = {p1, p2}
  FlushBudget = 1
  Loads <- SomeLoads
CHECK_DEADLOCK FALSE
SYMMETRY PageSymmetry
INVARIANT TypeOK
INVARIANT RecoversPrefix
INVARIANT AckedSurvive
INVARIANT ReadersSeeCommitted
