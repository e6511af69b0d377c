CONSTANTS
  k1 = k1
  k2 = k2
  w1 = w1
  w2 = w2
  w3 = w3
  Keys = {k1, k2}
  Writers = {w1, w2}
  Readers = {}
  Builders = {}
  SlotsPerPage = 2
  MaxPages = 5
  Loads <- GapLoads
SPECIFICATION Spec
INVARIANTS
  AckedSurvive
CHECK_DEADLOCK FALSE
