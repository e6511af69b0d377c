CONSTANTS
  k1 = k1
  k2 = k2
  w1 = w1
  w2 = w2
  w3 = w3
  Keys = {k1, k2}
  Writers = {w1, w2, w3}
  Readers = {r1}
  Builders = {b1}
  SlotsPerPage = 2
  MaxPages = 9
  Loads <- SomeLoads
SPECIFICATION Spec
INVARIANTS
  TypeOK
  ReadersAnswered
  SnapshotsServed
  OpenSucceeds
  FreePagesUnused
SYMMETRY WriterSymmetry
