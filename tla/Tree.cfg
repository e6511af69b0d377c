CONSTANTS
  Keys = {1, 2, 3, 4, 5, 6}
  Values = {1, 2}
  Size <- UniformSize
  Capacity = 2
  MaxBatch = 2
SPECIFICATION Spec
INVARIANTS
  TypeOK
  LookupExact
  RangeExact
  ShapeSound
  EditsSucceed
