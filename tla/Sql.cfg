SPECIFICATION Spec
CONSTANTS
  MaxInt = 5
  Sessions = {s1, s2}
  Setups <- AllSetups
  Statements <- DataStatements
  MaxStatements = 2
  Probes <- SomeProbes
  Queries <- SomeQueries
CHECK_DEADLOCK FALSE
SYMMETRY SessionSymmetry
INVARIANT TypeOK
INVARIANT ConstraintsHold
INVARIANT EntriesExact
INVARIANT IdsFresh
INVARIANT PathsAgree
INVARIANT SelectTyped
