SPECIFICATION FairSpec
CONSTANTS
  Names = {""}
  Texts <- SomeTexts
  V1 = {a, b, d}
  Pg = {p}
  Http = {h}
  MaxConnections = 2
  MaxInFlight = 1
  PoolSize = 1
  Messages <- SomeMessages
  Budgets <- SomeBudgets
  Faults = {"accept", "client"}
CHECK_DEADLOCK FALSE
INVARIANT SlotsAccounted
INVARIANT TransactionsOwned
INVARIANT ErrorEndsSegment
 
PROPERTY ServerProgresses
