SPECIFICATION FairSpec
CONSTANTS
  Keys = {k1, k2}
  Txns = {t1, t2}
  Callers = {}
  Prefixes <- NoScans
  IoErrors = {"commit"}
  NoTxn = NoTxn
  Publisher = publisher
CHECK_DEADLOCK FALSE
PROPERTY PublisherCatchesUp
PROPERTY TimestampsResolved
PROPERTY ImplementsSnapshotIsolation
