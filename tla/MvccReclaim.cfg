SPECIFICATION Spec
CONSTANTS
  Keys = {k1}
  Txns = {t1, t2, t3}
  Callers = {caller}
  Prefixes <- NoScans
  IoErrors = {}
  NoTxn = NoTxn
  Publisher = publisher
CHECK_DEADLOCK FALSE
SYMMETRY KeysAndTxns
INVARIANT FirstCommitterWins
INVARIANT SnapshotReads
INVARIANT ScanMatchesGet
INVARIANT RecentKept
PROPERTY SnapshotsStable
