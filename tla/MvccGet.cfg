SPECIFICATION GetSpec
CONSTANTS
  Keys = {k1}
  Txns = {t1, t2}
  Callers = {}
  Prefixes = {}
  IoErrors = {}
  NoTxn = NoTxn
  Publisher = publisher
CHECK_DEADLOCK FALSE
INVARIANT GetSeesItsSnapshot
