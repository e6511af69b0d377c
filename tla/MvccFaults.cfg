SPECIFICATION Spec
CONSTANTS
  Keys = {k1, k2}
  Txns = {t1, t2}
  Callers = {caller}
  Prefixes <- Whole
  IoErrors = {"commit", "rebuild"}
  NoTxn = NoTxn
  Publisher = publisher
CHECK_DEADLOCK FALSE
SYMMETRY KeysAndTxns
INVARIANT TypeOK
INVARIANT WatermarkExact
INVARIANT NoPhantom
INVARIANT GenerationsExact
