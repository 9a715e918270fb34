SPECIFICATION Spec
CONSTANTS
  t1 = t1
  t2 = t2
  t3 = t3
  Txns = {t1, t2}
  Holders = {t1}
  RowLocks = TRUE
  MaxEvents = 1
  NoTxn = NoTxn
  NoHash = NoHash
CHECK_DEADLOCK FALSE

INVARIANTS Serialized
