SPECIFICATION FairSpec
CONSTANTS
  t1 = t1
  t2 = t2
  t3 = t3
  Txns = {t1, t2, t3}
  Holders = {t1}
  RowLocks = TRUE
  MaxEvents = 2
  NoTxn = NoTxn
  NoHash = NoHash
CHECK_DEADLOCK FALSE

INVARIANTS TypeOK ChainIntact
PROPERTIES TransactionsEnd
