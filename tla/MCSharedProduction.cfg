CONSTANTS
  t1 = t1
  t2 = t2
  t3 = t3
  p1 = p1
  p2 = p2
  Thread = {t1, t2, t3}
  Process = {p1, p2}
  ProcessOf <- Owner
  Inode = {1, 2, 3, 4}
  NoInode = 0
  Nobody = Nobody
  Retiring = FALSE
  MaxCrashes = 1
SPECIFICATION Either
INVARIANTS OneHolderPerFile KeptKeyHasOneProducer ProducedOnce
PROPERTY NobodyStrandedByADeath
CHECK_DEADLOCK FALSE
