SPECIFICATION DFairSpec
CONSTANTS
  t1 = t1
  t2 = t2
  t3 = t3
  t4 = t4
  s1 = s1
  Threads = {t1, t2, t3, t4}
  Main = t1
  NoThread = NoThread
  RandomYield = TRUE
  Sems = {s1}
  NoSem = NoSem
  InitialValue <- InitiallyZero
  MaxValue = 1
  DiskSem = s1
INVARIANTS RequestsAccounted OneClientSafe
PROPERTIES TransferCompletes
