SPECIFICATION PSpec
CONSTANTS
  t1 = t1
  t2 = t2
  t3 = t3
  t4 = t4
  Threads = {t1, t2, t3, t4}
  Main = t1
  NoThread = NoThread
  RandomYield = TRUE
INVARIANTS JoinerHasWaker
