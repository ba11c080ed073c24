SPECIFICATION SFairSpec
CONSTANTS
  t1 = t1
  t2 = t2
  t3 = t3
  s1 = s1
  s2 = s2
  Threads = {t1, t2, t3}
  Main = t1
  NoThread = NoThread
  RandomYield = TRUE
  Sems = {s1, s2}
  NoSem = NoSem
  InitialValue <- InitiallyZero
  MaxValue = 2
INVARIANTS SchedulerInv YieldRequestLocal QueuesExact NoLostWakeup
PROPERTIES DeletedFromOtherStack NoStarvation ThreadContract AtomicSemaphore
