CONSTANTS
  t1 = t1
  t2 = t2
  t3 = t3
  NoThread = NoThread
  Threads = {t1, t2, t3}
  WakeLimit = 2
  MaxDepth = 2
  Disciplined = FALSE
  Spurious = TRUE
SYMMETRY Symmetry
SPECIFICATION Spec
INVARIANTS
  WaitingCountsWaiters
  NoLostWakeup
