\* Three disciplined threads, every way of acquiring, spurious wake-ups.
CONSTANTS
  t1 = t1
  t2 = t2
  t3 = t3
  NoThread = NoThread
  Threads = {t1, t2, t3}
  WakeLimit = 2
  MaxDepth = 2
  Disciplined = TRUE
  Spurious = TRUE
SPECIFICATION FairSpec
INVARIANTS
  TypeOK
  MutualExclusion
  CountIsOwners
  OwnerTestStable
PROPERTIES
  LockSpec
  FreeMutexIsTaken
