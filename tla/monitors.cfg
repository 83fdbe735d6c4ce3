CONSTANTS
  Threads = {t1, t2, t3, t4}
  NoThread = NoThread
  MaxSpurious = 1
  Sizes = {2, 4}
  Rounds = 2
  Waiters = {t1, t2}
  Posters = {t3, t4}
  Quota <- TwoCalls
  InitValue = 1
  MaxVal = 1

SPECIFICATION BothSpec
INVARIANTS Consistent RoundsSynchronised NoLostWakeup SemConsistent SemNoLostWakeup
PROPERTIES ReleasedInGroups SemTermination
CHECK_DEADLOCK FALSE
