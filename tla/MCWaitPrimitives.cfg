CONSTANTS
  t1 = t1
  t2 = t2
  t3 = t3
  w1 = w1
  w2 = w2
  w3 = w3
  None = None
  Tasks = {t1, t2, t3}
  Workers = {w1, w2, w3}
  Home <- Apart
  Cancellable = {t1}
  Initial = 2
  MaxHeld = 2
  MaxWork = 1
SPECIFICATION FairSpec
INVARIANTS
  SemaphorePermitsConserved
  NoMissedWakeup
  ResumedExactlyOnce
PROPERTIES
  CancelEndsWait
  ConditionEndsWait
