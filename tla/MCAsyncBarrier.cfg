CONSTANTS
  t1 = t1
  t2 = t2
  t3 = t3
  t4 = t4
  w1 = w1
  w2 = w2
  w3 = w3
  w4 = w4
  None = None
  Tasks = {t1, t2, t3, t4}
  Workers = {w1, w2, w3, w4}
  Home <- Apart
  Cancellable = {t1}
  parties_ = 3
  MaxArrivals = 9
SPECIFICATION Spec
INVARIANTS
  NobodyPassesEarly
  ReleaseIsSound
