CONSTANTS
  outer = outer
  nested = nested
  inner = inner
  u1 = u1
  w1 = w1
  w2 = w2
  None = None
  Scopes = {nested}
  Tasks = {outer, inner}
  Parent <- Chain
  Users = {u1}
  Workers = {w1, w2}
  Holder <- Holders
SPECIFICATION FairSpec
INVARIANTS
  LifetimesAreSound
  CancelMissesNobody
PROPERTIES
  EverythingIsFreed
