CONSTANTS
  Nodes = {n1, n2}
  Producers = {p1, p2}
  Stub = Stub
  Null = Null
  Buffering = {TRUE, FALSE}
SPECIFICATION FairSpec
CHECK_DEADLOCK FALSE
INVARIANTS
  PopsInOrder
  WakeUpsAreSound
PROPERTIES
  EveryPushIsRun
