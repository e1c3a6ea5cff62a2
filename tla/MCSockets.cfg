CONSTANTS
  r = r
  k = k
  a = a
  b = b
  Tasks = {r, k}
  Workers = {a, b}
  Home <- MCHome
  Cancellable = {k}
  None = None
  Owner = b
  MaxBytes = 2
  MaxRoom = 1
  MaxRead = 2
  Chunk = 1
  MaxRetries = 2
  MaxCalls = 2
  MaxSignals = 2
SPECIFICATION Spec
CHECK_DEADLOCK FALSE
INVARIANTS NoLostEdge WaitsEndOnce ResultsAreTrue HeaderLivesWithItsUsers
