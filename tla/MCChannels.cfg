CONSTANTS
  t1 = t1
  t2 = t2
  t3 = t3
  A = A
  B = B
  U = U
  Token = Token
  None = None
  Tasks = {t1, t2, t3}
  Workers = {t1, t2, t3}
  Home <- Each
  Cancellable = {t1}
  Chans = {A, B, U}
  Unbounded = {U}
  Capacity = 1
  Programs <- Alone
  MaxCalls = 4
SPECIFICATION Spec
CHECK_DEADLOCK FALSE
INVARIANTS NobodyStranded WaitsEndCleanly DrainedBeforeTheEnd
