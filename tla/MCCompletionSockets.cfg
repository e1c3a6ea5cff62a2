CONSTANTS
  a = a
  b = b
  Tasks = {a, b}
  None = None
  MaxBytes = 3
  MaxRoom = 1
  MaxRead = 2
  BufSize = 3
  BufCount = 1
  MaxRetries = 2
  MaxCalls = 3
  MaxFaults = 1
  ConnectTimers = FALSE
SYMMETRY Symmetry
SPECIFICATION Spec
CHECK_DEADLOCK FALSE
INVARIANTS CompletionsFindTheirOperation OneWayToBeResumed StreamInOrder ResourcesAreConserved
