CONSTANTS
  None = None
  Heap = {sleep}
  Embedded = {sock}
  Slots = 2
  Levels = 4
  Start = {6}
  Durations = {0, 5}
  MaxTime = 12
  IdleFallback = 2
  MaxLag = 2
  MaxId = 3
  MaxCalls = 4
SPECIFICATION Spec
INVARIANTS
  FiresOnceOrNever
  LatenessIsBounded
  WheelIsSound
PROPERTIES
  NeverEarly
