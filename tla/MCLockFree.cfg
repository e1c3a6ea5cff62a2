SPECIFICATION Spec
CONSTANTS
  Threads = {1, 2, 3}
  Producers <- MCProducers
  Consumers <- MCConsumers
  MaxPuts <- MCMaxPuts
  MaxGets <- MCMaxGets
  Cap = 2
  Segments = {1, 2, 3, 4}
  Size <- MCSize
  Bulk = {2}
  Slots <- MCSlots
  Threshold = 1
  MaxExits = 2
  Objects = {1, 2, 3}
  MaxEpoch = 4
  Kinds <- MCKinds
INVARIANTS
  ValuesOnceAndInOrder
  NoUseAfterFree
PROPERTIES
  MissesOnlyBehindUnfinished
CHECK_DEADLOCK FALSE
