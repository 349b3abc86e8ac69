SPECIFICATION Spec
CONSTANTS
  Caches <- SomeCaches
  Frames <- Pool
  Regions = {r1, r2, r3}
  PoolSizes = {0, 3}
  Faults <- AllFaults
  NoFrame = NoFrame
  PageSize = 4
  FieldLimit = 64
INVARIANTS
  TypeOK
  KeepsContract
  SoundUnlessOverwritten
  NoHugePageLeak
  ExhaustiveSearch
PROPERTIES
  Terminates
