SPECIFICATION Spec
CONSTANTS
  Caches <- SomeCaches
  Frames <- Pool
  Regions = {r1, r2, r3}
  PoolSizes = {3}
  Faults <- NoFaults
  NoFrame = NoFrame
  PageSize = 4
  FieldLimit = 64
INVARIANTS
  ReturnsAlignedBuffer
