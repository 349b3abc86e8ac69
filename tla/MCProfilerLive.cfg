SPECIFICATION Spec
CONSTANTS
  Cpus <- TwoCores
  Limits = {0, 1}
  Requests <- LiveRequests
  Faults <- LoopFaults
  IntLimit = 4
  MaxMatrices = 3
PROPERTIES
  StopsWhenAsked
  StopsAfterWorkload
  LimitedRunEnds
  ImplementsSession
