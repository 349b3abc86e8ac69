SPECIFICATION Spec
CONSTANTS
  Cpus <- TwoCores
  Limits = {1}
  Requests <- DocumentedRequests
  Faults <- SpawnFault
  IntLimit = 4
  MaxMatrices = 2
INVARIANTS
  FailureIsReported
