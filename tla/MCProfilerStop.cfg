SPECIFICATION Spec
CONSTANTS
  Cpus <- TwoCores
  Limits = {0}
  Requests <- DocumentedRequests
  Faults <- NoFaults
  IntLimit = 4
  MaxMatrices = 2
PROPERTIES
  StopFollowsExit
