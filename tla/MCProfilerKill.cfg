SPECIFICATION Spec
CONSTANTS
  Cpus <- TwoCores
  Limits = {1}
  Requests <- BothRequests
  Faults <- NoFaults
  IntLimit = 4
  MaxMatrices = 2
INVARIANTS
  KillsOnlyTheProgram
