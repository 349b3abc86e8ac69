SPECIFICATION Spec
CONSTANTS
  Cpus <- TwoCores
  Limits = {0, 2}
  Requests <- DocumentedRequests
  Faults <- AllFaults
  IntLimit = 4
  MaxMatrices = 6
INVARIANTS
  TypeOK
  ContiguousFile
  CompleteRun
  PromptStop
  LimitPerEvaluation
  CounterOnThisCore
  TargetOnThisCore
  KillScope
  NothingLeftRunning
