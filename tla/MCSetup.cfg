SPECIFICATION Spec
CONSTANTS
  Cores <- ThreeCores
  ByteLimit = 4
  Machines <- SomeMachines
  Requests <- SomeRequests
  Faults <- SomeFaults
  Switched = {1}
  MaxChanges = 2
INVARIANTS
  TypeOK
  GeometryIsWhole
  SearchIsExact
  SetupIsExact
  MessageFits
