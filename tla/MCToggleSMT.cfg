SPECIFICATION Spec
CONSTANTS
  Cores <- Numbers
  Rank <- NameOrder
  Machines <- SomeMachines
  Faults <- AllFaults
INVARIANTS
  TypeOK
  NoCoreGoesDark
  ChoiceIsCarriedOut
  DisableRevivesOne
  ZeroIsLeftAlone
