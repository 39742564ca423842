SPECIFICATION FairSpec
CONSTANTS
  StablePolls = 3
  ArrivalPolls = 2
  MaxPolls = 5
  MaxInflight = 2
  MaxFaults = 2
  Faults <- FaultKinds
INVARIANTS
  TypeOK
  GateNeverStranded
  IngressNeedsProduction
  ProductionNeverStranded
  NoCoexistence
PROPERTIES
  WindowSpec
  EditKept
  CleanReport
  Terminates
  Recovers
CHECK_DEADLOCK FALSE
