SPECIFICATION FairSpec
CONSTANTS
  Subgraphs = 3
  MaxCalls = 3
INVARIANTS
  NoRace
PROPERTIES
  LockstepSpec
  CallReturns
  DestructorReturns
CHECK_DEADLOCK FALSE
