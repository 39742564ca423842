SPECIFICATION FairSpec
CONSTANTS
  MaxRuns = 2
  MaxFaults = 2
  MaxRequests = 2
INVARIANTS
  TypeOK
  ReportsNew
  GivesBack
PROPERTIES
  EarlyServed
  OriginalKept
  ConversationKept
  ProductionBack
CHECK_DEADLOCK FALSE
