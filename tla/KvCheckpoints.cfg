SPECIFICATION FairSpec
CONSTANTS
  MaxRequests = 3
  MaxFaults = 3
  Tokens <- ShownTokens
  Saved <- SavedTokens
  Quiet = 2
  SaveInterval = 3
  MinTokenDelta = 3
INVARIANTS
  TypeOK
  CheckpointsComplete
PROPERTIES
  NewestKept
  StoreSpec
  Checkpointed
