SPECIFICATION FairSpec
CONSTANTS
  MaxCalls = 5
  Sizes <- MixedSizes
  KernelBlocks = 3
  Adaptive = TRUE
  PoolSize = 2
  Vectors = 4
  WriteThreads = 2
  Threads = 4
INVARIANTS
  RingSafe
  StripeReady
PROPERTIES
  MeetingSpec
  AllReduced
CHECK_DEADLOCK FALSE
