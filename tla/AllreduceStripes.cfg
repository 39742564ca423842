SPECIFICATION Spec
CONSTANTS
  MaxCalls = 2
  Sizes <- LargeSizes
  KernelBlocks = 3
  Adaptive = FALSE
  PoolSize = 2
  Vectors = 4
  WriteThreads = 2
  Threads = 4
INVARIANT
  ReadsContribution
CHECK_DEADLOCK FALSE
