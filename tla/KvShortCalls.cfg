SPECIFICATION FairSpec
CONSTANTS
  MaxRequests = 3
  MaxFaults = 0
  Tokens <- ShownTokens
  Saved <- SavedTokens
  Quiet = 2
  SaveInterval = 3
  MinTokenDelta = 3
PROPERTY
  ShortCallsCheckpointed
