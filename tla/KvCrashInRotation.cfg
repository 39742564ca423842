SPECIFICATION Spec
CONSTANTS
  MaxRequests = 3
  MaxFaults = 2
  Tokens <- ShownTokens
  Saved <- SavedTokens
  Quiet = 2
  SaveInterval = 3
  MinTokenDelta = 3
PROPERTY
  RestoresNewest
