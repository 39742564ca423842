SPECIFICATION Spec
CONSTANTS
  Tokens = {a, b}
  MaxLen = 5
  NMax = 2
  MinPos = 2
  Mrope = TRUE
  CacheLimit = 1
  NoToken = NoToken
INVARIANTS
  TypeOK
  DraftsInSync
  KeptInSync
  StaysOn
SYMMETRY Symmetry
