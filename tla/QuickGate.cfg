CONSTANTS
  g1 = g1
  g2 = g2
  r1 = r1
  r2 = r2
  p1 = p1
  p2 = p2
  Gates <- TwoGates
  Roots <- TwoRoots
  Ports <- TwoPorts
  Configs <- TwoConfigs
  MaxPolls = 1
  MaxFaults = 1
SPECIFICATION FairSpec
INVARIANTS
  TypeOK
  OwnServer
  AloneAtWork
  ServerGone
  PassIsClean
PROPERTY
  Ends
CHECK_DEADLOCK FALSE
