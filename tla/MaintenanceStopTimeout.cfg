SPECIFICATION Spec
CONSTANTS
  StablePolls = 2
  ArrivalPolls = 1
  MaxPolls = 3
  MaxInflight = 1
  MaxFaults = 1
  Faults <- StopLost
INVARIANT
  RestoredBeforeOpen
CHECK_DEADLOCK FALSE
