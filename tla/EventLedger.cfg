SPECIFICATION FairSpec
CONSTANTS
  Writers = {w1}
  MaxEvents = 5
  MaxCrashes = 2
  MayFail = TRUE
  MayTear = TRUE
  OldFiles = {0, 1}
INVARIANT ChainIntact
INVARIANT AckedInOrder
PROPERTY EveryCallSettles
CHECK_DEADLOCK FALSE
