SPECIFICATION FairSpec
CONSTANTS
  Closers = {k1}
  Capacity = 1
  MaxFrames = 1
  MaxRequests = 1
PROPERTY LifeEnds
CHECK_DEADLOCK FALSE
