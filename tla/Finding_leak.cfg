SPECIFICATION PromptSpec
CONSTANTS
  Closers = {k1}
  Capacity = 1
  MaxFrames = 0
  MaxRequests = 0
PROPERTY AbandonedIsCleaned
CHECK_DEADLOCK FALSE
