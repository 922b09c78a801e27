SPECIFICATION Spec
CONSTANTS
  Closers = {k1}
  Capacity = 1
  MaxFrames = 1
  MaxRequests = 0
INVARIANT CallbackErrorReported
CHECK_DEADLOCK FALSE
