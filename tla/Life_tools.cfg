SPECIFICATION ToolsSpec
CONSTANTS
  Closers = {k1, k2}
  Capacity = 1
  MaxFrames = 2
  MaxRequests = 1
  Versions = {1, 2}
  MaxMain = 2
  MaxPulls = 2
  MaxAttempts = 2
  MaxPeople = 3
  NFiles = 2
  NGates = 3
  NCommands = 2
  MaxEdits = 2
  MaxGraph = 5
  MaxRuns = 2
  MaxMoves = 2
SYMMETRY CallerSymmetry
INVARIANTS
  TypeOK JoinedMeansIdle NilCloseIsClean NothingLeftBehind 
PROPERTIES
  TeardownOnce PublicationSound ForwardSound
\* Each part ends: the client is closed, the invocations of a sync end, the
\* verification returns, and the integration has ended.
CHECK_DEADLOCK FALSE
