SPECIFICATION SidesSpec
CONSTANTS
  Limit = 6
  MaxFrames = 2
  QueueSize = 1
  ToolCalls = {c1, c2}
  MaxTurns = 2
  MaxEvents = 5
  MaxStray = 3
  MaxLag = 2
  Trees = {t1, t2}
  SeedTree = t0
  Closed = {2}
  MaxMain = 2
  MaxCommits = 3
  MaxEpochs = 2
SYMMETRY SidesSymmetry
INVARIANTS
  BudgetSound NativeSound
PROPERTIES
  OneAtATime GoalSound
\* The budget comes to rest when the client is closed, RunGoal when it returns,
\* and publication when the runner is lost and nothing around it moves.
CHECK_DEADLOCK FALSE
