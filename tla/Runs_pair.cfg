SPECIFICATION ActsSpec
CONSTANTS
    th1 = th1
    None = None
    Threads = {th1}
    ThreadOf <- OneThread
    Runs = {r1, r2}
    Turns = {t1, t2}
    MaxFrames = 2
    Capacity = 2
    Handlers = {TRUE}
    FrameKinds = {"item", "done", "note"}
    Steering = TRUE
    RequestFailures = TRUE
    Causes = {}
    Names = {"live", "root"}
    LiveName = "live"
    NWorkflows = 2
    PageSize = 2
    MaxChecks = 4
    MaxFlowAttempts = 3
    MaxForeign = 1
    MaxTriggers = 3
    Labels = {1, 2}
SYMMETRY RunSymmetry
INVARIANTS HistoryExact 
PROPERTY AcceptanceSound
\* Each part ends: the turns are over, nobody looks at the checks any
\* more, and the types are selected.
CHECK_DEADLOCK FALSE
