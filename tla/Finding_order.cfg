SPECIFICATION Spec
CONSTANTS
    th1 = th1
    None = None
    Threads = {th1}
    ThreadOf <- OneThread
    Runs = {r1}
    Turns = {t1}
    MaxFrames = 2
    Capacity = 2
    Handlers = {TRUE}
    FrameKinds = {"note"}
    Steering = FALSE
    RequestFailures = FALSE
    Causes = {}
SYMMETRY RunSymmetry
INVARIANTS HistoryOrder
CHECK_DEADLOCK FALSE
