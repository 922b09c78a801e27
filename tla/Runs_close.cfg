SPECIFICATION Spec
CONSTANTS
    th1 = th1
    None = None
    Threads = {th1}
    ThreadOf <- OneThread
    Runs = {r1}
    Turns = {t1}
    MaxFrames = 2
    Capacity = 1
    Handlers = {TRUE, FALSE}
    FrameKinds = {"item", "done", "fail", "note"}
    Steering = FALSE
    RequestFailures = TRUE
    Causes = {"failure", "closed"}
INVARIANTS TypeOK HistoryExact TerminalFence 
PROPERTY RunsKeepPromise
CHECK_DEADLOCK FALSE
