SPECIFICATION FairSpec
CONSTANTS
    th1 = th1
    None = None
    Threads = {th1}
    ThreadOf <- OneThread
    Runs = {r1}
    Turns = {t1}
    MaxFrames = 1
    Capacity = 1
    Handlers = {TRUE}
    FrameKinds = {"item"}
    Steering = FALSE
    RequestFailures = TRUE
    Causes = {}
PROPERTIES Delivered
CHECK_DEADLOCK FALSE
