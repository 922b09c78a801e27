SPECIFICATION FairSpec
CONSTANTS
    th1 = th1
    None = None
    Threads = {th1}
    ThreadOf <- OneThread
    Runs = {r1}
    Turns = {t1}
    MaxFrames = 2
    Capacity = 1
    Handlers = {TRUE}
    FrameKinds = {"item", "done"}
    Steering = FALSE
    RequestFailures = FALSE
    Causes = {"failure", "closed"}
PROPERTIES Delivered RunsEnd CloseSettles
CHECK_DEADLOCK FALSE
