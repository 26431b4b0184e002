SPECIFICATION LaneSpec
CONSTANTS
    N = 2
    QueueCap = 1
    Window = 2
    MaxRetries = 1
    DedupeCap = 1
    MaxStream = 2
    MaxEpoch = 2
    MaxInst = 2
INVARIANTS LaneTypeOK NoEarlyRepeat OkMeansExecuted LaneInOrder NothingLeaks
CHECK_DEADLOCK FALSE
