CONSTANTS
    p1 = p1
    p2 = p2
    w1 = w1
    w2 = w2
    n1 = n1
    id1 = id1
    NoWorker = NoWorker
    NoNotice = NoNotice
    Procs <- TwoRequests
    Workers <- TwoWorkers
    Notices <- OneNotice
    EventIds <- OneId
    EventId <- IdOfOne
    MaxAttempts = 2
    MaxStalled = 1
    MaxDeliveries = 2
    MaxLogs = 2
    MaxMishaps = 1
SPECIFICATION Spec
INVARIANT AnsweredIsQueued
SYMMETRY Interchangeable
CHECK_DEADLOCK FALSE
