\* Synchronous broadcasts overtake the queue.
SPECIFICATION Spec
CONSTANTS
    m1 = m1
    s1 = s1
    V1Conns <- OneOfEach
    V2Conns <- Nobody
    QueueCap = 2
    ChanCap = 2
    MaxJobs = 3
    SyncAllowed = TRUE
PROPERTIES ImplementsWorkFeed
CHECK_DEADLOCK FALSE
