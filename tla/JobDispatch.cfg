\* A V1 and a V2 connection; the queue and the channels overflow.
SPECIFICATION FairSpec
CONSTANTS
    m1 = m1
    s1 = s1
    V1Conns <- OneOfEach
    V2Conns <- OneV2
    QueueCap = 1
    ChanCap = 1
    MaxJobs = 3
    SyncAllowed = FALSE
INVARIANTS TypeOK NewestNotLost
PROPERTIES HeaderChangeIsClean ImplementsWorkFeed Converges
CHECK_DEADLOCK FALSE
