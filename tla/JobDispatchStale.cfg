SPECIFICATION Spec
CONSTANTS
    m1 = m1
    s1 = s1
    V1Conns <- Nobody
    V2Conns <- OneV2
    QueueCap = 4
    ChanCap = 4
    MaxJobs = 3
    SyncAllowed = TRUE
INVARIANTS SettledOnNewest
CHECK_DEADLOCK FALSE
