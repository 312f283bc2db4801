\* A V1 connection and two best blocks; the second is ours and its job overtakes the queue.
SPECIFICATION FairWorkSpec
CONSTANTS
    m1 = m1
    V1Conns <- OneV1
    V2Conns <- Nobody
    QueueCap = 1
    ChanCap = 2
    MaxJobs = 2
    SyncAllowed = TRUE
    MaxTips = 2
    MaxMempool = 0
    OurBlocks <- SecondBlock
PROPERTIES MinerTipNeverRegresses MinersFollowNode
