\* Two authorizations, one configuration, a share and two jobs of different masks.
SPECIFICATION Spec
CONSTANTS
    w1 = w1
    w2 = w2
    None = None
    Workers <- TwoWorkers
    Hinted <- OneHinted
    Options <- TwoOptions
    JobMask <- MaskOf
    ConfigMask <- AllBits
    HistoryLimit = 4
    ChanCap = 1
    MaxJobs = 2
    MaxRequests = 3
    MaxShares = 1
INVARIANTS TypeOK ClosedLeavesRegistry ToldMaskRemembered MinerServed
PROPERTIES NotifiedWorkerAuthorized
CHECK_DEADLOCK FALSE
