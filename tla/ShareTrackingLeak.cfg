SPECIFICATION Spec
CONSTANTS
    w = w
    l = l
    a = a
    b = b
    c = c
    Solutions <- Mixed
    Winning <- OneWinning
    LowDiff <- OneLow
    TipOf <- TwoHeaders
    FreshnessMode = 1
    MaxRecent = 1
    DupHistory = 2
    Workers = 1
    MaxJobs = 2
    MaxSubmits = 1
INVARIANTS EvictedJobsCleanedUp
CHECK_DEADLOCK FALSE
