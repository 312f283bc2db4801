\* A winning, a low and an ordinary solution; the third job makes the first forgotten.
SPECIFICATION FairSpec
CONSTANTS
    w = w
    l = l
    a = a
    b = b
    c = c
    Solutions <- Mixed
    Winning <- OneWinning
    LowDiff <- OneLow
    TipOf <- TwoHeaders
    FreshnessMode = 2
    MaxRecent = 1
    DupHistory = 2
    Workers = 2
    MaxJobs = 3
    MaxSubmits = 2
INVARIANTS TypeOK WinningShareIsHandled AckedIsCounted DuplicatesFarApart
PROPERTIES EverySubmissionDecided
CHECK_DEADLOCK FALSE
