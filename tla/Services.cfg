\* One small instance of every component that shares no state with the others.
SPECIFICATION ServicesSpec
CONSTANTS
    ma = ma
    mb = mb
    MinDiff = 1
    MaxDiff = 32
    Nominals <- PoolHashrates
    MaxDisturbances = 1
    SettleTicks = 10
    Tellers = {"session", "listener"}
    Listener = "listener"
    TopDiff = 3
    MaxChanges = 2
    MaxWork = 2
    Listeners = {"tcp", "tls"}
    Conns = {1, 2}
    HostOf <- OneHost
    MaxConns = 1
    Threshold = 1
    Waiters = {"tcp", "tls"}
    Burst = 2
    SteadyBurst = 1
    MaxTicks = 4
    Base = 8
    FieldSizes = {0, 7, 70}
    MaxFrames = 2
    SubmitCap = 1
    MaxV2Jobs = 2
    MaxSubmits = 2
    Saved = {"rig"}
    Sustained = 2
    WarmUp = 1
    MaxClock = 5
    MaxResets = 1
    Users = {"bob"}
    QueueLimit = 2
    MaxQueued = 3
    MaxWipes = 1
    Owners = {"alice", "bob"}
    CodeLimit = 2
    Lifetime = 1
    MaxIssued = 2
    MaxTime = 2
    MaxStarts = 2
    MaxDbFaults = 1
    Rigs = {ma, mb}
    PoolKey = "pool"
    Slots = 2
    MaxRings = 2
    BestValues = {1}
    MaxMinute = 4
    MaxNoted = 1
    MaxRestarts = 1
    CloudEnabled = TRUE
    KeepsCopy = TRUE
    ForceInterval = FALSE
    MaxVersion = 3
    MaxBackupFaults = 2
    MaxBackupStops = 1
    Savers = {ma}
    Names = {mb}
    MaxSaved = 1
    MaxBest = 2
    MaxGeneration = 2
    MaxScored = 2
    MaxSaves = 1
    MaxSaveFaults = 1
    MaxSaveStops = 1
    Calls = {ma, mb}
    MaxCookies = 2
    MaxErrors = 1
    StatConns = {ma, mb}
    Judged <- Offered
    StatsRoom = 1
    Ranks = {1, 2, 3}
    BestLimit = 2
    BestRoom = 1
    MaxTableFaults = 1
    MaxProcessStops = 1
    Admins = {ma, mb}
    MaxRequests = 2
    MaxEdits = 1
    MaxReloads = 1
    MaxConfigFaults = 1
    MaxConfigStops = 1
    MaxBlock = 3
    ForkAt = 3
    Recent = 2
    MaxJobs = 3
    MaxWalkFaults = 1
    Visitors = {ma, mb}
    ResponseTTL = 2
    JsonTTL = 2
    StatusTTL = 2
    Slow = 0
    LastTime = 5
    LastReload = 1
    MaxNewBlocks = 1
    MaxSettings = 2
    Handlers = {ma}
    PoolWorkers = {mb}
    AuditRoom = 1
    MaxFound = 3
    MaxWriteFaults = 1
INVARIANTS ServicesTypeOK Admitted V2Faithful StorageAgrees StatisticsTrue NotificationsTrue PagesTrue HonestShareAccepted RateSettles
PROPERTIES NoRollback
CHECK_DEADLOCK FALSE
