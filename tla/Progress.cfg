\* Two tasks over two nodes due at once under MySQL snapshots, a crash at any point, then a fair restart.
SPECIFICATION ProgressSpec
CONSTANTS
    n1 = n1
    n2 = n2
    Null = Null
    NoRow = NoRow
    Requests = {q1}
    NextRun <- MCNextRun
    MaxTasks = 2
    MaxRuns = 2
    Nodes = {n1, n2}
    Plans <- EveryTick
    MaxTime = 1
    SnapshotReads = TRUE
    GlobalConcurrency = 2
    DueLimit = 1
    Retention = 9
    ScriptResults = {"success"}
    LookupFailures = {"offline"}
    AdminOps = {"create"}
    MaxCrashes = 1
    MaxFaults = 0
    f1 = f1
    c1 = c1
    FileViewers = {f1}
    ContainerViewers = {c1}
    ChannelSize = 1
    MaxLines = 2
    MaxViewers = 1
    Nobody = Nobody
    w1 = w1
    Watchers = {w1}
    BufferSize = 2
INVARIANTS
    AggregateExact
    NotificationTruthful
    WatchersSeeAll
PROPERTIES
    DueIsClaimed
    LifecycleFairSpec
    FollowersEnd
    
CHECK_DEADLOCK FALSE
