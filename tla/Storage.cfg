\* Two nodes, one global slot, SQLite, one crash.  The bounds use the run ids up.
SPECIFICATION StorageSpec
CONSTANTS
    n1 = n1
    n2 = n2
    Null = Null
    NoRow = NoRow
    Requests = {q1}
    NextRun <- MCNextRun
    MaxTasks = 1
    MaxRuns = 2
    Nodes = {n1, n2}
    Plans <- EveryTick
    MaxTime = 2
    SnapshotReads = FALSE
    GlobalConcurrency = 1
    DueLimit = 1
    Retention = 9
    ScriptResults = {"success"}
    LookupFailures = {}
    AdminOps = {"create", "run_script"}
    MaxCrashes = 1
    MaxFaults = 0
    g1 = g1
    g2 = g2
    t1 = t1
    t2 = t2
    x = x
    y = y
    Hosts = {n1, n2}
    GroupIds = {g1, g2}
    TagIds = {t1, t2}
    Labels = {x, y}
    MaxTags = 1
    MaxBatches = 1
    NoGroup = NoGroup
    m1 = m1
    v1 = v1
    v2 = v2
    Legacies <- EarlierVersions
    Watches = {m1}
    Vendors = {v1, v2}
    MaxCases = 3
    MaxStarts = 2
    NoModel = NoModel
    s1 = s1
    s2 = s2
    Services = {s1, s2}
    Names = {x}
    Resources <- EveryResource
    Definitions <- SomeDefinitions
    Signals <- SomeSignals
    Worlds <- TwoWorlds
    Absent = Absent
    Unavailable = Unavailable
    Slots = 1
    MaxResources = 2
    MaxEdits = 2
    MaxChanges = 1
INVARIANTS
    ActiveRunIsOwned
    CatchUpOnce
    OrganizationSound
    MigrationSound
    HealthTruthful
SYMMETRY NodeSymmetry
CHECK_DEADLOCK FALSE
