\* Administrators edit, pause, delete and start what the engine is claiming, with one
\* failing statement or crash, and a retention shorter than a run.
SPECIFICATION RequestsSpec
CONSTANTS
    n1 = n1
    n2 = n2
    Null = Null
    NoRow = NoRow
    Requests = {q1}
    NextRun <- MCNextRun
    MaxTasks = 1
    MaxRuns = 2
    Nodes = {n1}
    Plans <- CronOrOnce
    MaxTime = 1
    SnapshotReads = FALSE
    GlobalConcurrency = 1
    DueLimit = 1
    Retention = 0
    ScriptResults = {"success"}
    LookupFailures = {}
    AdminOps = {"create", "put", "toggle", "delete", "run_task", "prune"}
    MaxCrashes = 1
    MaxFaults = 1
INVARIANTS
    OneActiveRun
    SlotsExact
PROPERTIES
    LifecycleSpec
CHECK_DEADLOCK FALSE
