SPECIFICATION AgentSpec
CONSTANTS
    p1 = p1
    d1 = d1
    d2 = d2
    Projects = {p1}
    Drafts = {d1, d2}
    NoFile = NoFile
    Nothing = Nothing
    Partly = Partly
    RevisionLimit = 2
    MaxConfirmations = 2
    MaxRevision = 3
    MaxPreviews = 3
    MaxComposeCrashes = 1
    MaxComposeFaults = 1
    MaxCuts = 1
    Old = Old
    New = New
    MaxAttempts = 2
    MaxUpgradeFaults = 1
    MaxUpgradeCrashes = 1
    MaxDrops = 1
    Tokens = {1}
    SharedToken = TRUE
    MaxDials = 2
    MaxDeletes = 1
    MaxRestarts = 1
    Null = Null
INVARIANTS
    ServedIsRegistered
    RevokedIsUseless
    DeploymentConsistent
    WayBack
PROPERTIES
    ShownOnline
    DeletedIsDisconnected
    AgentComesBack
    UpgradeStatusEnds
CHECK_DEADLOCK FALSE
