SPECIFICATION FairSpec
CONSTANTS
    n1 = n1
    n2 = n2
    Nodes = {n1}
    Levels = {"low", "high"}
    RulePlans <- OneNode
    Admins = {"a"}
    Edits = {"update", "toggle", "delete", "history", "nodes"}
    MaxRules = 1
    MaxAlerts = 2
    MaxTime = 2
    MaxFaults = 2
    NoRow = NoRow
    NoState = NoState
    NoMetric = NoMetric
    NoRequest = NoRequest
INVARIANTS
    OneActiveAlert
    ToldOnce
PROPERTIES
    AlertsFollow
