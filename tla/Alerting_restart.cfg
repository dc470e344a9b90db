SPECIFICATION Spec
CONSTANTS
    n1 = n1
    n2 = n2
    Nodes = {n1}
    Levels = {"low", "high"}
    RulePlans <- AfterTwo
    Admins = {"a"}
    Edits = {}
    MaxRules = 1
    MaxAlerts = 1
    MaxTime = 2
    MaxFaults = 2
    NoRow = NoRow
    NoState = NoState
    NoMetric = NoMetric
    NoRequest = NoRequest
PROPERTIES
    ResolvedWhenCleared
