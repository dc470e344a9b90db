SPECIFICATION ServerSpec
CONSTANTS
    Plans <- TwoPlans
    Outcomes <- Probed
    Created <- Enabled
    Callers = {c1}
    Targets = {1}
    Edits <- AllEdits
    MaxConcurrent = 2
    MaxMonitors = 2
    MaxIncidents = 2
    MaxTime = 1
    MaxRequests = 2
    MaxFaults = 1
    Null = Null
    NoRow = NoRow
    robot = robot
    stranger = stranger
    Channels = {robot, stranger}
    TypeOf <- Types
    Attempts = 3
INVARIANTS
    EntriesExact
    OpenIncidentIsCurrent
    ToldOnceInOrder
    ReportTruthful

    
CHECK_DEADLOCK FALSE
