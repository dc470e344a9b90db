SPECIFICATION MCSpec
CONSTANTS
    Calls <- SevenCalls
    Kind <- OfKind
    Supported <- OldAgent
    Browsers <- Sessions
    MaxSessions = 1
    MaxRuns = 1
    MaxUsers = 2
    None = None
INVARIANTS
    PendingExact
PROPERTIES
    
    ShellsEnd
CHECK_DEADLOCK FALSE
