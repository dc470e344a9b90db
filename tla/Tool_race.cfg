SPECIFICATION AssistantSpec
CONSTANTS
    t1 = t1
    t2 = t2
    q1 = q1
    Null = Null
    Verifier = Verifier
    Turns = {t1}
    Requests = {q1}
    StepCount = 1
    MaxSettings = 0
    MaxCrashes = 0
    MaxFaults = 0
    MaxGone = 0
    Providers = {1, 2, 3}
    AtStart <- SetUpFirst
    Models = {1, 2, 3}
    Names = {1, 2}
    Addresses = {1, 2}
    Clients = {1, 2}
    NoRow = NoRow
    None = None
    Unborn = Unborn
    MaxEdits = 3
    Chats = {1}
    Exchanges = {1}
    MaxModelCalls = 2
    MaxReads = 1
    MaxCuts = 1
    MaxRestarts = 1
    Focuses = {"plan"}
INVARIANTS
    ResultRecorded
CHECK_DEADLOCK FALSE
