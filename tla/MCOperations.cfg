CONSTANTS
    i1 = i1
    o1 = o1
    o2 = o2
    Instances = {i1}
    Ops = {o1, o2}
    InstanceOf <- TwoOps
    Retained = {o1, o2}
    Nats = {}
    LiveLimit = 1
    OperationLimit = 1
    Budget = 2
    LastId = 2
    Requesters = {}
    Driver = driver
    Hosts = {a, b}
    StartHost = a
    ListedHost = b
    ExceptHost = b
    Methods = {"POST"}
    Permissions = {"idempotent", "replayable"}
    Routes = {"none", "same", "listed", "https"}
    Egresses = {"https", "public"}
    HeaderNames = {"custom"}
    MaxRetries = 1
    MaxHops = 1
    TotalTime = 2
    AttemptTime = 1
    Waits = {0}
    Absent = absent
    Garbled = garbled
    BodySet <- MCBodies
    FrameSizes = {1, 3}
    MaxFields = 2
    MaxFieldBytes = 4
    MaxHeaderBytes = 14
    MaxChunkBytes = 2
    Auths = 3
    ItemLimit = 2
    MaxOrders = 1
    MaxRestarts = 0
SPECIFICATION All
SYMMETRY OpSymmetry
INVARIANTS
    AccountsExact
    FailureKept
    TerminalBeforeResult
    OperationsSound
CHECK_DEADLOCK FALSE
