CONSTANTS
    N = 2
    Auths = 1
    ItemLimit = 1
    MaxOrders = 2
    MaxRestarts = 2
    Publishers = {n1, n2}
    TokenLimit = 2
    MaxConnects = 2
    Subscribers = {s1, s2}
    MaxSubscriptions = 1
    SubCapacity = 1
    SubMessages = 2
    Fed = {s1}
    Large = {1}
    Calls = {k1}
    Operations = {"send", "receive", "delete", "ready"}
    MaxBatch = 1
    MaxSize = 2
    MaxCount = 3
    Hosts = {a, b}
    StartHost = a
    ListedHost = b
    ExceptHost = b
    Methods = {"POST"}
    Permissions = {"idempotent"}
    Routes = {"same", "listed"}
    Egresses = {"public"}
    HeaderNames = {"custom"}
    MaxRetries = 1
    MaxHops = 1
    TotalTime = 2
    AttemptTime = 1
    Waits = {0}
    Absent = absent
    Garbled = garbled
    BodyLimit = 2
    ChunkSizes = {1, 2}
    Bare = {TRUE, FALSE}
    Script <- MCScript
    MsFailures = {"structural", "ended"}
SPECIFICATION FairAll
INVARIANTS
    ClaimsExact
    OkMeansStopped
    TeardownAccounts
    ServicesSound
PROPERTIES
    TeardownUndisturbed
    TeardownEnds
    ServiceSteps
    ServicesLive
CHECK_DEADLOCK FALSE
