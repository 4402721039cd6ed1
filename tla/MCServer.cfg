CONSTANTS
    c1 = c1
    c2 = c2
    Conns <- OneConn
    Limit = 1
    InRuntime = TRUE
    HandleCommands = {"shutdown", "cancel", "abandon"}
SPECIFICATION FairSpec
INVARIANTS
    StopConsistent
    OkMeansDrained
    UpgradeSpared
PROPERTIES
    PromiseKept
    StopEnds
CHECK_DEADLOCK FALSE
