CONSTANTS
    i1 = i1
    o1 = o1
    o2 = o2
    Instances = {i1}
    Ops = {o1}
    InstanceOf <- OneOp
    Retained = {}
    Nats = {i1}
    LiveLimit = 1
    OperationLimit = 1
    Budget = 2
    LastId = 2
    Requesters = {}
    Driver = driver
SPECIFICATION FairSpec
INVARIANTS
    SettlementHonest
    StopReachesAll
PROPERTIES
    ResultAndHistoryKept
    TeardownSettles
CHECK_DEADLOCK FALSE
