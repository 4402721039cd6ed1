CONSTANTS
    i1 = i1
    o1 = o1
    o2 = o2
    Instances = {i1}
    Ops = {o1}
    InstanceOf <- OneOp
    Retained = {}
    Nats = {}
    LiveLimit = 1
    OperationLimit = 1
    Budget = 2
    LastId = 2
    Requesters = {r1}
    Driver = driver
SPECIFICATION Spec
PROPERTIES
    StopOwnsClose
CHECK_DEADLOCK FALSE
