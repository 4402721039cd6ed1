CONSTANTS
    c1 = c1
    c2 = c2
    Conns <- OneConn
    Limit = 0
    InRuntime = FALSE
    HandleCommands = {"shutdown", "cancel", "abandon"}
SPECIFICATION Spec
INVARIANT CancelHeard
CHECK_DEADLOCK FALSE
