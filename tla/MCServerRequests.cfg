CONSTANTS
    c1 = c1
    c2 = c2
    Conns <- TwoConns
    Limit = 1
    InRuntime = FALSE
    HandleCommands = {"shutdown"}
    Params = {":x", ":y"}
    Wildcards = {"*r"}
    RoutePatterns <- MCRoutePatterns
    RoutePrefixes <- MCRoutePrefixes
    RequestPaths <- MCRequestPaths
    HealthPath <- MCHealthPath
    RouteLimit = 2
    HostLimit = 2
    PathSegmentLimit = 3
    FrameLimit = 2
    SettingValues = {0, 4}
    LargestDeadline = 4
    DefaultDeadline = 2
    DefaultBody = 2
    DefaultCap = 3
    Unbounded = 5
    WordMax = 3
    DeclaredMax = 5
    ReserveMax = 2
    FrameLengths = {0, 1, 2, 3}
SPECIFICATION All
SYMMETRY ConnSymmetry
INVARIANTS
    LimitHeld
    JoinProvesEnd
    RequestsSound
PROPERTY AdmissionCloses
CHECK_DEADLOCK FALSE
