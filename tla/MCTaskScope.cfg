CONSTANTS
    AsyncKids = {a1, a2}
    BlockingKids = {b1}
    Internal = {a1}
    Requesters = {r1}
    Driver = driver
    Callers = {c1, c2, c3}
    Timed = {c2, c3}
    Bare = {c3}
    Capacity = 1
    MaxMessages = 1
    Kinds = {"interval", "cron", "health", "watcher"}
    Period = 2
    Occurrences = {2, 3}
    LoopTime = 3
    Checkers = {h1, h2}
    Threshold = 2
    Cooldown = 1
    Requests = {q1, q2, q3}
    Rate = 1
    Burst = 2
    Interval = 3
    Second = 2
    BucketTime = 3
    Peers = {p1, p2}
    Modes = {"tcp", "tls", "udp", "unix"}
    Watchers = {w1, w2}
    NoWatcher = nowatcher
    QueueSize = 1
    OutFrames = 2
    InFrames = 2
    Traffic = {"out", "in"}
    Faults = {"origin"}
    HsRequests <- MCHsRequests
    HsTargets <- MCHsTargets
    HsReplies <- MCHsReplies
    SideFrames = 2
    Answers101 = {"agreed", "noProtocol", "not101", "unoffered", "badAccept"}
SPECIFICATION FairAll
INVARIANTS
    ScopeConsistent
    RefusedNeverRuns
    DrainIsFinal
    PanicSurvives
    PrimitivesSound
PROPERTIES
    NoBodyAfterDrain
    TeardownEnds
    PrimitiveSteps
    PrimitivesLive
CHECK_DEADLOCK FALSE
