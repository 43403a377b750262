SPECIFICATION MCSpec
CONSTANTS
    Host = Host
    Guest = Guest
    MaxScore = 2
    CountdownFrom = 1
    None = None
    QueueCap = 3
    FeedCap = 2
    DrainMax = 1
    Width = 25
    Height = 15
    Half = 2
    PadHalfW = 1
    PadHalfH = 2
    Edge = 1
    MaxVel = 2
    Incr = 1
    EdgeSpeed <- MCEdgeSpeed
INVARIANTS
    TypeOK
    OneCountdown
    CrashIsKnown
    FramesKeepOrder
    TicksAreSound
PROPERTIES
    TimeoutSparesPlay
    ImplementsMatch
    GameEnds
CHECK_DEADLOCK FALSE
