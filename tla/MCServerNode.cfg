SPECIFICATION MCSpec
CONSTANTS
    Models = {m1}
    Trackers = {t1}
    TrackerNameFor <- OneName
    DelayEnabled = FALSE
    TimestampPolicy = "send_time"
    MaxDelay <- NoDelay
    HistoryMargin = 0
    ScanInterval = 1
    DerivativeResetTimeout = 2
    WallTimes = {5}
    MaxWall = 6
    MaxMessages = 3
    ClockTimes = {0, 1, 2}
    States <- MCStates
    Snapshots = {}
    SendTimes = {}
    NoPose = nopose
    NoReport = noreport
    NoMessage = nomessage
    BlankSample <- MCBlank
    Poses <- MCPoses
    NoTracker = none
    m1 = m1
    t1 = t1
INVARIANTS
    SamplesAreArrivals
    DerivativesUseOneClock
PROPERTIES
    HandsOverMessages
    ResetsHaveACause
