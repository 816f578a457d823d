SPECIFICATION MCSpec
CONSTANTS
    Models = {m1}
    Trackers = {t1}
    TrackerNameFor <- OneName
    DelayEnabled = FALSE
    TimestampPolicy = "send_time"
    MaxDelay <- NoDelay
    HistoryMargin = 0
    ScanInterval = 2
    DerivativeResetTimeout = 1
    FirstWall = 2
    WallTimes = {1, 2, 3, 4, 5, 6}
    MaxSpeed = 1
    MaxElapsed = 5
    MaxSetBack = 1
    MaxRun = 2
    MaxChanges = 1
    Snapshots = {}
    SendTimes = {}
    NoPose = nopose
    NoReport = noreport
    NoSnapshot = nosnapshot
    BlankSample <- MCBlank
    Poses <- MCPoses
    NoTracker = none
    m1 = m1
    t1 = t1
INVARIANTS
    RegisteredWithinTwoScans
    DeletedModelsFallSilent
PROPERTIES
    ResetsAreNoticed
