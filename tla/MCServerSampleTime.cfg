SPECIFICATION MCSpec
CONSTANTS
    Models = {m1}
    Trackers = {t1}
    TrackerNameFor <- OneName
    DelayEnabled = TRUE
    TimestampPolicy = "sample_time"
    MaxDelay <- DelayOfFour
    HistoryMargin = 0
    ScanInterval = 1
    DerivativeResetTimeout = 2
    SampleTimes = {0, 1, 2}
    MaxWall = 8
    MaxGap = 1
    MaxEra = 0
    NoPose = nopose
    NoReport = noreport
    BlankSample <- MCBlank
    Poses <- MCPoses
    Snapshots <- MCSnapshots
    SendTimes <- MCSendTimes
    NoTracker = none
    none = none
    m1 = m1
    m2 = m2
    m3 = m3
    m4 = m4
    t1 = t1
    t2 = t2
INVARIANTS
    HistoryReachesMaxDelay
