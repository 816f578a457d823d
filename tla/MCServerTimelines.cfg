SPECIFICATION MCSpec
CONSTANTS
    Models = {m1}
    Trackers = {t1}
    TrackerNameFor <- OneName
    DelayEnabled = TRUE
    TimestampPolicy = "send_time"
    MaxDelay <- DelayOfOne
    HistoryMargin = 0
    ScanInterval = 2
    DerivativeResetTimeout = 2
    SampleTimes = {0, 1, 2, 4}
    MaxWall = 5
    MaxGap = 1
    MaxEra = 1
    NoPose = nopose
    NoReport = noreport
    BlankSample <- MCBlank
    Poses <- MCPoses
    Snapshots <- MCSnapshots
    SendTimes <- MCSendTimes
    NoTracker = none
    none = none
    m1 = m1
    m2 = m2
    m3 = m3
    m4 = m4
    t1 = t1
    t2 = t2
INVARIANTS
    PosedModelHasSample
    SamplesOfThisTimeline
    ReportsOfThisTimeline
    DerivativesAreMeasured
    HistoryFollowsSimulationTime
PROPERTIES
    StampsAdvance
