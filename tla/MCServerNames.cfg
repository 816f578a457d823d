SPECIFICATION MCSpec
CONSTANTS
    Models = {m1, m2, m3, m4}
    Trackers = {t1, t2}
    TrackerNameFor <- SharedNames
    DelayEnabled = FALSE
    TimestampPolicy = "send_time"
    MaxDelay <- NoDelay
    HistoryMargin = 0
    ScanInterval = 2
    DerivativeResetTimeout = 1
    SampleTimes = {1}
    MaxWall = 4
    MaxGap = 2
    MaxEra = 0
    NoPose = nopose
    NoReport = noreport
    BlankSample <- MCBlank
    Poses <- MCPoses
    Snapshots <- MCSnapshots
    SendTimes <- MCSendTimes
    NoTracker = none
    none = none
    m1 = m1
    m2 = m2
    m3 = m3
    m4 = m4
    t1 = t1
    t2 = t2
INVARIANTS
    TypeOK
    TrackerNamesUnique
PROPERTIES
    RegistrationIsPermanent
