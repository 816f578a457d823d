SPECIFICATION Spec
CONSTANTS
    t1 = t1
    t2 = t2
    Trackers = {t1, t2}
    Configs <- MCConfigs
    PublishRate = 1000
    MaxHistorySamples = 7
    Times <- MCTimes
    Sigmas = 1
INVARIANTS
    TypeOK
    DelaysInRange
    OneDelayPerCycle
    HistoriesAreBounded
PROPERTIES
    DriftNeedsTime
