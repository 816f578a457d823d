SPECIFICATION WireSpec
CONSTANTS
    Million = 10
    Grain = 5
    ReportTimes <- MCReportTimes
INVARIANTS
    TimestampIsNearest
