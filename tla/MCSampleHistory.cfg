SPECIFICATION Spec
CONSTANTS
    Samples <- MCSamples
    BlankSample <- MCBlank
    Capacities <- MCCapacities
INVARIANTS
    TypeOK
    ReadsOnlyPushed
    ScanFindsNearest
PROPERTY
    RefinesRecent
