SPECIFICATION MCFairSpec
CONSTANTS
    Period = 2
    ScanInterval = 1
    Models = {}
    Objects = {}
    NoObject = noobject
    NoSnapshot = nosnapshot
    MaxCaptures = 3
INVARIANTS
    TypeOK
    TakenIsWhole
    AtMostOneCycleLate
    CatchUpIsBounded
    StopsWithinACycle
PROPERTIES
    StopTerminates
    HandsOverSnapshots
