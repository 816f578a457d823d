SPECIFICATION CaptureSpec
CONSTANTS
    Period = 2
    ScanInterval = 3
    Models = {m1}
    Objects = {o1, o2}
    NoObject = noobject
    NoSnapshot = nosnapshot
    MaxCaptures = 3
INVARIANT
    CapturesArePaced
PROPERTY
    SnapshotsFollowWorld
