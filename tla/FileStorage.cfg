SPECIFICATION Spec
CONSTANTS
    Threads = {t1, t2, t3}
    NoThread = NoThread
    InitialSize = 2
    Minimum = 5
    Expansion = 50
    Requests = {2, 3}
    DiskLimit = 5
    MaxHeld = 2
    MaxMappings = 2
INVARIANTS
    TypeOK
    AccessorsValid
    SizesNested
PROPERTIES
    TrimmedForGood
    LockReleased
CHECK_DEADLOCK FALSE
