SPECIFICATION Spec
CONSTANTS
    Threads = {t1, t2}
    NoThread = NoThread
    Keys = {k1, k2}
    NoKey = NoKey
    NotFound = NotFound
    NoRoot = NoRoot
    Unwritten = Unwritten
    MaxRows = 3
INVARIANT
    NoCircularWait
CHECK_DEADLOCK FALSE
