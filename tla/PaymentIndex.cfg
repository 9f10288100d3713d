SPECIFICATION Spec
CONSTANTS
    Threads = {t1, t2, t3}
    NoThread = NoThread
    Keys = {k1, k2}
    NoKey = NoKey
    NotFound = NotFound
    NoRoot = NoRoot
    Unwritten = Unwritten
    MaxRows = 3
SYMMETRY Symmetry
INVARIANTS
    TypeOK
    PaymentsListed
    WalkIsSnapshot
CHECK_DEADLOCK FALSE
