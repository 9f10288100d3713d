SPECIFICATION Spec
CONSTANTS
    Threads = {t1, t2}
    Files <- DatabaseFiles
INVARIANTS
    TypeOK
    TornIsRefused
    FailureIsRefused
CHECK_DEADLOCK FALSE
