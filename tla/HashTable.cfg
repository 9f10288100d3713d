SPECIFICATION Spec
CONSTANTS
    k3 = k3  b1 = b1  b2 = b2
    Threads = {t1, t2}
    NoThread = NoThread
    Keys = {k1, k2, k3}
    Buckets = {b1, b2}
    NoKey = NoKey
    NotFound = NotFound
    Unwritten = Unwritten
    MaxElements = 4
    Bucket <- TwoBuckets
INVARIANTS
    TypeOK
    ChainIntact
    LinkedOnce
    FindAtomic
PROPERTIES
    LinkedImmutable
    ImplementsKeyStore
    FindReturns
