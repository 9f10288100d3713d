SPECIFICATION CacheSpec
CONSTANTS
    t1 = t1
    t2 = t2
    t3 = t3
    t4 = t4
    Txs <- MCTxs
    OutputsOf <- MCOutputsOf
    CacheCapacity = 2
    MaxSequence = 5
    Heights = {1, 2}
INVARIANTS
    CircularByAge
    SpentStaysOut

