SPECIFICATION Spec
CONSTANTS
    Blocks <- AllBlocks
    Chain <- Tree
    TxsOf <- TreeTxs
    Txs <- MCTxs
    InputsOf <- TreeInputs
    OutputsOf <- MCOutputsOf
    Pool = {"both"}
    Presumable = {"right"}
    Forks = 77
    Unconfirmed = 65535
    Deconfirmed = 65534
    Unverified = 100
    NotSpent = 200
    CacheCapacity = 3
    MaxSequence = 15
INVARIANT
    CachedAreUnspent
CHECK_DEADLOCK FALSE
