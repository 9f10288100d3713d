SPECIFICATION Spec
CONSTANTS
    Threads = {1, 2}
    b1 = b1
    b2 = b2
    b3 = b3
    Blocks <- MCBlocks
    NoBlock = NoBlock
    SizeOf <- MCSizeOf
    MaxRecords = 6
    MaxRestarts = 2
INVARIANTS
    TypeOK
    DurableIntact
