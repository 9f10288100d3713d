SPECIFICATION Spec
CONSTANTS
    Tags = {a, b}
    Interval = 2
    MaxHeight = 5
INVARIANTS
    TypeOK
    CheckpointsOnChain
PROPERTY
    LastMayLag
