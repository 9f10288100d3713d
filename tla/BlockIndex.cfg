SPECIFICATION Spec
CONSTANTS
    Blocks = {g, x, y}
    Genesis = g
    NoBlock = none
    Readers = {r}
    MaxHeight = 2
    MaxRestarts = 1
INVARIANTS
    TypeOK
    ReadsCurrent
    UpdatesMerge
PROPERTY
    OnlyConfirmsLost
