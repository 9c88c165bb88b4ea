CONSTANTS
    Addrs = {0, 1, 2, 3}
    RealAddrs = {0, 1, 2, 3}
    Values = {0, 1}
    MapChoices <- MCMapChoices
    NoMap = NoMap
    NoStatus = NoStatus
    OutOfBounds = OutOfBounds
SPECIFICATION Spec
INVARIANTS TypeOK
PROPERTIES
    BatchWritesIndependent
