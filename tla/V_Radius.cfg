SPECIFICATION Spec
CONSTANTS
    Nodes = {1, 2, 3}
    Users = {u1, u2}
    Positions <- Places
    Nil = nil
    Precisions = {1, 2}
    MaxPrecision = 2
    Cells <- Geohashes
    Cell <- Hash
    Ops = {1, 2}
    Callers = {1, 3}
    HasBucket = {1, 2}
    Holders <- Held
    MaxLen = 1
    Lossy = TRUE
    Expiring = {1}
    Rebalancers = {2}
    Place <- Map
    HalfTurn = 1440
    Height <- CellHeight
    Width <- CellWidth
    Queries <- Asked
    CosPercent <- Cosine
    Distance <- Distances
INVARIANT RadiusFindsAll
CHECK_DEADLOCK FALSE
