SPECIFICATION MCSpec
CONSTANTS
    Shutdowns = {d1}
    Creates = {b1}
    StartupDelay = TRUE
    MaxExpired = 1
    Values = {v1}
    Clients = {p1}
    Worker = w
    MaxLen = 2
    Nil = nil
    Keys = {k1, k2, k3}
    Cells = {c1, c2, c3, c4, c5}
    SetGet = {"set", "get"}
    FewKeys = {k1}
    FewCells = {c1, c2}
    Ops = {"setFor", "get", "delete", "setTtl", "setTtlZero"}
INVARIANT TypeOK
INVARIANT NoPanicInOrder
INVARIANT NothingRunsOn
INVARIANT ReadyMeans
INVARIANT NoCrash
INVARIANT MappedHasData
INVARIANT WalkEnds
INVARIANT LenBounded
PROPERTY CallsReturn
PROPERTY Stops
PROPERTY ExpiredGone
CHECK_DEADLOCK FALSE
