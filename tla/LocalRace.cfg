SPECIFICATION Spec
CONSTANTS
    Keys = {k1, k2}
    Values = {v1}
    Clients = {p1, p2}
    Worker = w
    MaxLen = 3
    Nil = nil
    Cells = {c1, c2, c3}
    Ops = {"get", "set", "delete"}
INVARIANT TypeOK
INVARIANT ListOK
INVARIANT MappedHasData
PROPERTY ImplementsMoveToFront
