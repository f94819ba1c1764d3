SPECIFICATION Spec
CONSTANTS
    Keys = {k1, k2, k3}
    Values = {v1}
    Clients = {p1}
    Worker = w
    MaxLen = 2
    Nil = nil
    Cells = {c1, c2, c3, c4, c5}
    Ops = {"set", "delete"}
INVARIANT Bounded
