SPECIFICATION Spec
CONSTANTS
    Nodes = {1, 2, 3}
    Keys = {k1}
    Score <- HighWins
    Replicas = 3
    Values = {v1}
    Nil = nil
    Ops = {1, 2}
    Kinds = {"get", "set", "delete"}
    Sequential = TRUE
    Callers = {3}
    HasBucket = {1, 2, 3}
    Members = {1, 2, 3}
    Dials <- HighDials
    Rebalancers = {1}
    Lossy = FALSE
    MaxCrashes = 1
INVARIANT AckedOnQuorum
INVARIANT NotLost
CHECK_DEADLOCK FALSE
