SPECIFICATION Spec
CONSTANTS
    Nodes = {1, 2, 3, 4}
    Keys = {k1}
    Score <- HighWins
    Replicas = 2
    Values = {v1}
    Nil = nil
    Ops = {1}
    Kinds = {"set"}
    Sequential = FALSE
    Callers = {1}
    HasBucket = {1, 2, 3, 4}
    Members = {1, 2}
    Dials <- LowDials
    Rebalancers = {1, 2}
    Lossy = FALSE
    MaxCrashes = 0
INVARIANT NotLost
CHECK_DEADLOCK FALSE
