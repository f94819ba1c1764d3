SPECIFICATION FairSpec
INVARIANT TypeOK
INVARIANT AckedOnQuorum
INVARIANT NotLost
CONSTANTS
    Nodes = {1, 2, 3}
    Keys = {k1}
    Score <- HighWins
    Replicas = 2
    Values = {v1}
    Nil = nil
    Ops = {1}
    Kinds = {"set", "delete", "setTtl"}
    Sequential = FALSE
    Callers = {1, 2}
    HasBucket = {1, 2, 3}
    Members = {1, 2}
    Dials <- LowDials
    Rebalancers = {1, 2, 3}
    Lossy = FALSE
    MaxCrashes = 0
PROPERTY Converges
PROPERTY CallsEnd
CHECK_DEADLOCK FALSE
