SPECIFICATION FairSpec
INVARIANT TypeOK
INVARIANT NoOrphan
CONSTANTS
    Nodes = {n1, n2}
    Calls = {c1, c2, c3}
    Nil = nil
    Dialers = {n1, n2}
    Faults = {"leave", "update", "lost", "fail"}
    MaxAttempts = 3
PROPERTY AcceptedForgotten
CHECK_DEADLOCK FALSE
