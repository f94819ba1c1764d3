SPECIFICATION FairSpec
CONSTANTS
    Nodes = {n1, n2}
    Calls = {c1, c2}
    Nil = nil
    Dialers = {n1, n2}
    Faults = {}
    MaxAttempts = 3
PROPERTY Connects
CHECK_DEADLOCK FALSE
