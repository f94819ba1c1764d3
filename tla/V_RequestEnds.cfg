SPECIFICATION FairSpec
CONSTANTS
    Nodes = {1, 2}
    Calls = {c1, c2}
    Nil = nil
    Dials <- OneDialsTwo
    Requests <- AlsoItself
    Leavers = {}
    Faults = {"join"}
    Watched = {c1}
    ShortLimit = 3
    LongLimit = 4
PROPERTY RequestEnds
CHECK_DEADLOCK FALSE
