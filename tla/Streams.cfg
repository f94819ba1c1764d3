SPECIFICATION FairSpec
CONSTANTS
    Nodes = {1, 2}
    Calls = {c1, c2}
    Nil = nil
    Dials <- OneDialsTwo
    Requests <- BothWays
    Leavers = {2}
    Faults = {"lost", "join"}
    Watched = {c1}
    ShortLimit = 3
    LongLimit = 4
INVARIANT TypeOK
INVARIANT EntryIsRead
INVARIANT Addressed
INVARIANT FramesInStep
INVARIANT FramesNotTorn
INVARIANT FramesInOrder
PROPERTY EndsUnlessLocked
PROPERTY Heard
CHECK_DEADLOCK FALSE
