SPECIFICATION Spec
CONSTANTS
    Messages = {1, 2}
    PBACK = 3
    SCOPE = 2
    MaxTime = 3
    N = 2
    MaxPolls = 2
INVARIANTS
    TypeOK
    VisibleKept
    NothingMissed
    OrderedUnlessOverlapping
CHECK_DEADLOCK FALSE
