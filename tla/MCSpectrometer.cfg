SPECIFICATION FairSpec
CONSTANTS
    Clients = {c1, c2, c3}
    Buffers = {b1, b2}
    None = None
INVARIANTS
    TypeOK
    BuffersAccounted
    EachClientOnce
PROPERTY MessageFinishes
CHECK_DEADLOCK FALSE
