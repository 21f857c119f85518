SPECIFICATION FairSpec
CONSTANTS
    Clients = {c1, c2}
    Buffers = {b1, b2}
    None = None
PROPERTY IdleStopClears
CHECK_DEADLOCK FALSE
