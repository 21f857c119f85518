SPECIFICATION FairSpec
CONSTANTS
    MSG_BUF_SIZE = 5
    Cycles = 2
    SentLen = 4
INVARIANTS
    TypeOK
    InBounds
    Framed
    Intact
PROPERTIES
    Resynchronises
