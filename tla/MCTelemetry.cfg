SPECIFICATION Spec
CONSTANTS
    MaxFiles = 2
    TickerPeriod = 2
    MaxMsgs = 3
    MaxBoots = 2
INVARIANTS
    TypeOK
    LoggedBeforeSent
    LogOrder
PROPERTIES
    RecorderSpec
CHECK_DEADLOCK FALSE
