SPECIFICATION FairSpec
CONSTANTS
    Sizes <- EqualSizes
    MaxRounds = 4
    Window = 2
    MaxRestarts = 0
PROPERTIES
    Recovers
CHECK_DEADLOCK FALSE
