SPECIFICATION Spec
CONSTANTS
    Messages = {1, 2}
    PBACK = 3
    SCOPE = 2
    MaxTime = 3
    NoState = NoState
PROPERTY StatusRefreshed
CHECK_DEADLOCK FALSE
