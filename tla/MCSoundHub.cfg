SPECIFICATION Spec
CONSTANTS
    Conns = {c1, c2, c3, c4}
    CAP = 1
INVARIANTS
    TypeOK
    MissedOnlyNextToRemoved
PROPERTY GoneIsRemoved
