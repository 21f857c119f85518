SPECIFICATION Spec
CONSTANTS
    Angles <- MCAngles
    InMax = 180
    OutMin = 1600
    OutMax = 5000
    Centre = 4000
INVARIANTS
    TypeOK
    Untorn
