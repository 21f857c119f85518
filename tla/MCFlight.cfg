SPECIFICATION Spec
CONSTANTS
    TicksPerSec = 2
    BootDelay = 1
    LoadDelay = 1
    ChuteTimeout = 1
    LuxThreshold = 1
    AltChute = 3
    AltLegs = 1
    SlowSpeed = 2
    SlowReps = 2
    NearDistance = 1
    CutHeight = 1
    UsleepMax = 3
    StatusPeriod = 2
    Heights <- MCHeights
    Luxes <- MCLuxes
    Distances <- MCDistances
    ZeroPressure = ZeroPressure
    NegInf = NegInf
    PosInf = PosInf
    NaN = NaN
    MaxIter = 2
    MaxGps = 1
    Horizon = 14
    MaxReboots = 1
INVARIANTS
    TypeOK
    PyroOrder
    FiredOncePerPhase
    SafeOnGround
    LegsDeadline
    DescentCounterBounded
    BlindNeverDeploys
    StatusTruthful
PROPERTIES
    MissionSpec
    NeverBack
CHECK_DEADLOCK FALSE
