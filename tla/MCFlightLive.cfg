SPECIFICATION LoopSpec
CONSTANTS
    TicksPerSec = 1
    BootDelay = 0
    LoadDelay = 1
    ChuteTimeout = 1
    LuxThreshold = 1
    AltChute = 3
    AltLegs = 1
    SlowSpeed = 2
    SlowReps = 3
    NearDistance = 1
    CutHeight = 1
    UsleepMax = 2
    StatusPeriod = 2
    Heights <- MCHeights
    Luxes <- MCLuxes
    Distances <- MCDistances
    ZeroPressure = ZeroPressure
    NegInf = NegInf
    PosInf = PosInf
    NaN = NaN
    MaxIter = 1
    MaxGps = 0
    Horizon = 6
    MaxReboots = 1
PROPERTIES
    LegsTimeoutFires
    LandingReported
    MissionCompletes
CHECK_DEADLOCK FALSE
