SPECIFICATION Spec
CONSTANTS
    Sizes <- VaryingSizes
    MaxRounds = 3
    Window = 2
    MaxRestarts = 1
INVARIANTS
    TypeOK
    SavedComplete
    MatchingUnlessImpaired
    PictureFilePresent
CHECK_DEADLOCK FALSE
