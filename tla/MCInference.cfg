SPECIFICATION FairInferenceSpec
CONSTANTS
    MaxDet = 2
    CleanAfter = 2
    MaxFrames = 3
    MaxFaults = 1
INVARIANTS
    DrawnRecent
    InBounds
    NeverOlder
    ExactWhenQuiet
    OldBoxesCleared
PROPERTIES
    PictureEnds
    ImplementsHold
CHECK_DEADLOCK FALSE
