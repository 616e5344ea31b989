SPECIFICATION Spec
CONSTANTS
    Levels <- BoundaryLevels
    MaxFailures = 0
INVARIANTS
    FecLevelAsDocumented
CHECK_DEADLOCK FALSE
