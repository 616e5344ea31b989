SPECIFICATION Spec
CONSTANTS
    Levels <- BoundaryLevels
    MaxFailures = 2
INVARIANTS
    LostOnlyByFailure
    SettingsReachEngine
PROPERTIES
    EngineOrder
CHECK_DEADLOCK FALSE
