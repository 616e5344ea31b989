SPECIFICATION SpecShutdown
CONSTANTS
    SaveMp4 = TRUE
    PassFrameNum = 2
    Mp4Length = 2
    FileLimit = 9
    MaxDirs = 9
    OldFiles <- MCOldFiles
    LocalTimes <- MCLocalTimes
    CreateMayFail = TRUE
    MaxSegments = 3
    MaxPerSegment = 3
    MaxStarts = 1
INVARIANTS
    CloseOnlyOpened
CHECK_DEADLOCK FALSE
