SPECIFICATION SpecShutdown
CONSTANTS
    SaveMp4 = TRUE
    PassFrameNum = 1
    Mp4Length = 2
    FileLimit = 9
    MaxDirs = 2
    OldFiles <- MCOldFiles
    LocalTimes <- MCLocalTimes
    CreateMayFail = TRUE
    MaxSegments = 3
    MaxPerSegment = 3
    MaxStarts = 3
INVARIANTS
    QuietShutdownCloses
    OneLostPerEnd
CHECK_DEADLOCK FALSE
