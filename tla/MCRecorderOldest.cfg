SPECIFICATION Spec
CONSTANTS
    SaveMp4 = TRUE
    PassFrameNum = 2
    Mp4Length = 1
    FileLimit = 3
    MaxDirs = 7
    OldFiles <- MCOldFiles
    LocalTimes <- MCLocalTimes
    CreateMayFail = FALSE
    MaxSegments = 3
    MaxPerSegment = 3
PROPERTIES
    OldestDeleted
CHECK_DEADLOCK FALSE
