SPECIFICATION FairSpec
CONSTANTS
    SaveMp4 = TRUE
    PassFrameNum = 2
    Mp4Length = 2
    FileLimit = 4
    MaxDirs = 9
    OldFiles <- MCOldFiles
    LocalTimes <- MCLocalTimes
    CreateMayFail = TRUE
    MaxSegments = 4
    MaxPerSegment = 4
INVARIANTS
    TypeOK
    KeyFrameFirst
    FullSegments
    NoPacketLost
    NoUseAfterClose
    KeptUnlessSameSecond
    FolderBounded
PROPERTIES
    RotationEnds
    ImplementsRecording
CHECK_DEADLOCK FALSE
