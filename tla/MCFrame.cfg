SPECIFICATION SpecFrame
CONSTANTS
    ModelSize <- MCModelSize
    InputWidth <- MCModelSize
    InputHeight <- MCInputHeight
    VideoWidth <- MCVideoWidth
    VideoHeight <- MCVideoHeight
    SliceSizes <- MCSliceSizes
    SpsSizes <- MCSpsSizes
    PpsSizes <- MCPpsSizes
INVARIANTS
    CoversObject
    DrawnInPicture
    RtspGetsStartCode
    DeltaSampleExact
    SliceComplete
CHECK_DEADLOCK FALSE
