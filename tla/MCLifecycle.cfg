SPECIFICATION FairSpec
CONSTANTS
    Buffers = {b1, b2}
    MaxPackets = 2
    Fallible <- AllTested
INVARIANTS
    PipelineUp
    BoundEndsExist
    BufferOwned
    OnlyLatePacketsMisuseRtsp
PROPERTIES
    ThreadsStop
    ShutdownEnds
    PicturesFlow
CHECK_DEADLOCK FALSE
