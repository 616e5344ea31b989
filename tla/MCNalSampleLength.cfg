SPECIFICATION SpecPacket
CONSTANTS
    SliceSizes <- MCSliceSizes
    SpsSizes <- MCSpsSizes
    PpsSizes <- MCPpsSizes
INVARIANT LengthBeforeEachUnit
CHECK_DEADLOCK FALSE
