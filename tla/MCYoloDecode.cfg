SPECIFICATION Spec
CONSTANTS
    Height = 16
    Width = 32
    Strides <- MCStrides
    AnchorPerBranch = 2
    Anchors <- MCAnchors
    Classes = 3
    ZeroPoint <- MCZeroPoint
    ScaleNum <- MCScaleNum
    ScaleDen = 1000
    Threshold = 45
    Quiet <- MCQuiet
    Loud <- MCLoud
    LoudCells <- MCLoudCells
    MaxLoud = 2
INVARIANTS
    PrefilterSound
    CandidatesParallel
    BoxNearCell
CHECK_DEADLOCK FALSE
