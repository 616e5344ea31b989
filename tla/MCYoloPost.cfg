SPECIFICATION Spec
CONSTANTS
    MaxCandidates = 4
    Boxes <- MCBoxes
    Classes = {0, 1}
    Scores = {46, 70, 99}
    Confidence = 45
    NmsThreshold = 45
    MaxResults = 3
    Size = 20
INVARIANTS
    SortedWithIndices
    SuppressionExact
    BestResults
    ResultsInPicture
CHECK_DEADLOCK FALSE
