SPECIFICATION FairSpec
CONSTANTS
    PIT_MOD = 8
    START_MOD = 4
    Splits = {2, 4}
    UCHAR_MAX = 2
    MaxAwake = 1
    MaxEdges = 1
INVARIANTS TypeOK NoEdgeLost Prompt DurationRight
PROPERTY BackToReceiving
