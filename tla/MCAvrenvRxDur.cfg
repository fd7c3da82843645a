SPECIFICATION Spec
CONSTANTS
    PIT_MOD = 16
    START_MOD = 4
    Splits = {}
    UCHAR_MAX = 3
    MaxAwake = 1
    MaxEdges = 1
INVARIANT DurationAlwaysRight
