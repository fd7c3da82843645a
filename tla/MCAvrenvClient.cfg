SPECIFICATION FairSpec
CONSTANTS
    POST_TIMEOUT = 1
    MARGIN = 3
    LIFE = 4
    QueueMax = 1
    Lines = 2
    FIELD_LEN = 2
    OtherLens = {1, 3}
INVARIANTS TypeOK TokenValid NoMixedDataset LogComplete
PROPERTIES DataFlows SigintStops
