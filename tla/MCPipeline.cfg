SPECIFICATION Spec
CHECK_DEADLOCK FALSE
CONSTANTS
    BYTE = 8
    DEGREE = 1000
    MaxTaken = 2
    CardSize = 2
    QueueMax = 2
    Damaged = {2, 17}
    Measurements <- MCMeasurements
INVARIANTS TypeOK TrackRight
PROPERTY ImplementsTelemetry
