SPECIFICATION Spec
CONSTANTS
    COUNT = 3
    TRIES = 2
    HEATER_DUR = 100
    Second = 100
    Sentence = 8
    MaxFaults = 2
    INTERVAL = 206
    SendTime = 40
INVARIANTS
    TypeOK SlotInTime ConfAsleep MeasuredHere InTime HeatsAsLong
    ReadsAnywhere JoinedRefused
