SPECIFICATION Spec
CONSTANTS
    COUNT = 2
    TRIES = 1
    HEATER_DUR = 100
    Second = 100
    Sentence = 8
    MaxFaults = 1
    INTERVAL = 206
    SendTime = 40
INVARIANT SentIsMeasured
