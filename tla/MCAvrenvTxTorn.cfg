SPECIFICATION Spec
CONSTANTS
    INTERVAL = 4
    WdtPeriod = 8
    MaxInit = 3
    MaxMeas = 3
    CardSize = 3
    Splits = {2}
    Batteries <- MCBatteries
    MaxBattery = 4
    BAT_LOW_MV = 2
    BAT_SDC_MV = 2
    BAT_PAS_MV = 4
INVARIANT AddressMaintained
