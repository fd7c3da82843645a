SPECIFICATION FairSpec
CONSTANTS
    INTERVAL = 4
    WdtPeriod = 8
    MaxInit = 3
    MaxMeas = 3
    CardSize = 2
    Splits = {2}
    Batteries <- MCBatteries
    MaxBattery = 4
    BAT_LOW_MV = 2
    BAT_SDC_MV = 2
    BAT_PAS_MV = 4
INVARIANTS TypeOK LogOrder Segmented NoSpuriousReset
PROPERTIES ImplementsSdLog FedOnlyWhenWell WedgedResets Recovers
