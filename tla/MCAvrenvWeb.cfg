SPECIFICATION FairSpec
CONSTANTS
    MAX_AGE = 2
    MaxPosts = 2
    Good <- MCGood
    Requests = {g1, g2}
INVARIANTS TypeOK RegularRead OfflineSound OnlineSound
PROPERTY PageGoesOffline
