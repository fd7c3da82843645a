SPECIFICATION Spec
CONSTANTS
    MAX_AGE = 2
    MaxPosts = 2
    Good <- MCGood
    Requests = {g1}
INVARIANT OnlineHasData
