\* Up to five items under each policy, and five wall-clock requests.
CONSTANTS
    BlockTokens = 16
    Tolerance = 0
    TokenWidth = 10
    CountWidth = 8
    Items <- AllItems
    MaxItems = 5
    CachePrefixes = 2
    Seeds = {1, 1023}
    Durations = {1, 2, 3}
SPECIFICATION Spec
INVARIANTS
    SimulatedCacheSound
    ServedPromptIsWarm
    PercentilesNearestRank
