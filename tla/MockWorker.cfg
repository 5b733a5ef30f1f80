SPECIFICATION FairSpec
CONSTANTS
    Calls = {c1, c2}
    Requests <- BothRequests
    Fingerprints = {"a", "b", "c", "d"}
    TokenCount <- PrefixLengths
    MaxTokenCount = 3
    MaxWork = 2
    QueueCapacity = 1
    OutputCap = 2
    FailBeforeSettings = {0, 1}
    FailAfterSettings = {0, 1}
    CachePrefixLimit = 2
    CacheCapacityTokens = 3
    NoCall = NoCall
INVARIANTS
    CountersMatchJobs
    CacheSound
    WholeGenerations
PROPERTIES
    CallsEnd
    StopEnds
