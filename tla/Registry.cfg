SPECIFICATION FairSpec
CONSTANTS
    Workers = {w1}
    Readers = {k1}
    Reports = {"HEALTHY", "malformed", "undecodable"}
    NoWorker = NoWorker
    StaleAfter = 1
    MaxClock = 2
    MaxVersion = 3
    MaxIncarnation = 1
    MaxFaults = 1
INVARIANTS
    TypeOK
    NoGhosts
    RefusalsRecover
PROPERTIES
    Reregisters
