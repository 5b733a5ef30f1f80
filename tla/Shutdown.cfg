SPECIFICATION FairServerSpec
CONSTANTS
    Requests = {r1}
    Workers = {w1, w2}
    NoWorker = NoWorker
    Costs = {1}
    GlobalInFlightTokens = 2
    SSEBufferSize = 1
    MaxTokens = 1
    WireChunks <- AllChunks
    WorkerFailures <- BothFailures
    ClientFaults <- AnyClient
INVARIANTS
    CleanClose
    NoConnectionLeft
PROPERTIES
    NoLateGeneration
    DrainEnds
    CloseReturns
