SPECIFICATION FairSpec
CONSTANTS
    Requests = {r1}
    Workers = {w1, w2}
    NoWorker = NoWorker
    Costs = {1}
    GlobalInFlightTokens = 1
    SSEBufferSize = 2
    MaxTokens = 3
    WireChunks <- AllChunks
    WorkerFailures <- BothFailures
    ClientFaults <- AnyClient
INVARIANTS
    TypeOK
    StreamWellFormed
    CompletionIsComplete
    CommittedStreamsEnd
    RetryReplacesAttempt
    NoHealthyMeansUntried
PROPERTIES
    ResponseStartsOnce
    ContractRefinement
    RequestsEnd
    ReceiversExit
