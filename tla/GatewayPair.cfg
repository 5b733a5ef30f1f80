SPECIFICATION Spec
CONSTANTS
    Requests = {r1, r2}
    Workers = {w1, w2}
    NoWorker = NoWorker
    Costs = {1, 2}
    GlobalInFlightTokens = 2
    SSEBufferSize = 1
    MaxTokens = 1
    WireChunks <- PlainChunks
    WorkerFailures <- OnlyRetryable
    ClientFaults <- PatientClient
SYMMETRY Symmetry
INVARIANTS
    LeaseFollowsHandler
    ConnectionsArePooled
