SPECIFICATION Spec
CONSTANTS
    Requests = {r1}
    Workers = {w1, w2}
    NoWorker = NoWorker
    Costs = {1}
    GlobalInFlightTokens = 1
    SSEBufferSize = 1
    MaxTokens = 2
    WireChunks <- PlainChunks
    WorkerFailures <- BothFailures
    ClientFaults <- PatientClient
INVARIANTS
    DeadlineIsTold
