\* Three workers, every policy, retries, reports that change at any moment;
\* 6-bit integers, which the limits on input and output overflow together, and a
\* 4-bit cursor that may wrap.
CONSTANTS
    Width = 6
    Millisecond = 3
    DefaultMaxOutputTokens = 2
    MaxOutputTokens = 61
    MaxInputTokens = 5
    MaxContextTokens = 7
    RequestTimeout = 8
    MinRequestTimeout = 5
    MaxRequestTimeout = 10
    BlockTokens = 2
    Tolerance = 1
    TokenWidth = 4
    CountWidth = 3
    Workers = {1, 2, 3}
    Reports <- AllReports
    Bodies <- AllBodies
    Headers <- AllHeaders
    Seeds = {0, 14}
    MaxDecisions = 6
SPECIFICATION Spec
INVARIANTS
    TimeoutInRange
    CostIsAccounted
    DecisionIsDeterministic
    RoundRobinEven
PROPERTY SelectionMinimal
