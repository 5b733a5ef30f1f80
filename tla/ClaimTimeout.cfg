\* A header whose conversion to a duration wraps.
CONSTANTS
    Width = 6
    Millisecond = 3
    DefaultMaxOutputTokens = 2
    MaxOutputTokens = 3
    MaxInputTokens = 5
    MaxContextTokens = 7
    RequestTimeout = 8
    MinRequestTimeout = 5
    MaxRequestTimeout = 10
    BlockTokens = 2
    Tolerance = 1
    TokenWidth = 4
    CountWidth = 3
    Workers = {1}
    Reports <- OnePolicy
    Bodies <- AllBodies
    Headers <- AllHeaders
    Seeds = {0}
    MaxDecisions = 1
SPECIFICATION Spec
INVARIANT TimeoutIsClamped
