---------------------------- MODULE RequestLimits ----------------------------
(***************************************************************************)
(* The arithmetic of parseRequest and effectiveTimeout                      *)
(* (internal/gateway/http.go) on Go's fixed-width integers: the token       *)
(* limits, the cost that admission is asked for and the timeout header.     *)
(* The limits are those RouterConfig.Validate lets through.                 *)
(***************************************************************************)
EXTENDS Integers

CONSTANTS
    Width,          \* bits of int64 and uint64
    Millisecond,    \* time.Millisecond in units of a duration
    DefaultMaxOutputTokens, MaxOutputTokens, MaxInputTokens, MaxContextTokens,
    RequestTimeout, MinRequestTimeout, MaxRequestTimeout

MaxInt == 2 ^ (Width - 1) - 1
Uint(n) == n % 2 ^ Width
\* Two's complement, as Go wraps a signed product.
Int64(n) == IF Uint(n) > MaxInt THEN Uint(n) - 2 ^ Width ELSE Uint(n)

ValidTokenLimits ==
    /\ DefaultMaxOutputTokens \in 1 .. MaxOutputTokens
    /\ MaxInputTokens \in 1 .. MaxContextTokens
    /\ {MaxOutputTokens, MaxContextTokens} \subseteq 0 .. 2 ^ Width - 1

ValidTimeouts ==
    /\ MaxRequestTimeout \in 1 .. MaxInt
    /\ {RequestTimeout, MinRequestTimeout} \subseteq 1 .. MaxRequestTimeout

ASSUME ConfigAssumption ==
    /\ {Width, 2 ^ Width, Millisecond} \subseteq Nat \ {0}
    /\ ValidTokenLimits /\ ValidTimeouts

\* Validate does not look at the sum of the limits: it may overflow.
LimitsFit == MaxInputTokens + MaxOutputTokens < 2 ^ Width

-----------------------------------------------------------------------------
\* X-Aether-Timeout-Ms: absent, not a number, or a number of any size.
NoHeader == [kind |-> "absent", ms |-> 0]
Malformed == [kind |-> "malformed", ms |-> 0]
Header(ms) == [kind |-> "number", ms |-> ms]

\* strconv.ParseInt fails on what is no number and on what no int64 can hold.
ParseInt(header) == header.kind = "number" /\ header.ms \in -MaxInt - 1 .. MaxInt

TimeoutRefused(header) ==
    header # NoHeader /\ ~(ParseInt(header) /\ header.ms > 0)

\* Mutant of Clamped: only the upper limit is applied.
ClampedAbove(timeout) == IF timeout > MaxRequestTimeout THEN MaxRequestTimeout ELSE timeout

Clamped(timeout) ==
    CASE timeout < MinRequestTimeout -> MinRequestTimeout
      [] timeout > MaxRequestTimeout -> MaxRequestTimeout
      [] OTHER -> timeout

EffectiveTimeout(header) ==
    IF header = NoHeader THEN RequestTimeout
    ELSE Clamped(Int64(header.ms * Millisecond))

-----------------------------------------------------------------------------
\* A body carries an estimate of its input and, or not, max_tokens.
MaxTokensOf(body) == IF body.given THEN body.maxTokens ELSE DefaultMaxOutputTokens

\* What Reserve is asked for.
Cost(estimate, maxTokens) == Uint(estimate + maxTokens)

\* Mutant of TokensRefused: max_tokens itself is not limited.
TokensRefusedBySum(estimate, maxTokens) ==
    \/ estimate > MaxInputTokens
    \/ Cost(estimate, maxTokens) > MaxContextTokens

TokensRefused(estimate, maxTokens) ==
    \/ maxTokens = 0
    \/ maxTokens > MaxOutputTokens
    \/ estimate > MaxInputTokens
    \/ Cost(estimate, maxTokens) > MaxContextTokens
=============================================================================
