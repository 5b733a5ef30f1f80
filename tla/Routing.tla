------------------------------- MODULE Routing -------------------------------
(***************************************************************************)
(* A request's way through parseRequest and selectWorker                    *)
(* (internal/gateway/http.go) with the router's policies and cursor.        *)
(*                                                                          *)
(* Requests come one after another: the cursor is all that two requests     *)
(* share here, and each takes it in one atomic Add.  A snapshot and the     *)
(* decision made on it are one step, since nothing Select reads afterwards  *)
(* can change; a decision on an older snapshot is one made before the       *)
(* registry changed.  Gateway.tla has the concurrency of the attempts.      *)
(***************************************************************************)
EXTENDS RequestLimits, RoutingPolicy

CONSTANTS
    Workers,        \* worker IDs, numbers in their lexical order
    Reports,        \* Reports[p]: the states a worker may have under policy p
    Bodies,         \* requests: [estimate, blocks, given, maxTokens]
    Headers,        \* values of X-Aether-Timeout-Ms
    Seeds,          \* configured round_robin_seed values
    MaxDecisions    \* bound on round-robin selections

ASSUME WidthAssumption ==
    /\ {TokenWidth, 2 ^ TokenWidth} \subseteq Nat \ {0}
    /\ Workers \subseteq Nat \ {0} /\ IsFiniteSet(Workers)
    /\ Seeds \subseteq 0 .. 2 ^ TokenWidth - 1
    /\ \A b \in Bodies : Len(b.blocks) = b.estimate \div BlockTokens

\* A body's numbers were decoded into uint64, a header may hold any number.
ASSUME InputAssumption ==
    /\ \A b \in Bodies : {b.estimate, b.maxTokens} \subseteq Nat /\ b.given \in BOOLEAN
    /\ \A h \in Headers : h.ms \in Int

\* A fault is one that the policy looks for, and a worker reports prefixes as
\* prefix.Fingerprints counts them: the registry checks no length against a hash.
ASSUME ReportAssumption ==
    /\ {BlockTokens, 2 ^ CountWidth} \subseteq Nat \ {0} /\ Tolerance \in Nat
    /\ \A b \in Bodies : b.blocks \in Seq(ToSet(b.blocks))
    /\ \A p \in Policies : \A r \in Reports[p] :
        /\ {r.waiting, r.runningWork, r.running, r.quantum, r.prefillTime, r.decodeTime} \subseteq Nat
        /\ r.faults \subseteq Disqualifying(p)
        /\ \A c \in ToSet(r.cached) : c.tokenCount = BlockTokens * Len(c.sha)

VARIABLES
    policy, cursor,     \* Router
    registry,           \* what Registry.Snapshot returns, by worker
    pc,                 \* where the handler is
    request,            \* what routing reads of the request
    terms,              \* header, maxTokens and timeout until they are handed on
    excluded,           \* workers that failed this request
    chosen,             \* the worker of the current attempt
    decisions,          \* history: round-robin selections made
    window              \* history: round-robin selections over an unchanged list

vars == <<policy, cursor, registry, pc, request, terms, excluded, chosen, decisions, window>>
requestVars == <<request, terms>>
historyVars == <<decisions, window>>

Nobody == 0
NoRequest == [estimate |-> 0, blocks |-> <<>>]
NoTerms == [header |-> NoHeader, maxTokens |-> 0, timeout |-> 0]
NoWindow == [ring |-> <<>>, tally |-> <<>>, wraps |-> 0]

Init ==
    /\ policy \in Policies
    /\ cursor \in Seeds
    /\ registry \in [Workers -> Reports[policy]]
    /\ pc = "idle"
    /\ request = NoRequest /\ terms = NoTerms
    /\ excluded = {} /\ chosen = Nobody
    /\ decisions = 0 /\ window = NoWindow

-----------------------------------------------------------------------------
\* A body or a header that the limits refuse is answered 400.
Refused(body, header) ==
    TokensRefused(body.estimate, MaxTokensOf(body)) \/ TimeoutRefused(header)

BadRequest ==
    /\ pc = "idle"
    /\ \E body \in Bodies, header \in Headers : Refused(body, header)
    /\ UNCHANGED vars

ParseRequest(body, header) ==
    /\ pc = "idle"
    /\ ~Refused(body, header)
    /\ pc' = "parsed"
    /\ request' = [estimate |-> body.estimate, blocks |-> body.blocks]
    /\ terms' = [header |-> header, maxTokens |-> MaxTokensOf(body), timeout |-> EffectiveTimeout(header)]
    /\ UNCHANGED <<policy, cursor, registry, excluded, chosen, historyVars>>

\* The timeout goes into the context and the cost into the lease.
Admitted ==
    /\ pc = "parsed"
    /\ pc' = "routing"
    /\ terms' = NoTerms
    /\ UNCHANGED <<policy, cursor, registry, request, excluded, chosen, historyVars>>

-----------------------------------------------------------------------------
WorkerAt(w) ==
    LET r == registry[w]
    IN [id |-> w, faults |-> r.faults, waiting |-> r.waiting, runningWork |-> r.runningWork,
        running |-> r.running, quantum |-> r.quantum, prefillTime |-> r.prefillTime,
        decodeTime |-> r.decodeTime, cached |-> r.cached]

\* The workers listed in the order of these IDs.
Listed(order) == [i \in DOMAIN order |-> WorkerAt(order[i])]

Snapshot == ByID(Listed(SetToSeq(Workers)))

Advanced(c) == (c + 1) % 2 ^ TokenWidth

\* The round-robin window after w was selected from the list with these IDs.
Counted(ring, w) ==
    LET same == window.ring = ring
        tally == IF same THEN window.tally ELSE [v \in ToSet(ring) |-> 0]
    IN [ring |-> ring, tally |-> [tally EXCEPT ![w] = @ + 1],
        wraps |-> (IF same THEN window.wraps ELSE 0) + (IF Advanced(cursor) = 0 THEN 1 ELSE 0)]

SelectWorker ==
    /\ pc = "routing"
    /\ decisions < MaxDecisions
    /\ LET eligible == Candidates(policy, Snapshot, excluded)
           selected == Selected(policy, request, eligible, cursor).id
       IN /\ eligible # <<>>
          /\ chosen' = selected
          /\ IF policy = "round_robin"
             THEN /\ cursor' = Advanced(cursor)
                  /\ window' = Counted([i \in DOMAIN eligible |-> eligible[i].id], selected)
                  /\ decisions' = decisions + 1
             ELSE UNCHANGED <<cursor, historyVars>>
    /\ pc' = "serving"
    /\ UNCHANGED <<policy, registry, requestVars, excluded>>

\* The handler returns.
Return ==
    /\ pc' = "idle"
    /\ request' = NoRequest
    /\ excluded' = {}
    /\ chosen' = Nobody
    /\ UNCHANGED <<policy, registry, terms>>

NobodyEligible ==
    /\ pc = "routing"
    /\ Candidates(policy, Snapshot, excluded) = <<>>
    /\ Return
    /\ UNCHANGED historyVars

\* Mutant of NoEligibleWorker: the cursor is taken before the list is found empty.
NoEligibleWorkerAdvances == NobodyEligible /\ cursor' = Advanced(cursor)

\* ErrNoEligibleWorkers: the cursor stays.
NoEligibleWorker == NobodyEligible /\ UNCHANGED cursor

\* The first attempt failed in a way that is retried.
Retry ==
    /\ pc = "serving"
    /\ excluded = {}
    /\ pc' = "routing"
    /\ excluded' = {chosen}
    /\ chosen' = Nobody
    /\ UNCHANGED <<policy, cursor, registry, requestVars, historyVars>>

\* The attempt succeeded, or failed for good.
AttemptOver == pc = "serving" /\ Return /\ UNCHANGED <<cursor, historyVars>>

\* A heartbeat, a registration or the passing of time changes a worker's entry.
Report(w, report) ==
    /\ registry' = [registry EXCEPT ![w] = report]
    /\ UNCHANGED <<policy, cursor, pc, requestVars, excluded, chosen, historyVars>>

Next ==
    \/ BadRequest
    \/ \E body \in Bodies, header \in Headers : ParseRequest(body, header)
    \/ Admitted
    \/ SelectWorker
    \/ NoEligibleWorker
    \/ Retry
    \/ AttemptOver
    \/ \E w \in Workers : \E report \in Reports[policy] : Report(w, report)

Spec == Init /\ [][Next]_vars

-----------------------------------------------------------------------------
(* However large the header, and although its conversion wraps, a request's  *)
(* timeout is positive and within the configured limits (effectiveTimeout).  *)
TimeoutInRange ==
    pc = "parsed" =>
        /\ 0 < terms.timeout /\ terms.timeout <= MaxRequestTimeout
        /\ terms.header # NoHeader => MinRequestTimeout <= terms.timeout

\* The length of the parsed request, and what admission is asked for.
Length == request.estimate + terms.maxTokens
ReservedCost == Cost(request.estimate, terms.maxTokens)

(* Whatever the limits Validate lets through, an accepted request has both   *)
(* lengths within their own limits and reserves no more than                 *)
(* MaxContextTokens: its true length, or, when that does not fit into the    *)
(* integers, exactly the wrapped one, which needs limits that overflow       *)
(* together.  With limits that fit, every cost is the true length and none   *)
(* is zero (parseRequest, handleChat).                                       *)
CostIsAccounted ==
    pc = "parsed" =>
        /\ terms.maxTokens \in 1 .. MaxOutputTokens
        /\ request.estimate <= MaxInputTokens
        /\ ReservedCost <= MaxContextTokens
        /\ ReservedCost = IF Length < 2 ^ Width THEN Length ELSE Length - 2 ^ Width
        /\ LimitsFit => ReservedCost = Length /\ ReservedCost > 0

-----------------------------------------------------------------------------
(* docs/routing-algorithms.md, as the reference for Router.Select. *)

EligibleNow == {w \in Workers \ excluded : registry[w].faults = {}}

\* The longest prefix of whole blocks that the worker has cached.
LongestCached(w) ==
    LET held == {n \in 1 .. Len(request.blocks) :
                    \E c \in ToSet(registry[w].cached) : c.sha = SubSeq(request.blocks, 1, n)}
    IN BlockTokens * Max({0} \union held)

\* The formulas on unbounded integers.
TrueScore(w) ==
    LET r == registry[w]
        queue == (r.waiting + r.runningWork) * r.prefillTime
        uncached == Max({0, request.estimate - LongestCached(w)})
    IN CASE policy = "least_waiting_tokens" -> r.waiting
         [] policy = "prefix_affinity" -> queue + uncached * r.prefillTime
         [] OTHER -> queue + uncached * r.prefillTime + r.running * r.quantum * r.decodeTime

\* Minimal score, then more matched tokens, then the worker's ID.
Before(v, w) ==
    \/ TrueScore(v) < TrueScore(w)
    \/ /\ TrueScore(v) = TrueScore(w)
       /\ IF policy = "least_waiting_tokens" \/ LongestCached(v) = LongestCached(w)
          THEN v < w ELSE LongestCached(v) > LongestCached(w)

\* The products and sums fit Go's widths, and scores differ clearly or not at all.
WellScaled ==
    /\ \A w \in EligibleNow :
        /\ registry[w].running * registry[w].quantum < 2 ^ CountWidth
        /\ registry[w].waiting + registry[w].runningWork < 2 ^ TokenWidth
    /\ \A v, w \in EligibleNow :
        TrueScore(v) = TrueScore(w) \/ ~Indistinct(policy, TrueScore(v), TrueScore(w))

(* A decision takes an eligible worker that this request has not tried, and  *)
(* none is missed.  Its score is the least but for one Tolerance per rival:  *)
(* less is no order, since scores close to each other are ties, and the scan *)
(* may climb from tie to tie.  When scores are clearly apart and the integer *)
(* products fit, it is the worker the documented formulas and tie-breaks     *)
(* name.                                                                     *)
SelectionStep ==
    /\ pc = "routing" /\ pc' = "serving" =>
        /\ chosen' \in EligibleNow
        /\ policy # "round_robin" =>
            /\ \A w \in EligibleNow :
                Score(policy, request, WorkerAt(chosen'))
                    <= Score(policy, request, WorkerAt(w)) + (Cardinality(EligibleNow) - 1) * Tolerance
            /\ WellScaled => \A w \in EligibleNow \ {chosen'} : Before(chosen', w)
    /\ pc = "routing" /\ pc' = "idle" => EligibleNow = {}

SelectionMinimal == [][SelectionStep]_vars

\* The workers in any order, as a caller of Select may pass them.
Orders == {Listed(order) : order \in SetToSeqs(Workers)}

(* A decision depends on the request, the workers and the cursor, never on   *)
(* the order in which the workers are listed: Select does not rely on        *)
(* Registry.Snapshot having sorted them, ties and near ties included         *)
(* (docs/system-design.md: "deterministic").                                 *)
DecisionIsDeterministic ==
    pc = "routing" =>
        \A s, t \in Orders :
            LET u == Candidates(policy, s, excluded)
                v == Candidates(policy, t, excluded)
            IN u = <<>> \/ Selected(policy, request, u, cursor) = Selected(policy, request, v, cursor)

(* Selections over an unchanged list of eligible workers are even: two       *)
(* workers' counts differ by at most one, and by one more for each wrap of   *)
(* the 64-bit cursor, whatever failed selections and seeds come in between.  *)
RoundRobinEven ==
    \A v, w \in ToSet(window.ring) : window.tally[v] - window.tally[w] <= 1 + window.wraps

(* docs/api-contract.md of X-Aether-Timeout-Ms: "clamped to the configured   *)
(* minimum and maximum request timeout".                                     *)
TimeoutIsClamped ==
    (pc = "parsed" /\ terms.header # NoHeader)
        => terms.timeout = Clamped(terms.header.ms * Millisecond)
=============================================================================
