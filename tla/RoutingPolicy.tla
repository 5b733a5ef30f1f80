---------------------------- MODULE RoutingPolicy ----------------------------
(***************************************************************************)
(* Router.Select (internal/routing/routing.go) and the prefix match it uses *)
(* (internal/prefix/prefix.go) as operators on a request and a snapshot.    *)
(*                                                                          *)
(* A worker is [id, faults, waiting, runningWork, running, quantum,         *)
(* prefillTime, decodeTime, cached]: its ID as a number in lexical order,   *)
(* the reasons for which it is not eligible, its reported load, the time it *)
(* takes per token (the reciprocal of the reported rate, in units of        *)
(* Tolerance's) and its cached prefixes.  A request is [estimate, blocks].  *)
(* A fingerprint's SHA-256 is the prefix it is computed from: collisions    *)
(* and float64 rounding are left out.                                       *)
(***************************************************************************)
EXTENDS Integers, Sequences, SequencesExt, FiniteSetsExt

CONSTANTS
    BlockTokens,    \* tokens per fingerprinted block
    Tolerance,      \* the 1e-12 s below which two scores count as equal
    TokenWidth,     \* bits of the uint64 token counts and of the cursor
    CountWidth      \* bits of the uint32 request counts

Policies == {"round_robin", "least_waiting_tokens", "prefix_affinity", "predicted_ttft"}

\* The cumulative prefixes of whole blocks.
Fingerprints(blocks) ==
    [k \in 1 .. Len(blocks) |-> [tokenCount |-> k * BlockTokens, sha |-> SubSeq(blocks, 1, k)]]

\* The greatest length cached under a hash must be the request's.
LongestMatch(request, cached) ==
    LET cache(sha) == Max({0} \union {c.tokenCount : c \in {d \in ToSet(cached) : d.sha = sha}})
    IN Max({0} \union {f.tokenCount : f \in {g \in ToSet(request) : cache(g.sha) = g.tokenCount}})

Disqualifying(policy) ==
    {"stale_heartbeat", "protocol_mismatch", "incompatible_worker", "unhealthy", "invalid_kv_metadata"}
        \union (IF policy = "round_robin" THEN {} ELSE {"missing_metric"})

\* ineligibility found no reason.
Eligible(policy, worker, excluded) ==
    worker.id \notin excluded /\ worker.faults \intersect Disqualifying(policy) = {}

-----------------------------------------------------------------------------
MatchedTokens(request, worker) == LongestMatch(Fingerprints(request.blocks), worker.cached)

QueueDelay(worker) == ((worker.waiting + worker.runningWork) % 2 ^ TokenWidth) * worker.prefillTime

PrefillDelay(request, worker) ==
    Max({0, request.estimate - MatchedTokens(request, worker)}) * worker.prefillTime

\* A uint32 product, converted to float64 afterwards.
OverloadPenalty(worker) == ((worker.running * worker.quantum) % 2 ^ CountWidth) * worker.decodeTime

\* Mutant of Score: predicted TTFT leaves the queue out.
ScoreWithoutQueue(policy, request, worker) ==
    CASE policy = "least_waiting_tokens" -> worker.waiting
      [] policy = "prefix_affinity" -> QueueDelay(worker) + PrefillDelay(request, worker)
      [] OTHER -> PrefillDelay(request, worker) + OverloadPenalty(worker)

Score(policy, request, worker) ==
    CASE policy = "least_waiting_tokens" -> worker.waiting
      [] policy = "prefix_affinity" -> QueueDelay(worker) + PrefillDelay(request, worker)
      [] OTHER -> QueueDelay(worker) + PrefillDelay(request, worker) + OverloadPenalty(worker)

\* Two numbers of waiting tokens differ by more than 1e-12 or not at all.
Indistinct(policy, a, b) ==
    Max({a - b, b - a}) <= (IF policy = "least_waiting_tokens" THEN 0 ELSE Tolerance)

Less(policy, request, worker, best) ==
    LET score == Score(policy, request, worker)
        bestScore == Score(policy, request, best)
        matched == MatchedTokens(request, worker)
        bestMatched == MatchedTokens(request, best)
    IN IF ~Indistinct(policy, score, bestScore) THEN score < bestScore
       ELSE IF policy # "least_waiting_tokens" /\ matched # bestMatched THEN matched > bestMatched
       ELSE worker.id < best.id

\* The workers in ascending order of their IDs.
ByID(workers) ==
    CHOOSE sorted \in {[i \in DOMAIN workers |-> workers[p[i]]] :
                           p \in Bijection(DOMAIN workers, DOMAIN workers)} :
        \A i, j \in DOMAIN workers : i < j => sorted[i].id <= sorted[j].id

\* The eligible ones of a list of workers, in its order.
EligibleOf(policy, workers, excluded) ==
    LET upTo[n \in 0 .. Len(workers)] ==
            IF n = 0 THEN <<>>
            ELSE IF Eligible(policy, workers[n], excluded) THEN Append(upTo[n - 1], workers[n])
            ELSE upTo[n - 1]
    IN upTo[Len(workers)]

\* Mutant of Candidates: the order of the snapshot is kept.
CandidatesUnsorted(policy, snapshot, excluded) == EligibleOf(policy, snapshot, excluded)

\* The eligible workers of a snapshot, by ID whatever their order was.
Candidates(policy, snapshot, excluded) == EligibleOf(policy, ByID(snapshot), excluded)

\* The best of some candidates: each is compared with the best before it.
Scan(policy, request, candidates) ==
    LET best[n \in 1 .. Len(candidates)] ==
            IF n = 1 THEN candidates[1]
            ELSE IF Less(policy, request, candidates[n], best[n - 1]) THEN candidates[n]
            ELSE best[n - 1]
    IN best[Len(candidates)]

\* The worker selected among candidates (not empty) with the cursor taken.
Selected(policy, request, candidates, cursor) ==
    IF policy = "round_robin" THEN candidates[(cursor % Len(candidates)) + 1]
    ELSE Scan(policy, request, candidates)
=============================================================================
