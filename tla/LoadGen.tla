------------------------------- MODULE LoadGen -------------------------------
(***************************************************************************)
(* The load generator (cmd/loadgen/main.go): its loop over the items of a   *)
(* workload, the routing simulator with its three workers and their prefix  *)
(* caches, the wall-clock client, and the percentiles of the result.        *)
(*                                                                          *)
(* Times are in units of 1/12000 s, in which the simulator's rates have     *)
(* whole reciprocals.  Writing the result to files is left out.             *)
(***************************************************************************)
EXTENDS RoutingPolicy

CONSTANTS
    Items,          \* requests of the workload: [estimate, blocks, maxTokens, fault]
    MaxItems,       \* bound on the number of items
    CachePrefixes,  \* the 64 fingerprints a simulated worker keeps
    Seeds,          \* values of -seed
    Durations       \* wall-clock durations

ASSUME LoadGenAssumption == CachePrefixes \in Nat \ {0} /\ Seeds \subseteq 0 .. 2 ^ TokenWidth - 1

VARIABLES
    mode, policy, cursor,   \* the flags and the simulator's router
    workers,                \* routingSimulator.workers
    samples,                \* result.Samples
    completed, failed,      \* result.Completed, result.Failed
    summary,                \* result's percentiles once computed
    served                  \* history: the prompts each simulated worker served, the latest last

vars == <<mode, policy, cursor, workers, samples, completed, failed, summary, served>>
simulatorVars == <<cursor, workers, served>>

NoSummary == <<>>

Simulated(id, prefillTime) ==
    [id |-> id, faults |-> {}, waiting |-> 0, runningWork |-> 0, running |-> 0, quantum |-> 1,
     prefillTime |-> prefillTime, decodeTime |-> 10 * prefillTime, cached |-> <<>>]

Init ==
    /\ mode \in {"deterministic_simulation", "wall_clock_mock"}
    /\ policy \in Policies
    /\ cursor \in Seeds
    /\ workers = <<Simulated(1, 10), Simulated(2, 15), Simulated(3, 24)>>
    /\ samples = <<>> /\ completed = 0 /\ failed = 0
    /\ summary = NoSummary
    /\ served = [i \in 1 .. 3 |-> <<>>]

Succeeded(sample) == ~sample.error /\ sample.status \in 200 .. 299

\* main appends the sample and counts it.
Record(sample) ==
    /\ samples' = Append(samples, sample)
    /\ completed' = completed + (IF Succeeded(sample) THEN 1 ELSE 0)
    /\ failed' = failed + (IF Succeeded(sample) THEN 0 ELSE 1)

Failure(status) == [status |-> status, error |-> TRUE, ttft |-> 0, latency |-> 0]

-----------------------------------------------------------------------------
(* The simulator. *)

\* The load a worker is given for the request with this index.
Loaded(worker, index) ==
    LET n == worker.id - 1
    IN [worker EXCEPT !.waiting = (index * (n + 3) + n * 11) % 48,
                      !.runningWork = (index + n * 5) % 20,
                      !.running = (index + n) % 3]

\* Mutant of AppendUniquePrefixes: the cut keeps the oldest fingerprints.
AppendUniquePrefixesOldest(current, additions) ==
    LET all == current \o SelectSeq(additions, LAMBDA f : \A c \in ToSet(current) : c.sha # f.sha)
    IN SubSeq(all, 1, Min({Len(all), CachePrefixes}))

\* Fingerprints that are not there yet go to the end; the last ones are kept.
AppendUniquePrefixes(current, additions) ==
    LET all == current \o SelectSeq(additions, LAMBDA f : \A c \in ToSet(current) : c.sha # f.sha)
    IN SubSeq(all, Max({1, Len(all) - CachePrefixes + 1}), Len(all))

\* Mutant of Served: a request that fails before its first token warms the cache.
ServedBeforeFault(all, i, item) ==
    /\ workers' = [all EXCEPT ![i].cached = AppendUniquePrefixes(@, Fingerprints(item.blocks))]
    /\ served' = IF item.fault = "before_first" THEN served ELSE [served EXCEPT ![i] = Append(@, item.blocks)]

\* What the selected worker i keeps of an item.
Served(all, i, item) ==
    IF item.fault = "before_first" THEN workers' = all /\ UNCHANGED served
    ELSE /\ workers' = [all EXCEPT ![i].cached = AppendUniquePrefixes(@, Fingerprints(item.blocks))]
         /\ served' = [served EXCEPT ![i] = Append(@, item.blocks)]

\* run.  The workers are always eligible, and a slowdown is not simulated.
Simulate(item) ==
    LET all == [i \in 1 .. 3 |-> Loaded(workers[i], Len(samples))]
        request == [estimate |-> item.estimate, blocks |-> item.blocks]
        worker == Selected(policy, request, Candidates(policy, all, {}), cursor)
        ttft == Score("predicted_ttft", request, worker)
    IN /\ mode = "deterministic_simulation"
       /\ summary = NoSummary /\ Len(samples) < MaxItems
       /\ cursor' = IF policy = "round_robin" THEN (cursor + 1) % 2 ^ TokenWidth ELSE cursor
       /\ Served(all, worker.id, item)
       /\ Record(IF item.fault = "before_first" THEN Failure(502)
                 ELSE [status |-> 200, error |-> item.fault = "midstream", ttft |-> ttft,
                       latency |-> ttft + item.maxTokens * worker.decodeTime])
       /\ UNCHANGED <<mode, policy, summary>>

-----------------------------------------------------------------------------
(* The wall-clock client. *)

\* execute without a success: no answer, another status, a stream that broke
\* or one without a token.
ExecuteFailed(status) ==
    /\ mode = "wall_clock_mock"
    /\ summary = NoSummary /\ Len(samples) < MaxItems
    /\ Record(Failure(status))
    /\ UNCHANGED <<mode, policy, simulatorVars, summary>>

\* execute has read a token event and then [DONE] or the end of the body.  An
\* error event in between is not looked at.
ExecuteStreamed(ttft, latency) ==
    /\ mode = "wall_clock_mock"
    /\ summary = NoSummary /\ Len(samples) < MaxItems
    /\ ttft <= latency
    /\ Record([status |-> 200, error |-> FALSE, ttft |-> ttft, latency |-> latency])
    /\ UNCHANGED <<mode, policy, simulatorVars, summary>>

-----------------------------------------------------------------------------
\* The successful samples' "ttft" or "latency" in ascending order.
Values(field) ==
    LET successes == SelectSeq(samples, Succeeded)
    IN SortSeq([i \in DOMAIN successes |-> successes[i][field]], <)

\* Mutant of At: the ceiling is taken without the step back to index zero.
AtUnshifted(values, percent) ==
    LET n == Len(values)
    IN values[Min({n, ((percent * n + 99) \div 100) + 1})]

\* The value at the ceiling of the given share, counted from one.
At(values, percent) ==
    values[Max({1, (percent * Len(values) + 99) \div 100})]

Percentiles(field) ==
    LET values == Values(field)
    IN IF values = <<>> THEN <<0, 0>> ELSE <<At(values, 50), At(values, 95)>>

\* The loop is over, after any number of items.
Summarize ==
    /\ summary = NoSummary
    /\ summary' = <<Percentiles("ttft"), Percentiles("latency")>>
    /\ UNCHANGED <<mode, policy, simulatorVars, samples, completed, failed>>

Finished == summary # NoSummary /\ UNCHANGED vars

Next ==
    \/ \E item \in Items : Simulate(item)
    \/ \E status \in {0, 200, 502} : ExecuteFailed(status)
    \/ \E ttft, latency \in Durations : ExecuteStreamed(ttft, latency)
    \/ Summarize
    \/ Finished

Spec == Init /\ [][Next]_vars

-----------------------------------------------------------------------------
(* A simulated worker's cache, from which prefix matches are predicted,      *)
(* holds only prefixes of prompts that this worker served: neither a failed  *)
(* attempt nor another worker's requests warm it.  No fingerprint is there   *)
(* twice and the bound holds (run, appendUniquePrefixes).                    *)
SimulatedCacheSound ==
    \A i \in 1 .. 3 :
        LET cached == workers[i].cached
        IN /\ Len(cached) <= CachePrefixes
           /\ \A j, k \in DOMAIN cached : cached[j].sha = cached[k].sha => j = k
           /\ \A f \in ToSet(cached) :
                \E p \in ToSet(served[i]) : f \in ToSet(Fingerprints(p))

(* The prompt a simulated worker served last is warm there, however often    *)
(* the bounded cache has been cut: some prefix of it is matched.  Not always *)
(* its longest, since a shorter one that is added again may push that out.   *)
ServedPromptIsWarm ==
    \A i \in 1 .. 3 :
        LET prompt == Last(served[i])
        IN served[i] # <<>> /\ prompt # <<>> =>
            LongestMatch(Fingerprints(prompt), workers[i].cached) > 0

\* The nearest-rank definition: the least value that the given share reaches.
IsNearestRank(v, values, percent) ==
    LET upTo(x) == 100 * Cardinality({i \in DOMAIN values : values[i] <= x})
    IN /\ upTo(v) >= percent * Len(values)
       /\ \A x \in ToSet(values) : upTo(x) >= percent * Len(values) => v <= x

(* The reported figures are nearest-rank percentiles of exactly the samples  *)
(* that count as completed, whatever faults were in between, and the index   *)
(* computation is right for every share.  Without a success both are zero.   *)
PercentilesNearestRank ==
    summary # NoSummary =>
        LET values == Values("latency")
        IN /\ Len(values) = completed /\ completed + failed = Len(samples)
           /\ IF completed = 0 THEN summary = <<<<0, 0>>, <<0, 0>>>>
              ELSE /\ IsNearestRank(summary[1][1], Values("ttft"), 50)
                   /\ IsNearestRank(summary[1][2], Values("ttft"), 95)
                   /\ IsNearestRank(summary[2][1], values, 50)
                   /\ IsNearestRank(summary[2][2], values, 95)
                   /\ \A percent \in {1, 25, 50, 75, 95, 100} :
                        IsNearestRank(At(values, percent), values, percent)
=============================================================================
