# AetherServe in TLA+

AetherServe is an LLM request router. Clients post chat requests over HTTP and
read the answer as server-sent events (SSE); workers register with the router
over gRPC, send heartbeats with their load, and stream generated tokens back.
This directory models the router's request path, its admission control, routing,
worker registry and shutdown, the mock worker and the load generator, checks
them with TLC on small instances and proves the central accounting, shutdown,
limit and registry properties with TLAPS.

## 1. Inventory

| Component | Source | State it keeps | Operations | What makes it correct |
| --- | --- | --- | --- | --- |
| Admission | `internal/admission` | `used`, one token bucket per tenant | `Reserve`, `Lease.Release`, `InFlight` | `used` is the sum of the live leases and within the limit; a tenant never exceeds burst + rate × time; refusals are free |
| Gateway | `internal/gateway/http.go` | per request: attempt number, excluded workers, previous error, context, response | `handleChat`, `openAttempt`, `receiveAttempt`, `deliverAttempt`, `forwardCommitted` | one response per request, one generation per stream, one retry and only before commitment, lease released on every path, no goroutine left behind |
| Connection pool | `internal/workerclient` | one gRPC connection per worker address | `Client`, `Invalidate`, `Close` | every open connection is the pooled one or about to be closed; dial races leave no stray connection |
| Registry | `internal/registry` | last state, version and arrival time per worker | `Register`, `Heartbeat`, `Snapshot`, `HealthyCount` | versions do not regress, stale workers are not routed to, a restarted worker is seen again |
| Routing | `internal/routing`, `internal/prefix` | round-robin cursor | `Select`, `LongestMatch` | picks an eligible worker that was not tried, minimal under the policy's documented score, in no dependence on list order; round robin is even |
| Request limits | `parseRequest`, `effectiveTimeout`, `internal/config` | none | validation | timeouts stay in range although Go's integers wrap; costs are the lengths wherever those fit |
| Server | `internal/gateway/server.go` | root context, active-request group | `Start`, `Close`, `RegisterWorker`, `Heartbeat` | shutdown drains every request and closes the pool last |
| Mock worker | `internal/mockworker` | job queue, waiting/running counters, prefix cache | `Generate`, dispatcher, `runJob`, registration loop | counters match the queue, cache within capacity, worker re-registers |
| Conversion | `internal/protocol` | none | `ChunkFromProto`, `StateFromProto`, ... | malformed messages are rejected |
| Load generator | `cmd/loadgen` | simulated workers with caches, samples, counts | `run`, `execute`, `percentiles` | caches hold what was served; figures are percentiles of the completed samples |
| Rest | model, metrics, logging, tokenizer, generated code | - | - | data and I/O |

How they interact: a `handleChat` goroutine calls the registry (health), then
admission (lease), then per attempt the registry and router (selection), the
pool (connection) and gRPC (stream). Each opened attempt starts a
`receiveAttempt` goroutine that talks to the handler through a bounded channel
only. All requests share admission, the registry and the pool; each has its own
context, which the deadline timer, the client's disconnection and the handler's
return cancel.

What is hard: the clock reading outside admission's lock; the choice between a
ready event and a done context; a receiver blocked on a channel nobody reads;
failures of one request that close a connection another one uses; a body read
and writes without a deadline, to a client that stops; the health check that is stale when the worker is
selected; registrations and heartbeats of dead processes that arrive late; load
counters and a cache that two kinds of goroutine keep in step by hand; requests
that arrive while the server closes; integers that wrap and scores that are
almost equal. `PROJECT.json` lists each hazard at its line.

## 2. Modules

- `TokenSum.tla`: the sum of a bounded function as a cardinality, with its
  laws proved from the library's finite-set theorems.
- `TokenBudget.tla`: abstract specification of admission as the gateway uses
  it: whole grants within the limit, exact release.
- `Admission.tla`: the controller. `Call` is `Reserve` up to the clock reading
  that precedes the lock; `RejectTenant`, `RejectGlobal` and `Grant` are the
  three outcomes of the critical section; `Release` is the `sync.Once` body with
  its panic branch (`poisoned`: the mutex stays locked). `ledger` is a history
  variable for the rate property. `AdmissionProofs.tla` holds the proofs,
  `MCAdmission.tla` the instance.
- `ChatContract.tla`: abstract specification of what a client observes: one
  refusal, or one stream that is completed, failed, or cut off in silence. Silence
  needs a done context, and whether that was a deadline (`expired`) or a
  cancellation (`aborted`) is told apart, since the documentation allows only the
  second (section 6).
- `Gateway.tla`: the request path. `pc[r]` is the position of `handleChat`;
  `att[r, a]` is attempt `a` with its connection, its context, the receiver
  goroutine and the event channel; `sse[r]` is what the client's connection
  accepted. A connection to a worker is named by the attempt that dialed it:
  `pool` is the connection map, `open` the connections that are not closed,
  `dropping[r]` the one that an `Invalidate` has taken from the map and has yet to
  close. Each handler action covers the code
  between two points where another goroutine, the network or a timer can
  interfere. `GatewayProofs.tla` holds the proofs about types, leases,
  connections, retries and replies, `GatewayStreamProofs.tla` those about the
  stream and the refinement of `ChatContract`, `MCGateway.tla` the message sets
  and the documentation's claims.

- `Registry.tla`: the registry between the two sides that write and read it.
  `calls` are the `RegisterWorker` and `Heartbeat` requests in the network or in
  a handler; they survive the connection and the process that sent them, since
  the handlers ignore their context. `RegisterTimed`/`RegisterStored` and
  `SnapshotTimed`/`SnapshotCopied` split at the lock, after the clock reading.
  `proc[w]` is the registration loop with its backoff. An incarnation number
  stands for the data address, which only `Register` stores. `heard` and
  `refusals` are history variables. `RegistryProofs.tla`, `MCRegistry.tla`.
- `MockWorker.tla`: `Generate` handlers, the dispatcher with the positions of
  `runJob`, the queue, the one-place result channels, the reported counters, the
  prefix cache with its eviction loop, failure injection and `Stop`, which waits
  for the dispatcher and for the two other goroutines of the WaitGroup
  (`others`), `Serve` and the registration loop. The outer
  loop of `addPrefixes` is the recursive function of `CacheAfter`, the eviction
  loop the least number of evictions after which the cache fits.
  `MockWorkerProofs.tla` holds the proofs, `MCMockWorker.tla` gives the requests
  and prefixes.

- `Shutdown.tla`: extends `Gateway` with the server around it. `phase` is the
  position of `Close`: `http.Server.Shutdown`, `GracefulStop`, the active group,
  the pool, which is emptied under its lock and whose connections (`removed`) are
  closed outside it. Two different counts are waited for: `ConnectionsIdle` spans
  the headers of a request to the end of its response, `NoActive` only
  `active.Add` to `active.Done`. Every wait ends by itself or is given up once the context (`expired`)
  is done. `reachable` says whether a request may still get to a handler: until
  `Shutdown` has found every connection idle, and also afterwards if it gave up.
  `ShutdownProofs.tla`, `MCShutdown.tla`.
- `RequestLimits.tla`: the limits of `parseRequest` and `effectiveTimeout` on
  integers of a given width; `RouterConfig.Validate` is its assumption. It does not
  look at the sum of the two length limits, and neither does the assumption.
- `RoutingPolicy.tla`: `Router.Select`, `ineligibility`, `less` and
  `LongestMatch` as operators. A score is an integer number of time units, the
  `1e-12` of `less` is `Tolerance`, a rate is the time per token.
- `Routing.tla`: composes the two: a request is parsed, selects a worker on the
  registry's present content, is retried with that worker excluded, while
  reports change. `window` is a history of round-robin selections over one
  list. `RoutingProofs.tla`, `MCRouting.tla`.
- `LoadGen.tla`: the load generator on `RoutingPolicy`: the loop of `main`, the
  simulator with the real rates and load formulas, the wall-clock client by its
  outcomes, the percentiles. `served` is a history variable. `MCLoadGen.tla`.

Operators whose comment starts with "Mutant of" are deliberate faults. No
specification uses them; each is substituted for the definition it names to show
that a property can fail.

### Correspondence worth knowing

- Registry and routing appear in `Gateway` through their results: a health check
  may find workers or none, and any worker that is not excluded may be selected.
  This is more than the real registry allows, so the safety results carry over.
- Errors are kept as what `shouldRetry` makes of them. Conversion, validation
  and `io.ErrUnexpectedEOF` errors have no gRPC status, hence code Unknown,
  which is retried.
- External behaviour: `grpc.DialContext` with `WithBlock` returns an error only
  when its context is done. Closing a `ClientConn` makes later and running calls
  on it fail with Canceled. `Recv` returns once the context is done but may
  first hand out buffered messages. net/http cancels the request context on a
  failed write; `Flush` drops the error itself, so `writeSSE` may return nil for
  a lost event. A failed write breaks the connection for good.
- `Shutdown` closes the listener first, but connections accepted before may still
  deliver a request; their contexts descend from the cancelled root. That no
  handler starts after `Shutdown` has returned nil is taken from its documented
  contract; the window between the start of a handler and its `active.Add` is in
  the model (`accepted`) and covered by `Shutdown`'s wait alone.
  `GracefulStop` refuses calls it has not seen begin.
- In `Routing` a snapshot and the decision on it are one step: `Select` reads
  nothing else but the cursor, which it takes with one atomic `Add`, so a
  decision on an older snapshot is one made before the registry changed.
- A fingerprint's SHA-256 is represented by the prefix itself.
- Only faults that registry validation lets through (stale, incompatible,
  unhealthy) occur in the routing run; `Select` handles the others the same way.
- A write to a stalled client may be absorbed by the socket. `writeSSE` waits no
  longer than its write deadline. Three writes have none (`Unbounded`): the flush
  of the headers, `[DONE]`, and what net/http flushes after the handler has
  returned, which is all there is of a JSON error.
- The body is read before the request has a deadline, and the server configures no
  read timeout: `BodyRead` is a step of the client, and nothing but a lost
  connection (`BodyLost`) ends the read otherwise, the root context included.
- `Dialed` has the two outcomes of `Pool.Client`: the dialed connection is pooled,
  or closed in favour of the one that is. `Invalidate` is two steps, the removal
  under the lock (`AttemptFailed`) and the closing (`Dropped`), between which
  others may dial and pool a newer connection.

## 3. Runs

| Run | Instance | Question |
| --- | --- | --- |
| `admission` | 2 handlers, 2 tenants, costs 1-2, limit 3, burst 2, clock 0..2 | do the books balance, is the panic unreachable, do rate and entitlement hold with readings out of order, is `TokenBudget` implemented |
| `gateway_stream` | 1 request, 2 workers, 3 tokens, buffer 2, all chunk defects, any client | is the stream one well-formed, honest generation; is `ChatContract` implemented; under `FairSpec`, does every request end and every receiver exit |
| `gateway_pair` | 2 requests, 2 workers, 1 token, buffer 1, limit 2, costs 1-2 | leases under two requests that race, and every connection they dial; symmetry over requests and workers |
| `shutdown` | `gateway_stream`'s request with 1 token and buffer 1, one control RPC, `FairServerSpec` | does a clean `Close` leave nothing behind, does nothing start after it began, does it end |
| `registry` | 1 worker, 1 reader, 1 restart, 1 fault, versions to 3, clock 0..2, all reports, `FairSpec` | do snapshots offer only workers heard of in time; does a refusal never repeat; does a running worker's own state get into the registry again |
| `mockworker` | 2 calls, queue 1, cap 2, with and without either failure setting, cache of 2 prefixes and 3 tokens, `FairSpec` | are load and cache reported truthfully, are generations whole, do calls and `Stop` end |
| `routing` | 3 workers, 4 policies, 6 reports (2 for round robin), 8 bodies, 12 headers, seeds 0 and 14 of a 4-bit cursor, 6 round-robin selections, `Tolerance` 1 | do timeouts survive overflow, is the cost the length where that fits; is a decision deterministic, eligible and the documented minimum; is round robin even |
| `loadgen` | 5 items out of 6 or 5 wall-clock requests, 4 policies, cache of 2 fingerprints | are the simulated caches honest and warm, are the percentiles right |
| `claim_*` | as small as shows the point | documentation claims that the code does not keep (section 6) |

Bounds. With clock 0..2 and two handlers a reading may be two ticks old when it
is used, and one burst, one refill and one refusal fit; the costs make both the
tenant limit and the global limit refuse. Two attempts are all the code makes.
Three tokens and a buffer of two let the channel fill up, drain and be dropped
from; a stream run needs no second request because requests meet only in the
budget and the pool, which `gateway_pair` covers. There one token suffices: the
pool and the lease do not see tokens.

Registry entries of different workers never meet, so one worker is enough; what
meets are calls of its two incarnations. Two ticks with a staleness period of
one let a reading be stale when it is used. Three versions are a registration, a
heartbeat and one more call after a refusal. `Reregisters` asks for recovery
within `RecoveryCalls` = 2 calls, the heartbeat that is refused and the
registration after it, and one more for a fault that is still to come; it is asked
in every state from which the version bound leaves room for these, and the bound
is no excuse afterwards. A worker that reports a state that validation refuses is
told so each time and is left out. Two calls fill a queue of one and put one job behind another;
the prefixes of the two requests are evicted for their number alone, for their
tokens alone and for both.

`shutdown` needs one request: what may slip through is a request that arrives, or
a dial or a receiver that is still running, between two of the waits, and one
request does each of these, with its retry two connections. One token and the
final chunk fill the channel of one. In `routing` three workers with scores one apart and
ever longer matches make the scan climb over two near ties, products of 9 wrap
at 3 bits, and a cursor seeded with 14 wraps; without the allowance for any of
these the properties fail. Round robin reads only eligibility, so its reports
are two. The length limits of 61 and 5 overflow 6 bits together
and one body's sum wraps to 0; others stay below. The header values cover zero, negative and malformed ones, both clamps
and wraps to negative and to small positive products. In `loadgen` a cache of
two fingerprints is cut within three requests; the code's 95th percentile is the
maximum for fewer than 20 samples, so the index computation is also checked for
other shares.

Fairness (`gateway_stream`): weak fairness for each handler's own steps, for each
receiver with an event in hand, for `Recv` once its context is done or its
connection closed, for the deadline timer and for net/http's notice of a
disconnected client. The Go scheduler, the runtime timers and gRPC provide
these. Nothing is assumed of workers, dials or clients. `RequestsEnd` therefore
asks only that the upload ends and names the places where a request may stay: in
front of the headers, of `[DONE]` or of the end of the response, if the client is
stalled. The upload is a hypothesis of the property and not a fairness condition,
since no code bounds it.

Fairness (`registry`): handlers and the loop's own steps run; a dial that is
repeated for ever succeeds some time (strong fairness), since the router listens
again. Nothing obliges a stopped worker to come back. Fairness (`mockworker`):
handlers, the dispatcher and a started `Stop` proceed, timers fire, `Serve` returns
from a stopped server and the registration loop, whose every wait watches the
worker's context, once that is cancelled; clients need not cancel.

Fairness (`shutdown`): that of the request path, and `Close`'s goroutine and the
control handlers run. Nothing is assumed of the context passed to `Close`:
`DrainEnds` shows that cancelling the root is enough if every upload ends and unless
a client stalls in front of one of the unbounded writes, neither of which the root
context interrupts; `CloseReturns` that the context ends `Close` in any case.

All liveness results take it that `/metrics` scrapers read: the exposition is
written with the mutex held that request handlers take for their counters.

`MCGateway` instances do not deadlock: `Served` marks the state in which
everything is over.

## 4. Proofs

`AdmissionProofs.tla`, for any finite set of handlers, any tenants, costs and
positive limits:

- `TypeCorrectness`, `AccountingCorrect`, `UnderflowUnreachable`,
  `RateBounded`: from the inductive invariant `AdmissionInv`. `Accounting` alone
  is not inductive: `Grant` needs that the cost in hand is positive, `Release`
  that a live lease is part of the sum (`TotalBoundsValue`), and the rate bound
  needs `BucketSound`, the potential argument: charged + tokens left <= burst +
  rate × (last - since), tokens never above the burst, and a bucket that a stale
  reading has put into debt is out of it at the present time.
- `EntitlementTheorem`: an action property from `RefillKeepsEntitlement`; storing
  a bucket refilled with an old reading changes nothing at the present time.
- `RefinesTokenBudget`: initial states map to initial states; each step is a
  grant, a give-back or a stutter. The panic branch is excluded by the
  accounting invariant.

`GatewayProofs.tla`, for any number of requests and workers, any budget and any
worker messages. `LeasesAreReleased` pairs the set of program counters between
admission and release with the non-zero leases. The other results come from
`GatewayInv`, which adds to it and to the types

- `AttemptInv`: a delivering receiver holds an event, an attempt that has not
  opened has no events, only a chosen worker is connected;
- `RequestInv`: what the position of `handleChat` says of the current attempt
  (`ControlInv`), of the first attempt once there is a second (`RetryInv`) and
  of the reply (`ReplyInv`).

From it follow `TypeCorrectness`, `RetriesReplace`, `UntriedMeansUntried` and, as an action property, `ResponseOnce`. None of these
is inductive alone: that a 503 means an untried worker needs that the failure is
"none" until the first attempt fails, and that the response starts once needs
that every position in front of the commitment has status 0.

`PooledConnections` needs more than `GatewayInv`, since `Invalidate` removes and
closes in two steps. `PoolInv` adds who may have a connection in hand: only a
request in the middle of an `Invalidate`, each a different one and none that the
pool still holds (`DroppingInv`), and that a request which has yet to dial owns no
open connection (`DialingInv`), so that the name of a new one is new. Without the
first a connection could be closed while another entry of the pool names it,
without the second a dial could bring a closed connection back.

`GatewayStreamProofs.tla`, under the same generality. `StreamInv` has two halves.
`SentInv` gives the shape of what was sent (m tokens numbered from 0, then at most
a terminal event and [DONE]) at every position of `handleChat`. `SourceInv`
relates it to the channel being read: while the client's connection is good, the
events sent, the event in the handler's hand, the ones in the channel and the one
the receiver holds are consecutive, and their number is the receiver's `expected`
(`Numbered`). It is stated only for a connection that is not broken, because a
lost write leaves a gap between channel and client that no later event may
close. From it:

- `StreamsAreWellFormed`, `CompletionsAreComplete`, `StreamsEnd`;
- `ContractImplemented`: `Gateway` implements `ChatContract`. A step of the
  gateway is matched per request: a token, completion or error event that the
  connection accepts, a refusal, the end of the context, a cut-off, or a stutter
  for everything that only moves the handler, the receiver or the pool. The number
  delivered is the cardinality of the set of token positions, which for a stream
  of the proved shape is m. A cut-off needs a done context: `SilenceInv` says that
  a committed stream that was told no end, and will not be, has one. The step that
  shows why is the lost write, where the context ends with the connection.

`ShutdownProofs.tla`, for any number of requests and workers. `CleanShutdown`: the
inductive invariant adds to the lease invariant of `GatewayProofs` that the
server is drained (unreachable, no connection serving a request) before `Start`,
and again from the second wait on as long as no wait was given up. In a drained
server only receivers that outlived their handler take steps, and those leave the
pool alone (`DrainedStep`), so a pool emptied by `Close` stays empty. The property
alone is not inductive: it says nothing before `closed`. `ServerInv` joins this
with `GatewayInv` and with the fact that no request context is live once the root
context was cancelled. `ConnectionsClosed` needs `PoolInv` up to the moment the
pool is emptied: in a drained server nobody is in the middle of an `Invalidate`
(`DrainedPool`), so that every open connection is in the pool and goes into the
hands of `Pool.Close` (`CleanPool`). `NoGenerationAfterClose`, an action property,
follows from `openAttempt` failing on a context that is done.

`MockWorkerProofs.tla`, for any number of calls, any requests, queue length,
failure settings and cache limits:

- `GenerationsAreWhole`, from `JobsInv`. It says where a call's job is (in the
  enqueue, in the queue once, with the dispatcher, or nowhere), and for the job
  with the dispatcher that the chunks sent, the one in the result channel and
  the one about to be sent are consecutive members of one generation.
- `CountersAreLoad`: every action moves one call between the waiting set, the
  running set and neither, and changes the counters by exactly that call, for
  which the sum laws of `TokenSum` are used. The clamps at zero therefore never
  act. It needs `JobsInv`: a job must not be queued twice.
- `CacheStaysSound`: one prefix added to a cache whose list, map and count agree,
  followed by the eviction loop, is again such a cache, within both limits. That
  this carries over to a whole call of `addPrefixes` is an induction over the
  sequence, done by least counterexample: `LeastElement` (from the well-founded
  order of the naturals) gives the first round that breaks it. `RoundsExist`
  shows in the same way that the recursive function of `CacheAfter` exists.

`RoutingProofs.tla`, for every integer width, configuration and input, any number
of workers and any reports:

- `TimeoutsInRange` and `CostsAreAccounted`. The clamp is applied after the wrap,
  hence the first. The second holds for wrapping configurations too: two lengths
  within their limits have a sum below two moduli, which wraps at most once
  (`AcceptedCost`), and both are limited before they are added.
- `DecisionsAreDeterministic`: workers with different IDs can be sorted
  (`SortExists`, the position of an ID is how many are below it), in one way only
  (`SortedUnique`), so every listing leads to the same candidates.
- `RoundRobinIsEven`, from the inductive invariant `RingInv`. The counts of two
  positions differ by up to two in the middle of a turn, so the invariant
  (`Even`) compares them less the current turn: an earlier position is behind a
  later one by at most one, for the turn the seed began in the middle of, and
  ahead by at most the number of wraps.
- `SelectionsAreMinimal`, an action property. `CandidatesConsidered`: the
  candidates are exactly the eligible workers. `LessMeans`: what `less` prefers
  costs at most one tolerance, and `less` is the documented order between scores
  that are equal or clearly apart, an order that `BetterOrders` shows transitive
  and total. `BestNext` adds one comparison to the scan, `ScanFindsBest` the
  whole scan. `MatchIsLongest` and `WorkerScores` equate the score with the
  documented formula: the match found through the hash table is the longest
  cached prefix, and no sum or product wraps when it fits.

The loops of `Select` are recursive functions in `RoutingPolicy`; that they exist
and what they compute is shown by least counterexample (`CollectingExists`,
`ScanningExists`).

`RegistryProofs.tla`, for any workers, readers, reports and bounds:
`TypeCorrectness`, `GhostsExpire`, `RefusalsAreSingle`, from the inductive
invariant `RegistryInv`. Its first part, `HeardInv`, bounds every time that is
stored in the registry or carried by a Register handler by the last call heard
of that worker; the snapshot property needs it because an entry's time may move
backwards. Its second part, `RefusalInv`, identifies calls by incarnation and
version, so that an orphaned handler's answer never reaches a later call, and
says that a refused worker registers before it beats again. The types need it
too: a timed Register carries a validated state.

Assumptions are the named ASSUMEs of the modules: limits positive (`New` and
`RouterConfig.Validate` reject others), finitely many handlers, limits that pass
`RouterConfig.Validate`. `Gateway` takes costs to be positive, which
`CostsAreAccounted` gives for length limits whose sum fits 64 bits; where it does
not, a sum that wraps to exactly 0 is answered 500 by the branch behind
`Reserve`'s own check, which `Gateway` leaves out and `Admission` has. Of a worker's report
`ReportAssumption` takes that a cached prefix has the length
`prefix.Fingerprints` gives it; workers compute it so, and the registry only
rejects zero. With another length under a hash `LongestMatch` would overlook the
prefix, and only the last part of `SelectionMinimal` would be lost.

Only model-checked:

- the liveness properties (`RequestsEnd`, `ReceiversExit`, `DrainEnds`,
  `CloseReturns`, `Reregisters`, `CallsEnd`, `StopEnds`), which need fairness and
  ENABLED;
- the load generator (`SimulatedCacheSound`, `ServedPromptIsWarm`,
  `PercentilesNearestRank`): its model keeps the filter, the cut and the sort of
  sequences of the code as `SelectSeq`, `SubSeq` and `SortSeq`, of which the
  provers know nothing. It is a measuring tool beside the system; the decisions
  and matches its simulator takes from `RoutingPolicy` are the ones proved above.

## 5. Plan

Done: admission, the request path with the connection pool, the registry with
the registration loop, the mock worker, shutdown, request limits and routing,
the load generator; proofs of every safety and action property of all of these
but the load generator, and of both refinements. What could be added is a proof
of `SimulatedCacheSound`, along the lines of `CacheStaysSound`, once its cache is
written with recursive functions as the candidates of `RoutingPolicy` are.

## 6. Where documentation and code differ

- `claim_502_retried`: a failure of one request closes the connection under
  another one, which is answered 502 without its retry.
- `claim_slow_client`: the writes of the headers and of `[DONE]` have no deadline
  and may hold the reservation for as long as the client likes.
- `claim_deadline_told`: a deadline after commitment may end the stream without
  error event or `[DONE]` although the client is reading, where
  `docs/api-contract.md:89` and `docs/failure-semantics.md:39` promise both.
- `claim_timeout_clamped`: a timeout header whose product with a millisecond
  exceeds 64 bits is clamped after it has wrapped, and gets the minimum or
  anything in range instead of the maximum.

Read off the models, without a run of their own:

- A 503 may come after the tenant was charged, when the workers become
  ineligible between the health check and the selection
  (`docs/failure-semantics.md:29`: "No reservation.").
- The blocking dial never fails before the deadline, so an unreachable worker is
  not retried elsewhere (`docs/failure-semantics.md:34`).
- With two workers of which one fails every request, each retry advances the
  round-robin cursor too, so first attempts always go to the same worker.
- The wall-clock client counts a stream with an error event after its first
  token as completed; the simulator counts a midstream failure as failed.
- A request whose lengths' sum wraps, which needs length limits that overflow 64
  bits together, is charged the wrapped sum (`CostIsAccounted` says exactly when);
  `RouterConfig.Validate` accepts such limits.
- A client that never finishes its body keeps its handler, and `Close` until its
  context is done; no document speaks of uploads.
- In the simulator's cache a short prefix that is added again may push the
  longer one of the same prompt out.

The registry's status version is called monotonically increasing
(`docs/system-design.md:69`); `Register` stores whatever version it is given, as
a restarted worker needs. `RegisterStored` models it so, and no run asks for
more.

## 7. Not modelled

Float rounding in the buckets and scores, SHA-256 collisions, metrics and
logging, HTTP and JSON parsing beyond valid or invalid, the decision trace,
workload generation and result files of the load generator, reading of
configuration files, the `active_reservations` gauge, generated code. These
hold no state that a decision depends on.
