------------------------------- MODULE Gateway -------------------------------
(***************************************************************************)
(* The life of a chat request in the router: handleChat with its two        *)
(* attempts, the receiveAttempt goroutine each attempt starts, the pool of  *)
(* worker connections that all requests share, and the client at the other  *)
(* end of the SSE stream (internal/gateway/http.go,                         *)
(* internal/workerclient/client.go).  Admission is the budget specified by  *)
(* TokenBudget.tla, which Admission.tla implements.                         *)
(*                                                                          *)
(* The registry is read through its results only: at any reading there may  *)
(* be healthy workers or none, and any worker that is not excluded may be   *)
(* the one the router selects.  Time is read through its effects: a         *)
(* deadline or a slow-client timer may expire whenever it is armed.         *)
(***************************************************************************)
EXTENDS Sequences, TokenSum

CONSTANTS
    Requests,               \* chat requests, each served by one handleChat call
    Workers,                \* worker IDs; a worker has one data address
    NoWorker,
    Costs,                  \* EstimatedInputToken + MaxOutputTokens
    GlobalInFlightTokens,   \* admission limit
    SSEBufferSize,          \* capacity of an attempt's event channel
    MaxTokens,              \* bound: token indexes a worker sends are below this
    WireChunks,             \* the GenerateChunk messages a worker may send
    WorkerFailures,         \* error classes a worker may answer with
    ClientFaults            \* what clients may do: "disconnect", "stall"

VARIABLES
    pc,         \* pc[r]: where handleChat is
    attempt,    \* attemptNumber
    excluded,   \* excluded
    failure,    \* class of previousAttemptErr, "none" for nil
    ctx,        \* ctx.Err(): "live", "deadline" or "canceled"
    client,     \* the HTTP client: "reading", "stalled" or "gone"
    status,     \* HTTP status sent, 0 before any
    sse,        \* the SSE events the connection accepted
    event,      \* the event the handler is about to write
    att,        \* att[r, a]: attempt a of request r
    pool,       \* Pool.connections: pool[w] is the pooled connection to w
    open,       \* the connections that were dialed and are not closed
    dropping,   \* dropping[r]: what Invalidate took from the pool and has yet to close
    used,       \* admission Controller.used
    leases      \* leases[r]: cost of the lease handleChat holds

handlerVars == <<pc, attempt, excluded, failure, status, event>>
clientVars == <<client, sse>>
poolVars == <<pool, open, dropping>>
budgetVars == <<used, leases>>
vars == <<pc, attempt, excluded, failure, ctx, client, status, sse, event, att, pool, open,
          dropping, used, leases>>

Budget == INSTANCE TokenBudget WITH Handlers <- Requests

ASSUME RequestsAssumption == IsFiniteSet(Requests)
ASSUME LimitAssumption == GlobalInFlightTokens \in Nat \ {0}
\* max_tokens is at least 1: a cost is positive for limits whose sum fits into the
\* integers (CostIsAccounted of Routing); configurations that wrap are left out here.
ASSUME CostsAssumption == Costs \subseteq Nat \ {0}
ASSUME BufferAssumption == SSEBufferSize \in Nat \ {0}
ASSUME TokensAssumption == MaxTokens \in Nat \ {0}
ASSUME WorkerAssumption == NoWorker \notin Workers
ASSUME FailureAssumption == WorkerFailures \subseteq {"retryable", "fatal"}

Attempts == Requests \X {1, 2}

\* A connection is named by the attempt that dialed it: each dials at most once.
NoConn == << >>
Connections == Attempts \union {NoConn}

-----------------------------------------------------------------------------
(* Events.  An error is kept as what shouldRetry makes of it: "retryable"   *)
(* (Unavailable, Unknown, Internal, DeadlineExceeded and plain errors),     *)
(* "fatal" (any other status), "canceled" (context.Canceled or its status), *)
(* "connect" (the dial gave up).                                            *)
ErrorClasses == {"retryable", "fatal", "canceled", "connect"}

NoEvent == [kind |-> "none", index |-> 0, class |-> "none"]
Token(i) == [kind |-> "token", index |-> i, class |-> "none"]
Completion(i) == [kind |-> "completion", index |-> i, class |-> "none"]
GenerationError(i) == [kind |-> "finishError", index |-> i, class |-> "none"]
Failure(class) == [kind |-> "error", index |-> 0, class |-> class]

\* What reaches the client: a token of an attempt, a completion, an error, [DONE].
Sent(kind, a, i) == [kind |-> kind, attempt |-> a, index |-> i]

\* protocol.ChunkFromProto: version, and the finish reason set exactly on final chunks.
ChunkFromProto(wire) ==
    /\ wire.version
    /\ wire.final <=> wire.reason # "unspecified"

\* Mutant of ValidateChunk: the token index is not compared.
ValidateChunkAnyIndex(wire, expected) ==
    /\ wire.ids
    /\ expected \in Nat
    /\ wire.final <=> ~wire.text

\* validateChunk for the expected token index.
ValidateChunk(wire, expected) ==
    /\ wire.ids
    /\ wire.index = expected
    /\ wire.final <=> ~wire.text

\* The event receiveAttempt makes of a received chunk.  Conversion and
\* validation errors carry no gRPC status: their code is Unknown.
ChunkEvent(wire, expected) ==
    IF ~ChunkFromProto(wire) \/ ~ValidateChunk(wire, expected) THEN Failure("retryable")
    ELSE IF ~wire.final THEN Token(wire.index)
    ELSE IF wire.reason = "error" THEN GenerationError(wire.index)
    ELSE Completion(wire.index)

-----------------------------------------------------------------------------
(* An attempt: its worker, its connection, whether its context was          *)
(* cancelled, and its receiver goroutine with the event channel.            *)
NoAttempt == [worker |-> NoWorker, conn |-> NoConn, canceled |-> FALSE, state |-> "none",
              expected |-> 0, holding |-> NoEvent, events |-> << >>]

Init ==
    /\ pc = [r \in Requests |-> "idle"]
    /\ attempt = [r \in Requests |-> 1]
    /\ excluded = [r \in Requests |-> {}]
    /\ failure = [r \in Requests |-> "none"]
    /\ ctx = [r \in Requests |-> "live"]
    /\ client = [r \in Requests |-> "reading"]
    /\ status = [r \in Requests |-> 0]
    /\ sse = [r \in Requests |-> << >>]
    /\ event = [r \in Requests |-> NoEvent]
    /\ att = [i \in Attempts |-> NoAttempt]
    /\ pool = [w \in Workers |-> NoConn]
    /\ open = {}
    /\ dropping = [r \in Requests |-> NoConn]
    /\ Budget!BudgetInit

Current(r) == <<r, attempt[r]>>
CurrentWorker(r) == att[Current(r)].worker

\* attemptCtx is done when it was cancelled itself or when the request's context is.
AttemptDone(i) == att[i].canceled \/ ctx[i[1]] # "live"

\* The attempt's connection was closed under it.
ConnClosed(i) == att[i].conn # NoConn /\ att[i].conn \notin open

GoTo(r, label) == pc' = [pc EXCEPT ![r] = label]
Reply(r, code) == status' = [status EXCEPT ![r] = code]
CancelAttempt(r) == att' = [att EXCEPT ![Current(r)].canceled = TRUE]

\* A context keeps the first cause that ended it.
CancelContext(r) == ctx' = [ctx EXCEPT ![r] = IF @ = "live" THEN "canceled" ELSE @]

-----------------------------------------------------------------------------
(* handleChat before the first attempt. *)

\* net/http reads a request's headers and starts the handler.
Arrive(r) ==
    /\ pc[r] = "idle"
    /\ GoTo(r, "accepted")
    /\ UNCHANGED <<attempt, excluded, failure, status, event, ctx, clientVars, att, poolVars, budgetVars>>

\* active.Add(1); parseRequest begins to read the body.
Enter(r) ==
    /\ pc[r] = "accepted"
    /\ GoTo(r, "parse")
    /\ UNCHANGED <<attempt, excluded, failure, status, event, ctx, clientVars, att, poolVars, budgetVars>>

\* The body has arrived and parseRequest accepts the request.  The read has no
\* deadline and no context: when it ends is up to the client.
BodyRead(r) ==
    /\ pc[r] = "parse"
    /\ GoTo(r, "check")
    /\ UNCHANGED <<attempt, excluded, failure, status, event, ctx, clientVars, att, poolVars, budgetVars>>

\* parseRequest rejects the request, after the body or before its end.
BadRequest(r) ==
    /\ pc[r] = "parse"
    /\ Reply(r, 400)
    /\ GoTo(r, "return")
    /\ UNCHANGED <<attempt, excluded, failure, event, ctx, clientVars, att, poolVars, budgetVars>>

\* The client left in the middle of its body: the read fails.
BodyLost(r) == client[r] = "gone" /\ BadRequest(r)

\* HealthyCount() = 0.
NoHealthyWorkers(r) ==
    /\ pc[r] = "check"
    /\ Reply(r, 503)
    /\ GoTo(r, "return")
    /\ UNCHANGED <<attempt, excluded, failure, event, ctx, clientVars, att, poolVars, budgetVars>>

HealthyWorkers(r) ==
    /\ pc[r] = "check"
    /\ GoTo(r, "reserve")
    /\ UNCHANGED <<attempt, excluded, failure, status, event, ctx, clientVars, att, poolVars, budgetVars>>

\* Reserve returns ErrGlobalLimit or ErrTenantLimit.
AdmissionRejected(r) ==
    /\ pc[r] = "reserve"
    /\ Reply(r, 429)
    /\ GoTo(r, "return")
    /\ UNCHANGED <<attempt, excluded, failure, event, ctx, clientVars, att, poolVars, budgetVars>>

Admitted(r, cost) ==
    /\ pc[r] = "reserve"
    /\ Budget!Grant(r, cost)
    /\ GoTo(r, "select")
    /\ UNCHANGED <<attempt, excluded, failure, status, event, ctx, clientVars, att, poolVars>>

-----------------------------------------------------------------------------
(* Attempts. *)

\* selectWorker returns w.
SelectWorker(r, w) ==
    /\ pc[r] = "select"
    /\ w \notin excluded[r]
    /\ att' = [att EXCEPT ![Current(r)].worker = w]
    /\ GoTo(r, "client")
    /\ UNCHANGED <<attempt, excluded, failure, status, event, ctx, clientVars, poolVars, budgetVars>>

\* writePrecommitAttemptError.
PrecommitStatus(r) == IF ctx[r] = "deadline" THEN 504 ELSE 502

\* Mutant of NoEligibleWorker: previousAttemptErr is not looked at.
NoEligibleWorkerForgetful(r) ==
    /\ pc[r] = "select"
    /\ Reply(r, 503)
    /\ GoTo(r, "release")
    /\ UNCHANGED <<attempt, excluded, failure, event, ctx, clientVars, att, poolVars, budgetVars>>

\* Mutant of NoEligibleWorker: the early return comes before the deferred release.
NoEligibleWorkerLeaks(r) ==
    /\ pc[r] = "select"
    /\ Reply(r, IF failure[r] # "none" THEN PrecommitStatus(r) ELSE 503)
    /\ GoTo(r, "return")
    /\ UNCHANGED <<attempt, excluded, failure, event, ctx, clientVars, att, poolVars, budgetVars>>

\* selectWorker finds no eligible worker.
NoEligibleWorker(r) ==
    /\ pc[r] = "select"
    /\ Reply(r, IF failure[r] # "none" THEN PrecommitStatus(r) ELSE 503)
    /\ GoTo(r, "release")
    /\ UNCHANGED <<attempt, excluded, failure, event, ctx, clientVars, att, poolVars, budgetVars>>

ShouldRetry(r, class) ==
    /\ attempt[r] < 2
    /\ ctx[r] = "live"
    /\ class \notin {"canceled", "fatal"}

\* Mutant of Exclude: the failed worker stays eligible.
ExcludeNothing(r, w) == w \in Workers /\ UNCHANGED excluded

Exclude(r, w) == excluded' = [excluded EXCEPT ![r] = @ \union {w}]

\* The three failure branches of the attempt loop: cancel the attempt, then
\* Invalidate(address) takes whatever connection the pool has for the worker,
\* the attempt's own or a newer one, out of it.
AttemptFailed(r, class) ==
    LET w == CurrentWorker(r) IN
    /\ CancelAttempt(r)
    /\ pool' = [pool EXCEPT ![w] = NoConn]
    /\ dropping' = [dropping EXCEPT ![r] = pool[w]]
    /\ failure' = [failure EXCEPT ![r] = class]
    /\ GoTo(r, "drop")
    /\ UNCHANGED <<attempt, excluded, status, event, ctx, clientVars, open, budgetVars>>

\* Invalidate closes what it removed, outside the lock, and with it every
\* stream of any request that runs on it; then the attempt is retried with the
\* worker excluded, or the failure is reported.
Dropped(r) ==
    /\ pc[r] = "drop"
    /\ open' = open \ {dropping[r]}
    /\ dropping' = [dropping EXCEPT ![r] = NoConn]
    /\ IF ShouldRetry(r, failure[r])
       THEN /\ Exclude(r, CurrentWorker(r))
            /\ attempt' = [attempt EXCEPT ![r] = @ + 1]
            /\ GoTo(r, "select")
            /\ UNCHANGED status
       ELSE /\ Reply(r, PrecommitStatus(r))
            /\ GoTo(r, "release")
            /\ UNCHANGED <<excluded, attempt>>
    /\ UNCHANGED <<failure, event, ctx, clientVars, att, pool, budgetVars>>

\* Pool.Client up to the blocking dial.
PoolClient(r) ==
    /\ pc[r] = "client"
    /\ IF pool[CurrentWorker(r)] # NoConn
       THEN /\ att' = [att EXCEPT ![Current(r)].conn = pool[CurrentWorker(r)]]
            /\ GoTo(r, "generate")
       ELSE /\ GoTo(r, "dial")
            /\ UNCHANGED att
    /\ UNCHANGED <<attempt, excluded, failure, status, event, ctx, clientVars, poolVars, budgetVars>>

\* Mutant of Store: the connection that lost the race is not closed.
StoreKeepsLoser(w, c) ==
    /\ pool' = [pool EXCEPT ![w] = IF @ = NoConn THEN c ELSE @]
    /\ open' = open \union {c}

\* The dialed connection c is pooled, or closed at once in favour of the one
\* that another request has pooled meanwhile.
Store(w, c) ==
    IF pool[w] = NoConn
    THEN /\ pool' = [pool EXCEPT ![w] = c]
         /\ open' = open \union {c}
    ELSE UNCHANGED <<pool, open>>

\* DialContext returned a connection; the attempt runs on the pooled one.
Dialed(r) ==
    /\ pc[r] = "dial"
    /\ Store(CurrentWorker(r), Current(r))
    /\ att' = [att EXCEPT ![Current(r)].conn = pool'[CurrentWorker(r)]]
    /\ GoTo(r, "generate")
    /\ UNCHANGED <<attempt, excluded, failure, status, event, ctx, clientVars, dropping, budgetVars>>

\* With WithBlock the dial gives up only when the context is done.
DialFailed(r) ==
    /\ pc[r] = "dial"
    /\ ctx[r] # "live"
    /\ AttemptFailed(r, "connect")

\* The class of the error a call on an attempt's stream returns when its
\* context is done or its connection was closed under it.
AbortClass(i) ==
    IF ctx[i[1]] = "deadline" /\ ~att[i].canceled /\ ~ConnClosed(i)
    THEN "retryable" ELSE "canceled"

GenerateFailed(r) ==
    /\ pc[r] = "generate"
    /\ AttemptFailed(r, IF AttemptDone(Current(r)) \/ ConnClosed(Current(r))
                        THEN AbortClass(Current(r)) ELSE "retryable")

GenerateOpened(r) ==
    /\ pc[r] = "generate"
    /\ ctx[r] = "live"
    /\ ~ConnClosed(Current(r))
    /\ att' = [att EXCEPT ![Current(r)].state = "recv"]
    /\ GoTo(r, "first")
    /\ UNCHANGED <<attempt, excluded, failure, status, event, ctx, clientVars, poolVars, budgetVars>>

-----------------------------------------------------------------------------
(* receiveAttempt and deliverAttempt, one goroutine per opened attempt. *)

\* The deferred cancel and close(events).
ReceiverExit(i) == [att[i] EXCEPT !.state = "exited", !.canceled = TRUE,
                                  !.holding = NoEvent, !.conn = NoConn]

\* The worker's next message.  Messages already buffered may still be read
\* after the context is done.
RecvChunk(i, wire) ==
    /\ att[i].state = "recv"
    /\ ~wire.final => att[i].expected < MaxTokens
    /\ LET e == ChunkEvent(wire, att[i].expected) IN
       att' = [att EXCEPT ![i].state = "deliver",
                          ![i].holding = e,
                          ![i].expected = IF e.kind = "token" THEN @ + 1 ELSE @]
    /\ UNCHANGED <<handlerVars, ctx, clientVars, poolVars, budgetVars>>

\* The stream ends with a status of the worker; EOF without a final chunk is
\* turned into ErrUnexpectedEOF.
RecvError(i, class) ==
    /\ att[i].state = "recv"
    /\ att' = [att EXCEPT ![i].state = "deliver", ![i].holding = Failure(class)]
    /\ UNCHANGED <<handlerVars, ctx, clientVars, poolVars, budgetVars>>

\* Mutant of RecvAborted: the stream was opened with a context of its own.
RecvAbortedDetached(i) ==
    /\ att[i].state = "recv"
    /\ ConnClosed(i)
    /\ att' = [att EXCEPT ![i].state = "deliver", ![i].holding = Failure(AbortClass(i))]
    /\ UNCHANGED <<handlerVars, ctx, clientVars, poolVars, budgetVars>>

\* The stream ends because the context is done or the connection was closed.
RecvAborted(i) ==
    /\ att[i].state = "recv"
    /\ AttemptDone(i) \/ ConnClosed(i)
    /\ att' = [att EXCEPT ![i].state = "deliver", ![i].holding = Failure(AbortClass(i))]
    /\ UNCHANGED <<handlerVars, ctx, clientVars, poolVars, budgetVars>>

\* Mutant of Deliver: the channel is not bounded.
DeliverUnbounded(i) ==
    /\ att[i].state = "deliver"
    /\ LET next == IF att[i].holding.kind = "token"
                   THEN [att[i] EXCEPT !.state = "recv", !.holding = NoEvent]
                   ELSE ReceiverExit(i)
       IN  att' = [att EXCEPT ![i] = [next EXCEPT !.events = Append(@, att[i].holding)]]
    /\ UNCHANGED <<handlerVars, ctx, clientVars, poolVars, budgetVars>>

\* The event fits into the channel.
Deliver(i) ==
    /\ att[i].state = "deliver"
    /\ Len(att[i].events) < SSEBufferSize
    /\ LET next == IF att[i].holding.kind = "token"
                   THEN [att[i] EXCEPT !.state = "recv", !.holding = NoEvent]
                   ELSE ReceiverExit(i)
       IN  att' = [att EXCEPT ![i] = [next EXCEPT !.events = Append(@, att[i].holding)]]
    /\ UNCHANGED <<handlerVars, ctx, clientVars, poolVars, budgetVars>>

\* The event is dropped: the attempt's context is done.
DeliverCanceled(i) ==
    /\ att[i].state = "deliver"
    /\ AttemptDone(i)
    /\ att' = [att EXCEPT ![i] = ReceiverExit(i)]
    /\ UNCHANGED <<handlerVars, ctx, clientVars, poolVars, budgetVars>>

\* The event is dropped: the channel stayed full for SlowClientTimeout.
SlowClient(i) ==
    /\ att[i].state = "deliver"
    /\ Len(att[i].events) = SSEBufferSize
    /\ att' = [att EXCEPT ![i] = ReceiverExit(i)]
    /\ UNCHANGED <<handlerVars, ctx, clientVars, poolVars, budgetVars>>

-----------------------------------------------------------------------------
(* handleChat waiting for the first event of an attempt.  It waits on the   *)
(* channel alone, not on its context.                                       *)

HasEvent(r) == att[Current(r)].events # << >>
\* Mutant of Closed: receiveAttempt returns without close(events).
ClosedNever(r) == att[Current(r)].state = "exited" /\ HasEvent(r) /\ ~HasEvent(r)

Closed(r) == att[Current(r)].state = "exited" /\ ~HasEvent(r)
NextEvent(r) == Head(att[Current(r)].events)
TakeEvent(r) == att' = [att EXCEPT ![Current(r)].events = Tail(@)]

\* An error event, or a final chunk that reports a generation error.
FailureClass(e) == IF e.kind = "error" THEN e.class ELSE "retryable"

FirstFailed(r) ==
    /\ pc[r] = "first"
    /\ HasEvent(r)
    /\ NextEvent(r).kind \in {"error", "finishError"}
    /\ AttemptFailed(r, FailureClass(NextEvent(r)))

\* The channel was closed without an event: io.ErrUnexpectedEOF.
FirstClosed(r) ==
    /\ pc[r] = "first"
    /\ Closed(r)
    /\ AttemptFailed(r, "retryable")

\* A valid first chunk commits the response: writeStreamHeaders up to its flush.
Commit(r) ==
    /\ pc[r] = "first"
    /\ HasEvent(r)
    /\ NextEvent(r).kind \in {"token", "completion"}
    /\ TakeEvent(r)
    /\ event' = [event EXCEPT ![r] = NextEvent(r)]
    /\ Reply(r, 200)
    /\ GoTo(r, "headers")
    /\ UNCHANGED <<attempt, excluded, failure, ctx, clientVars, poolVars, budgetVars>>

\* The headers are flushed, or lost on a broken connection without the handler
\* learning of it.
FlushHeaders(r) ==
    /\ pc[r] = "headers"
    /\ GoTo(r, "write")
    /\ UNCHANGED <<attempt, excluded, failure, status, event, ctx, clientVars, att, poolVars, budgetVars>>

-----------------------------------------------------------------------------
(* forwardCommitted.  Its select takes whichever of the two is ready.       *)

\* Errors and reported generation errors both become the SSE error event.
StreamEvent(e) == IF e.kind \in {"token", "completion"} THEN e ELSE Failure(FailureClass(e))

ForwardEvent(r) ==
    /\ pc[r] = "forward"
    /\ HasEvent(r)
    /\ TakeEvent(r)
    /\ event' = [event EXCEPT ![r] = StreamEvent(NextEvent(r))]
    /\ GoTo(r, "write")
    /\ UNCHANGED <<attempt, excluded, failure, status, ctx, clientVars, poolVars, budgetVars>>

\* Mutants of ForwardClosed: the closed channel is taken for the end of the
\* generation; the handler returns without a word; the attempt is retried.
ForwardClosedCompletes(r) ==
    /\ pc[r] = "forward"
    /\ Closed(r)
    /\ event' = [event EXCEPT ![r] = Completion(0)]
    /\ GoTo(r, "write")
    /\ UNCHANGED <<attempt, excluded, failure, status, ctx, clientVars, att, poolVars, budgetVars>>

ForwardClosedSilently(r) ==
    /\ pc[r] = "forward"
    /\ Closed(r)
    /\ GoTo(r, "release")
    /\ UNCHANGED <<attempt, excluded, failure, status, event, ctx, clientVars, att, poolVars, budgetVars>>

ForwardClosedRetries(r) ==
    /\ pc[r] = "forward"
    /\ Closed(r)
    /\ AttemptFailed(r, "retryable")

\* "worker stream closed without completion".
ForwardClosed(r) ==
    /\ pc[r] = "forward"
    /\ Closed(r)
    /\ event' = [event EXCEPT ![r] = Failure("retryable")]
    /\ GoTo(r, "write")
    /\ UNCHANGED <<attempt, excluded, failure, status, ctx, clientVars, att, poolVars, budgetVars>>

\* Mutant of ForwardAborted: [DONE] without a terminal event.
ForwardAbortedDone(r) ==
    /\ pc[r] = "forward"
    /\ ctx[r] # "live"
    /\ CancelAttempt(r)
    /\ sse' = [sse EXCEPT ![r] = Append(@, Sent("done", 0, 0))]
    /\ GoTo(r, "release")
    /\ UNCHANGED <<attempt, excluded, failure, status, event, ctx, client, poolVars, budgetVars>>

\* The context is done: nothing more is written.
ForwardAborted(r) ==
    /\ pc[r] = "forward"
    /\ ctx[r] # "live"
    /\ CancelAttempt(r)
    /\ GoTo(r, "release")
    /\ UNCHANGED <<attempt, excluded, failure, status, event, ctx, clientVars, poolVars, budgetVars>>

\* Where the handler goes after a write that reported no error.
AfterWrite(r) == IF event[r].kind = "token" THEN "forward" ELSE "done"

\* writeSSE, accepted by the connection (a stalled client's socket may still
\* have room).
WriteAccepted(r) ==
    /\ pc[r] = "write"
    /\ client[r] # "gone"
    /\ sse' = [sse EXCEPT ![r] = Append(@, Sent(event[r].kind, attempt[r], event[r].index))]
    /\ event' = [event EXCEPT ![r] = NoEvent]
    /\ GoTo(r, AfterWrite(r))
    /\ UNCHANGED <<attempt, excluded, failure, status, ctx, client, att, poolVars, budgetVars>>

\* writeSSE on a broken connection, or on a stalled one until its write
\* deadline breaks it.  net/http cancels the request context; the error
\* itself is returned only if it surfaces before Flush, which drops it.
\* writeCompletion and writeStreamError ignore it.
WriteLost(r) ==
    /\ pc[r] = "write"
    /\ client[r] # "reading"
    /\ client' = [client EXCEPT ![r] = "gone"]
    /\ CancelContext(r)
    /\ event' = [event EXCEPT ![r] = NoEvent]
    /\ \/ GoTo(r, AfterWrite(r)) /\ UNCHANGED att
       \/ event[r].kind = "token" /\ GoTo(r, "release") /\ CancelAttempt(r)
    /\ UNCHANGED <<attempt, excluded, failure, status, sse, poolVars, budgetVars>>

\* writeDone, and the deferred cancel of the attempt.
WriteDone(r) ==
    /\ pc[r] = "done"
    /\ sse' = [sse EXCEPT ![r] = IF client[r] = "gone" THEN @ ELSE Append(@, Sent("done", 0, 0))]
    /\ CancelAttempt(r)
    /\ GoTo(r, "release")
    /\ UNCHANGED <<attempt, excluded, failure, status, event, ctx, client, poolVars, budgetVars>>

-----------------------------------------------------------------------------
(* The deferred calls of handleChat. *)

Release(r) ==
    /\ pc[r] = "release"
    /\ Budget!GiveBack(r)
    /\ GoTo(r, "return")
    /\ UNCHANGED <<attempt, excluded, failure, status, event, ctx, clientVars, att, poolVars>>

\* cancel() of the request context, active.Done().
Return(r) ==
    /\ pc[r] = "return"
    /\ CancelContext(r)
    /\ GoTo(r, "flush")
    /\ UNCHANGED <<attempt, excluded, failure, status, event, clientVars, att, poolVars, budgetVars>>

\* net/http flushes what is left of the response; its connection is idle again.
FinishResponse(r) ==
    /\ pc[r] = "flush"
    /\ GoTo(r, "closed")
    /\ UNCHANGED <<attempt, excluded, failure, status, event, ctx, clientVars, att, poolVars, budgetVars>>

\* The writes that have no write deadline.  While the client is stalled and its
\* socket full, they do not return.
Unbounded(r) == FlushHeaders(r) \/ WriteDone(r) \/ FinishResponse(r)

-----------------------------------------------------------------------------
(* The client and the clock. *)

\* A connection is serving the request.
Active(r) == pc[r] \notin {"idle", "closed"}

\* The request has its deadline, and net/http watches its connection, only
\* after the body was read.
Parsed(r) == Active(r) /\ pc[r] \notin {"accepted", "parse"}

DeadlineExpires(r) ==
    /\ Parsed(r)
    /\ ctx[r] = "live"
    /\ ctx' = [ctx EXCEPT ![r] = "deadline"]
    /\ UNCHANGED <<handlerVars, clientVars, att, poolVars, budgetVars>>

Disconnect(r) ==
    /\ Active(r)
    /\ "disconnect" \in ClientFaults
    /\ client[r] # "gone"
    /\ client' = [client EXCEPT ![r] = "gone"]
    /\ UNCHANGED <<handlerVars, ctx, sse, att, poolVars, budgetVars>>

\* net/http's background read notices the closed connection.
DisconnectNoticed(r) ==
    /\ Parsed(r)
    /\ client[r] = "gone"
    /\ ctx[r] = "live"
    /\ CancelContext(r)
    /\ UNCHANGED <<handlerVars, clientVars, att, poolVars, budgetVars>>

\* The client stops reading.  Nothing is written to it before it has a status,
\* so that one which stopped earlier is met first in front of the headers.
Stall(r) ==
    /\ Active(r)
    /\ "stall" \in ClientFaults
    /\ status[r] # 0
    /\ client[r] = "reading"
    /\ client' = [client EXCEPT ![r] = "stalled"]
    /\ UNCHANGED <<handlerVars, ctx, sse, att, poolVars, budgetVars>>

Resume(r) ==
    /\ Active(r)
    /\ client[r] = "stalled"
    /\ client' = [client EXCEPT ![r] = "reading"]
    /\ UNCHANGED <<handlerVars, ctx, sse, att, poolVars, budgetVars>>

-----------------------------------------------------------------------------
\* The steps the handler takes by itself.
HandlerStep(r) ==
    \/ Enter(r) \/ BodyLost(r)
    \/ NoHealthyWorkers(r) \/ HealthyWorkers(r)
    \/ AdmissionRejected(r)
    \/ \E cost \in Costs : Admitted(r, cost)
    \/ \E w \in Workers : SelectWorker(r, w)
    \/ NoEligibleWorker(r)
    \/ PoolClient(r) \/ DialFailed(r) \/ Dropped(r)
    \/ GenerateOpened(r) \/ GenerateFailed(r)
    \/ FirstFailed(r) \/ FirstClosed(r) \/ Commit(r)
    \/ ForwardEvent(r) \/ ForwardClosed(r) \/ ForwardAborted(r)
    \/ WriteAccepted(r) \/ WriteLost(r)
    \/ client[r] # "stalled" /\ Unbounded(r)
    \/ Release(r) \/ Return(r)

\* What the receiver does with an event in hand, and when its stream is torn down.
DeliverStep(i) == Deliver(i) \/ DeliverCanceled(i) \/ SlowClient(i)

\* What the worker, the network, the client and the clock may do.
EnvironmentStep(r) ==
    \/ Arrive(r) \/ BodyRead(r) \/ BadRequest(r)
    \/ Dialed(r)
    \/ client[r] = "stalled" /\ Unbounded(r)    \* its socket still has room
    \/ DeadlineExpires(r)
    \/ Disconnect(r) \/ DisconnectNoticed(r)
    \/ Stall(r) \/ Resume(r)

\* All requests were served and no goroutine of theirs is left.
Served ==
    /\ \A r \in Requests : pc[r] = "closed"
    /\ \A i \in Attempts : att[i].state \in {"none", "exited"}
    /\ UNCHANGED vars

Next ==
    \/ Served
    \/ \E r \in Requests : HandlerStep(r) \/ EnvironmentStep(r)
    \/ \E i \in Attempts :
          \/ \E wire \in WireChunks : RecvChunk(i, wire)
          \/ \E class \in WorkerFailures : RecvError(i, class)
          \/ RecvAborted(i)
          \/ DeliverStep(i)

Spec == Init /\ [][Next]_vars

(* Fairness.  The Go scheduler runs every runnable goroutine, context        *)
(* timers fire, the background read notices a closed connection and gRPC     *)
(* returns from Recv once the context is done.  Nothing is assumed of the    *)
(* workers, of a dial, or of the client, whose upload may never end.         *)
Fairness ==
    /\ \A r \in Requests : /\ WF_vars(HandlerStep(r))
                           /\ WF_vars(DeadlineExpires(r))
                           /\ WF_vars(DisconnectNoticed(r))
    /\ \A i \in Attempts : WF_vars(RecvAborted(i)) /\ WF_vars(DeliverStep(i))

FairSpec == Spec /\ Fairness

-----------------------------------------------------------------------------
PCs == {"idle", "accepted", "parse", "check", "reserve", "select", "client", "dial",
        "generate", "drop", "first", "headers", "forward", "write", "done", "release",
        "return", "flush", "closed"}

\* Between Reserve and the deferred Release.
LeasedPCs == {"select", "client", "dial", "generate", "drop", "first", "headers", "forward",
              "write", "done", "release"}

\* What an attempt's channel carries; only an error has a class.
EventType == [kind : {"token", "completion", "finishError"}, index : 0 .. MaxTokens,
              class : {"none"}]
             \union [kind : {"error"}, index : {0}, class : ErrorClasses]

SentType == [kind : {"token", "completion", "error", "done"}, attempt : 0 .. 2,
             index : 0 .. MaxTokens]

AttemptType == [worker : Workers \union {NoWorker},
                conn : Connections,
                canceled : BOOLEAN,
                state : {"none", "recv", "deliver", "exited"},
                expected : 0 .. MaxTokens,
                holding : EventType \union {NoEvent},
                events : Seq(EventType)]

(* Every variable has its type, and no attempt's channel holds more than     *)
(* SSEBufferSize events.                                                     *)
TypeOK ==
    /\ pc \in [Requests -> PCs]
    /\ attempt \in [Requests -> {1, 2}]
    /\ excluded \in [Requests -> SUBSET Workers]
    /\ failure \in [Requests -> ErrorClasses \union {"none"}]
    /\ ctx \in [Requests -> {"live", "deadline", "canceled"}]
    /\ client \in [Requests -> {"reading", "stalled", "gone"}]
    /\ status \in [Requests -> {0, 200, 400, 429, 502, 503, 504}]
    /\ sse \in [Requests -> Seq(SentType)]
    /\ event \in [Requests -> EventType \union {NoEvent}]
    /\ att \in [Attempts -> AttemptType]
    /\ \A i \in Attempts : Len(att[i].events) <= SSEBufferSize
    /\ pool \in [Workers -> Connections]
    /\ open \subseteq Attempts
    /\ dropping \in [Requests -> Connections]
    /\ used \in 0 .. GlobalInFlightTokens
    /\ leases \in [Requests -> 0 .. GlobalInFlightTokens]

Kinds(s) == {s[n].kind : n \in DOMAIN s}

(* The stream a client receives is one generation: tokens of a single        *)
(* attempt in index order from 0 with none missing or repeated, at most one  *)
(* terminal event after them, and [DONE] only after that and last.  Retries, *)
(* malformed chunks, the slow-client drop and lost writes never mix or       *)
(* reorder two attempts (handleChat and forwardCommitted).                   *)
StreamWellFormed ==
    \A r \in Requests : LET s == sse[r] IN
        /\ \A n \in DOMAIN s : s[n].kind = "token" => s[n].index = n - 1 /\ s[n].attempt = attempt[r]
        /\ \A n \in DOMAIN s : s[n].kind # "token" =>
               \A m \in DOMAIN s : m > n => s[m].kind = "done"
        /\ \A n \in DOMAIN s : s[n].kind = "done" =>
               n = Len(s) /\ n > 1 /\ s[n - 1].kind \in {"completion", "error"}

(* A completion event is honest: the client has then been sent every token   *)
(* the worker produced in that attempt.  An event dropped for a slow client  *)
(* or a cancelled context always costs the completion too.                   *)
CompletionIsComplete ==
    \A r \in Requests : \A n \in DOMAIN sse[r] :
        sse[r][n].kind = "completion" =>
            /\ sse[r][n].attempt = attempt[r]
            /\ n - 1 = att[Current(r)].expected

(* A committed stream whose request was neither cancelled nor timed out has  *)
(* been closed with [DONE] by the time the handler releases its lease.       *)
CommittedStreamsEnd ==
    \A r \in Requests :
        (pc[r] = "release" /\ status[r] = 200 /\ ctx[r] = "live" /\ client[r] # "gone") =>
            "done" \in Kinds(sse[r])

(* A lease is held exactly from admission to release, on every path through  *)
(* both attempts, and admission's books agree with the leases held.          *)
LeaseFollowsHandler ==
    /\ \A r \in Requests :
          leases[r] # 0 <=> pc[r] \in LeasedPCs
    /\ used = Total(leases, GlobalInFlightTokens)
    /\ used <= GlobalInFlightTokens

(* Once the second attempt runs, the first is cancelled and its worker is    *)
(* not used again: no request ever keeps two live generations.               *)
RetryReplacesAttempt ==
    \A r \in Requests : attempt[r] = 2 =>
        /\ att[r, 1].canceled
        /\ att[r, 1].worker # att[r, 2].worker
        /\ failure[r] # "none"

(* No connection is lost.  An open one is the pooled connection of its       *)
(* worker or one that an Invalidate still has in hand, so that a dial that   *)
(* lost the race of Pool.Client leaves nothing behind that nobody will       *)
(* close; the pool holds only open connections, each under the worker it     *)
(* goes to, although Invalidate may remove a newer connection than the one   *)
(* that failed and closes it after other requests have dialed again.         *)
ConnectionsArePooled ==
    /\ \A c \in open : pool[att[c].worker] = c \/ \E r \in Requests : dropping[r] = c
    /\ \A w \in Workers : pool[w] # NoConn => pool[w] \in open /\ att[pool[w]].worker = w
    /\ \A i \in Attempts : att[i].conn # NoConn => att[att[i].conn].worker = att[i].worker

(* 503 means that no worker was tried; a failure of the first worker is not  *)
(* rewritten as a no-healthy-workers reply when no alternate exists.         *)
NoHealthyMeansUntried ==
    \A r \in Requests : status[r] = 503 =>
        attempt[r] = 1 /\ failure[r] = "none" /\ att[r, 1].worker = NoWorker

(* The response starts once: after headers or a JSON error were sent the     *)
(* status never changes and no further attempt is made, so nothing is        *)
(* retried after the first event was committed.                              *)
ResponseStep ==
    \A r \in Requests : status[r] # 0 =>
        status'[r] = status[r] /\ attempt'[r] = attempt[r]

ResponseStartsOnce == [][ResponseStep]_vars

\* What the client knows of its request: the mapping to ChatContract.
Outcome(r) ==
    IF status[r] = 0 THEN "pending"
    ELSE IF status[r] # 200 THEN "refused"
    ELSE IF "completion" \in Kinds(sse[r]) THEN "completed"
    ELSE IF "error" \in Kinds(sse[r]) THEN "failed"
    ELSE IF pc[r] \notin {"release", "return", "flush", "closed"} THEN "streaming"
    ELSE IF ctx[r] = "deadline" THEN "expired" ELSE "aborted"

\* The tokens among the events of a stream.
Tokens(s) == {n \in DOMAIN s : s[n].kind = "token"}

Contract == INSTANCE ChatContract WITH
    outcome <- [r \in Requests |-> Outcome(r)],
    delivered <- [r \in Requests |-> Cardinality(Tokens(sse[r]))],
    done <- [r \in Requests |-> "done" \in Kinds(sse[r])],
    ended <- ctx

(* The handler, its receivers and the pool together implement the client's   *)
(* contract: one refusal or one stream, ended once, closed by [DONE] only    *)
(* when it was completed or failed, and cut off in silence only when the     *)
(* request's own context is done.                                            *)
ContractRefinement == Contract!ContractSpec

\* parseRequest waits for a client that has not gone.
Uploading(r) == pc[r] = "parse" /\ client[r] # "gone"

\* The request is in front of a write that has no deadline, to a client that
\* does not read.
Held(r) == pc[r] \in {"headers", "done", "flush"} /\ client[r] = "stalled"

(* Every request that reaches the handler ends, with its lease released,     *)
(* provided that its client does not leave its body unfinished for ever and  *)
(* unless the client stalls in front of the headers, the final [DONE] or the *)
(* end of the response, which are written without a deadline.  Workers that  *)
(* never answer, dials that never end and slow streams do not hold it.       *)
RequestsEnd ==
    \A r \in Requests :
        (Uploading(r) ~> ~Uploading(r)) => (Active(r) ~> (pc[r] = "closed" \/ Held(r)))

(* No goroutine leaks: once the handler has returned, every receiver it      *)
(* started exits, even one that holds an event nobody will take.             *)
ReceiversExit ==
    \A r \in Requests : \A a \in {1, 2} :
        pc[r] = "flush" ~> att[r, a].state \in {"none", "exited"}
=============================================================================
