------------------------------ MODULE MockWorker ------------------------------
(***************************************************************************)
(* internal/mockworker/worker.go without its registration loop (which is in  *)
(* Registry.tla): the Generate handlers, the one dispatcher goroutine, the   *)
(* bounded queue between them, the result channel of capacity one per job,   *)
(* the load counters and prefix cache that heartbeats report, and Stop.      *)
(*                                                                          *)
(* Handlers and dispatcher meet in the queue, the result channel, the stream *)
(* context and Worker.mu only; each action is the code between two of these. *)
(* A wait may end early when its context or the worker's is done and may     *)
(* also run to its end then, since the select picks either.  gRPC cancels a   *)
(* stream's context when its handler returns.  Rates and durations are       *)
(* abstracted to the work units they produce, token texts to their indices.  *)
(***************************************************************************)
EXTENDS Sequences, SequencesExt, TokenSum

CONSTANTS
    Calls,                  \* Generate calls
    Requests,               \* their requests: work, outputs, prefixes
    Fingerprints,           \* SHA256 values of prefix fingerprints
    TokenCount,             \* TokenCount[p]: the length of prefix p
    MaxTokenCount,          \* bound on TokenCount
    MaxWork,                \* bound on a request's normalizedWork
    QueueCapacity,          \* WorkerConfig.QueueCapacity
    OutputCap,              \* the 8 of runJob
    FailBeforeSettings,     \* configured values of Failure.FailBeforeFirstCount
    FailAfterSettings,      \* configured values of Failure.FailAfterTokens, 0 for never
    CachePrefixLimit,       \* WorkerConfig.CachePrefixLimit
    CacheCapacityTokens,    \* WorkerConfig.CacheCapacityTokens
    NoCall                  \* no job at the dispatcher

ASSUME CallsAssumption == IsFiniteSet(Calls) /\ NoCall \notin Calls
\* WorkerConfig.Validate.
ASSUME ConfigAssumption ==
    /\ QueueCapacity \in Nat \ {0}
    /\ OutputCap \in Nat \ {0}
    /\ FailBeforeSettings \subseteq Nat
    /\ FailAfterSettings \subseteq Nat
    /\ CachePrefixLimit \in Nat \ {0}
    /\ CacheCapacityTokens \in Nat \ {0}
ASSUME RequestsAssumption ==
    /\ MaxWork \in Nat
    /\ MaxTokenCount \in Nat
    /\ IsFiniteSet(Fingerprints)
    /\ TokenCount \in [Fingerprints -> 1 .. MaxTokenCount]
    /\ \A r \in Requests : /\ r.work \in 0 .. MaxWork
                           /\ r.outputs \in Nat \ {0}
                           /\ r.prefixes \in Seq(Fingerprints)

VARIABLES
    call,       \* call[c]: the Generate handler, its stream and its result channel
    queue,      \* Worker.queue
    disp,       \* the dispatcher: its job, its position in runJob, the token index
    waiting,    \* state.WaitingRequestCount and WaitingTokenCount
    running,    \* state.RunningRequestCount and RunningWorkTokens
    failBefore, \* Worker.failBeforeRemaining
    failAfter,  \* Worker.config.Failure.FailAfterTokens
    cache,      \* the keys of Worker.cache
    cacheOrder, \* Worker.cacheOrder
    usedTokens, \* state.KVUsage.UsedTokens
    stop,       \* how far Stop has come
    others      \* the goroutines of Worker.wg beside the dispatcher that still run

vars == <<call, queue, disp, waiting, running, failBefore, failAfter, cache,
          cacheOrder, usedTokens, stop, others>>
load == <<waiting, running>>
cached == <<cache, cacheOrder, usedTokens>>
faults == <<failBefore, failAfter>>
stopping == <<stop, others>>

(* Results.  A token is its index; -1 is the final chunk and -2 an error.     *)
Final == -1
Failure == -2
NoResult == -3
Result == Nat \union {Final, Failure, NoResult}

NoRequest == [work |-> 0, outputs |-> 0, prefixes |-> <<>>]
NewCall == [pc |-> "idle", request |-> NoRequest, done |-> FALSE, results |-> NoResult,
            sent |-> <<>>, status |-> "none"]

CallType == [pc : {"idle", "enqueue", "stream", "ended"}, request : Requests \union {NoRequest},
             done : BOOLEAN, results : Result, sent : Seq(Result),
             status : {"none", "ok", "invalid", "exhausted", "canceled", "unavailable", "injected"}]
DispType == [job : Calls \union {NoCall}, index : Nat, out : Result,
             at : {"idle", "taken", "prefill", "decode", "cache", "send", "finish", "exited"}]
Counter == [count : Nat, work : Nat]

(* Every variable has its type; the queue is a channel of its capacity.      *)
TypeOK ==
    /\ call \in [Calls -> CallType]
    /\ queue \in Seq(Calls) /\ Len(queue) <= QueueCapacity
    /\ disp \in DispType
    /\ waiting \in Counter
    /\ running \in Counter
    /\ failBefore \in Nat
    /\ failAfter \in FailAfterSettings
    /\ cache \subseteq Fingerprints
    /\ cacheOrder \in Seq(Fingerprints)
    /\ usedTokens \in Nat
    /\ stop \in {"running", "canceled", "serverStopped", "stopped"}
    /\ others \subseteq {"serve", "registrationLoop"}

Init ==
    /\ call = [c \in Calls |-> NewCall]
    /\ queue = <<>>
    /\ disp = [job |-> NoCall, index |-> 0, out |-> NoResult, at |-> "idle"]
    /\ waiting = [count |-> 0, work |-> 0]
    /\ running = [count |-> 0, work |-> 0]
    /\ failBefore \in FailBeforeSettings
    /\ failAfter \in FailAfterSettings
    /\ cache = {}
    /\ cacheOrder = <<>>
    /\ usedTokens = 0
    /\ stop = "running"
    /\ others = {"serve", "registrationLoop"}

-----------------------------------------------------------------------------
(* The load counters.                                                        *)

Work(c) == call[c].request.work
Raised(counter, work) == [count |-> counter.count + 1, work |-> counter.work + work]

\* Both fields stop at zero instead of wrapping.
Lowered(counter, work) ==
    [count |-> IF counter.count > 0 THEN counter.count - 1 ELSE counter.count,
     work |-> IF counter.work >= work THEN counter.work - work ELSE 0]

-----------------------------------------------------------------------------
(* Generate.                                                                 *)

Stopping == stop # "running"        \* w.ctx is done

\* The handler returns; gRPC then cancels the stream's context.
End(c, status) ==
    call' = [call EXCEPT ![c].pc = "ended", ![c].status = status, ![c].done = TRUE]

\* The server takes no new calls once it is stopped.
InvalidCall(c) ==
    /\ call[c].pc = "idle"
    /\ stop \in {"running", "canceled"}
    /\ End(c, "invalid")
    /\ UNCHANGED <<queue, disp, load, faults, cached, stopping>>

AddWaiting(c, request) ==
    /\ call[c].pc = "idle"
    /\ stop \in {"running", "canceled"}
    /\ call' = [call EXCEPT ![c].pc = "enqueue", ![c].request = request]
    /\ waiting' = Raised(waiting, request.work)
    /\ UNCHANGED <<queue, disp, running, faults, cached, stopping>>

Enqueue(c) ==
    /\ call[c].pc = "enqueue"
    /\ Len(queue) < QueueCapacity
    /\ queue' = Append(queue, c)
    /\ call' = [call EXCEPT ![c].pc = "stream"]
    /\ UNCHANGED <<disp, load, faults, cached, stopping>>

EnqueueCanceled(c) ==
    /\ call[c].pc = "enqueue"
    /\ call[c].done
    /\ End(c, "canceled")
    /\ waiting' = Lowered(waiting, Work(c))
    /\ UNCHANGED <<queue, disp, running, faults, cached, stopping>>

\* Mutant of QueueFull: the caller is turned away and stays counted.
QueueFullStaysCounted(c) ==
    /\ call[c].pc = "enqueue"
    /\ Len(queue) = QueueCapacity /\ ~ call[c].done
    /\ End(c, "exhausted")
    /\ UNCHANGED <<queue, disp, load, faults, cached, stopping>>

\* The default branch: neither the queue nor the context is ready.
QueueFull(c) ==
    /\ call[c].pc = "enqueue"
    /\ Len(queue) = QueueCapacity /\ ~ call[c].done
    /\ End(c, "exhausted")
    /\ waiting' = Lowered(waiting, Work(c))
    /\ UNCHANGED <<queue, disp, running, faults, cached, stopping>>

\* A chunk is sent on the stream; the final one ends the call.
ReceiveChunk(c) ==
    /\ call[c].pc = "stream"
    /\ call[c].results \notin {NoResult, Failure}
    /\ LET result == call[c].results IN
       call' = [call EXCEPT ![c].results = NoResult, ![c].sent = Append(@, result),
                            ![c].pc = IF result = Final THEN "ended" ELSE @,
                            ![c].status = IF result = Final THEN "ok" ELSE @,
                            ![c].done = @ \/ result = Final]
    /\ UNCHANGED <<queue, disp, load, faults, cached, stopping>>

\* stream.Send fails once the stream is gone.
SendFailed(c) ==
    /\ call[c].pc = "stream"
    /\ call[c].results \notin {NoResult, Failure}
    /\ call[c].done
    /\ End(c, "canceled")
    /\ UNCHANGED <<queue, disp, load, faults, cached, stopping>>

ReceiveFailure(c) ==
    /\ call[c].pc = "stream"
    /\ call[c].results = Failure
    /\ End(c, "injected")
    /\ UNCHANGED <<queue, disp, load, faults, cached, stopping>>

CallCanceled(c) ==
    /\ call[c].pc = "stream"
    /\ call[c].done
    /\ End(c, "canceled")
    /\ UNCHANGED <<queue, disp, load, faults, cached, stopping>>

CallStopped(c) ==
    /\ call[c].pc = "stream"
    /\ Stopping
    /\ End(c, "unavailable")
    /\ UNCHANGED <<queue, disp, load, faults, cached, stopping>>

-----------------------------------------------------------------------------
(* The prefix cache: addPrefixes.                                            *)

CacheState == [order |-> cacheOrder, keys |-> cache, used |-> usedTokens]

TokensOf(prefixes) == Total([p \in prefixes |-> TokenCount[p]], MaxTokenCount)

\* What n iterations of the eviction loop delete: the n oldest prefixes.
Oldest(state, n) == state.keys \intersect ToSet(SubSeq(state.order, 1, n))

Fits(state, n) ==
    \/ n = Len(state.order)
    \/ /\ Len(state.order) - n <= CachePrefixLimit
       /\ state.used - TokensOf(Oldest(state, n)) <= CacheCapacityTokens

\* Mutant of Evict: the evicted tokens stay counted.
EvictUncounted(state, n) ==
    [order |-> SubSeq(state.order, n + 1, Len(state.order)),
     keys |-> state.keys \ Oldest(state, n),
     used |-> state.used]

\* n iterations of the eviction loop; the count stops at zero.
Evict(state, n) ==
    [order |-> SubSeq(state.order, n + 1, Len(state.order)),
     keys |-> state.keys \ Oldest(state, n),
     used |-> IF state.used >= TokensOf(Oldest(state, n))
              THEN state.used - TokensOf(Oldest(state, n)) ELSE 0]

\* The loop runs until the cache fits or is empty.
Evicted(state) ==
    Evict(state, CHOOSE n \in 0 .. Len(state.order) :
                     Fits(state, n) /\ \A i \in 0 .. n - 1 : ~ Fits(state, i))

WithPrefix(state, p) ==
    [order |-> Append(state.order, p), keys |-> state.keys \union {p},
     used |-> state.used + TokenCount[p]]

\* One round of the loop over the prefixes, as the image of a set of states.
AddPrefix(states, p) ==
    {IF p \in state.keys THEN state ELSE Evicted(WithPrefix(state, p)) : state \in states}

\* The loop.
CacheAfter(prefixes) ==
    LET after[i \in 0 .. Len(prefixes)] ==
            IF i = 0 THEN {CacheState} ELSE AddPrefix(after[i - 1], prefixes[i])
    IN  after[Len(prefixes)]

-----------------------------------------------------------------------------
(* dispatch and runJob.                                                      *)

Job == call[disp.job]
Interrupted == Job.done \/ Stopping

Dequeue ==
    /\ disp.at = "idle"
    /\ queue # <<>>
    /\ disp' = [disp EXCEPT !.at = "taken", !.job = Head(queue)]
    /\ queue' = Tail(queue)
    /\ UNCHANGED <<call, load, faults, cached, stopping>>

MoveToRunning ==
    /\ disp.at = "taken"
    /\ disp' = [disp EXCEPT !.at = "prefill"]
    /\ waiting' = Lowered(waiting, Work(disp.job))
    /\ running' = Raised(running, Work(disp.job))
    /\ UNCHANGED <<call, queue, faults, cached, stopping>>

Outputs == IF Job.request.outputs > OutputCap THEN OutputCap ELSE Job.request.outputs

\* Mutant of LoopAt: one token too few.
LoopAtShort(i) ==
    IF i + 1 >= Outputs THEN [disp EXCEPT !.at = "cache", !.index = i]
    ELSE IF failAfter > 0 /\ i >= failAfter
    THEN [disp EXCEPT !.at = "send", !.index = i, !.out = Failure]
    ELSE [disp EXCEPT !.at = "decode", !.index = i]

\* The head of the token loop and its exit.
LoopAt(i) ==
    IF i = Outputs THEN [disp EXCEPT !.at = "cache", !.index = i]
    ELSE IF failAfter > 0 /\ i >= failAfter
    THEN [disp EXCEPT !.at = "send", !.index = i, !.out = Failure]
    ELSE [disp EXCEPT !.at = "decode", !.index = i]

PrefillOver ==
    /\ disp.at = "prefill"
    /\ \/ /\ failBefore > 0
          /\ failBefore' = failBefore - 1
          /\ disp' = [disp EXCEPT !.at = "send", !.out = Failure]
       \/ /\ failBefore = 0
          /\ failBefore' = failBefore
          /\ disp' = LoopAt(0)
    /\ UNCHANGED <<call, queue, load, failAfter, cached, stopping>>

DecodeOver ==
    /\ disp.at = "decode"
    /\ disp' = [disp EXCEPT !.at = "send", !.out = disp.index]
    /\ UNCHANGED <<call, queue, load, faults, cached, stopping>>

WaitInterrupted ==
    /\ disp.at \in {"prefill", "decode"}
    /\ Interrupted
    /\ disp' = [disp EXCEPT !.at = "finish"]
    /\ UNCHANGED <<call, queue, load, faults, cached, stopping>>

AddPrefixes ==
    /\ disp.at = "cache"
    /\ \E state \in CacheAfter(Job.request.prefixes) :
          /\ cache' = state.keys
          /\ cacheOrder' = state.order
          /\ usedTokens' = state.used
    /\ disp' = [disp EXCEPT !.at = "send", !.out = Final]
    /\ UNCHANGED <<call, queue, load, faults, stopping>>

Send ==
    /\ disp.at = "send"
    /\ Job.results = NoResult
    /\ call' = [call EXCEPT ![disp.job].results = disp.out]
    /\ disp' = IF disp.out \in Nat THEN LoopAt(disp.index + 1)
               ELSE [disp EXCEPT !.at = "finish"]
    /\ UNCHANGED <<queue, load, faults, cached, stopping>>

\* Mutant of SendInterrupted: the send does not watch the job's context.
SendInterruptedByStop ==
    /\ disp.at = "send"
    /\ Stopping
    /\ disp' = [disp EXCEPT !.at = "finish"]
    /\ UNCHANGED <<call, queue, load, faults, cached, stopping>>

SendInterrupted ==
    /\ disp.at = "send"
    /\ Interrupted
    /\ disp' = [disp EXCEPT !.at = "finish"]
    /\ UNCHANGED <<call, queue, load, faults, cached, stopping>>

FinishRunning ==
    /\ disp.at = "finish"
    /\ running' = Lowered(running, Work(disp.job))
    /\ disp' = [job |-> NoCall, index |-> 0, out |-> NoResult, at |-> "idle"]
    /\ UNCHANGED <<call, queue, waiting, faults, cached, stopping>>

\* Mutant of DispatchExit: the dispatcher watches its queue only.
DispatchExitNever ==
    /\ FALSE
    /\ UNCHANGED vars

DispatchExit ==
    /\ disp.at = "idle"
    /\ Stopping
    /\ disp' = [disp EXCEPT !.at = "exited"]
    /\ UNCHANGED <<call, queue, load, faults, cached, stopping>>

-----------------------------------------------------------------------------
(* Stop, and the clients.                                                    *)

\* w.cancel().
StopCancel ==
    /\ stop = "running"
    /\ stop' = "canceled"
    /\ UNCHANGED <<call, queue, disp, load, faults, cached, others>>

\* grpcServer.Stop: no new calls, the running ones lose their connection.
StopServer ==
    /\ stop = "canceled"
    /\ stop' = "serverStopped"
    /\ call' = [c \in Calls |-> [call[c] EXCEPT !.done = @ \/ call[c].pc \in {"enqueue", "stream"}]]
    /\ UNCHANGED <<queue, disp, load, faults, cached, others>>

OtherReturns(goroutine) ==
    /\ goroutine \in others
    /\ others' = others \ {goroutine}
    /\ UNCHANGED <<call, queue, disp, load, faults, cached, stop>>

\* grpcServer.Serve ends when the server is stopped.
ServeReturns == stop = "serverStopped" /\ OtherReturns("serve")

\* Wherever registrationLoop is, in a dial, a call, the ticker's select or the
\* wait after an error, it watches w.ctx.
LoopReturns == Stopping /\ OtherReturns("registrationLoop")

\* wg.Wait: all three goroutines have returned.
StopReturns ==
    /\ stop = "serverStopped"
    /\ disp.at = "exited" /\ others = {}
    /\ stop' = "stopped"
    /\ UNCHANGED <<call, queue, disp, load, faults, cached, others>>

\* The client or its deadline cancels the stream.
CallerCancels(c) ==
    /\ call[c].pc \in {"enqueue", "stream"}
    /\ ~ call[c].done
    /\ call' = [call EXCEPT ![c].done = TRUE]
    /\ UNCHANGED <<queue, disp, load, faults, cached, stopping>>

\* Everything is over.
AllOver ==
    /\ stop = "stopped"
    /\ \A c \in Calls : call[c].pc \in {"idle", "ended"}
    /\ UNCHANGED vars

-----------------------------------------------------------------------------
HandlerStep(c) ==
    \/ Enqueue(c)
    \/ EnqueueCanceled(c)
    \/ QueueFull(c)
    \/ ReceiveChunk(c)
    \/ SendFailed(c)
    \/ ReceiveFailure(c)
    \/ CallCanceled(c)
    \/ CallStopped(c)

DispatcherStep ==
    \/ Dequeue
    \/ MoveToRunning
    \/ PrefillOver
    \/ DecodeOver
    \/ WaitInterrupted
    \/ AddPrefixes
    \/ Send
    \/ SendInterrupted
    \/ FinishRunning
    \/ DispatchExit

Next ==
    \/ \E c \in Calls : \/ InvalidCall(c)
                        \/ \E request \in Requests : AddWaiting(c, request)
                        \/ HandlerStep(c)
                        \/ CallerCancels(c)
    \/ DispatcherStep
    \/ StopCancel
    \/ StopServer
    \/ ServeReturns \/ LoopReturns
    \/ StopReturns
    \/ AllOver

Spec == Init /\ [][Next]_vars

(* Goroutines run and timers fire.  Clients need not cancel, and nothing      *)
(* obliges the process to be stopped.                                        *)
FairSpec ==
    /\ Spec
    /\ \A c \in Calls : WF_vars(HandlerStep(c))
    /\ WF_vars(DispatcherStep)
    /\ WF_vars(StopServer) /\ WF_vars(StopReturns)
    /\ WF_vars(ServeReturns) /\ WF_vars(LoopReturns)

-----------------------------------------------------------------------------
WaitingJobs ==
    {c \in Calls : \/ call[c].pc = "enqueue"
                   \/ c \in ToSet(queue)
                   \/ disp.at = "taken" /\ disp.job = c}
RunningJobs ==
    {c \in Calls : disp.job = c /\ disp.at # "taken"}

WorkOf(jobs) == Total([c \in Calls |-> IF c \in jobs THEN Work(c) ELSE 0], MaxWork)

(* The load that heartbeats report, and that routing compares, is the load    *)
(* there is: WaitingRequestCount and WaitingTokenCount are those of the calls  *)
(* between addWaiting and moveToRunning, RunningRequestCount and              *)
(* RunningWorkTokens those of the dispatcher's job, on every path out of       *)
(* Generate and runJob.  The clamps at zero therefore never act.             *)
CountersMatchJobs ==
    /\ waiting = [count |-> Cardinality(WaitingJobs), work |-> WorkOf(WaitingJobs)]
    /\ running = [count |-> Cardinality(RunningJobs), work |-> WorkOf(RunningJobs)]

(* addPrefixes keeps the map, the eviction order and the token count in step   *)
(* and within both limits, so that validateState never refuses a heartbeat    *)
(* for its KV usage.                                                        *)
CacheSound ==
    /\ cache = ToSet(cacheOrder)
    /\ Len(cacheOrder) = Cardinality(cache)
    /\ Len(cacheOrder) <= CachePrefixLimit
    /\ usedTokens <= CacheCapacityTokens
    /\ usedTokens = TokensOf(cache)

(* What a client receives is one generation in order: tokens from 0 without    *)
(* gaps, then the final chunk after the last one if and only if the call       *)
(* returned OK; an injected failure comes before the first token or after      *)
(* exactly FailAfterTokens, with nothing lost in the result channel.          *)
WholeGenerations ==
    \A c \in Calls :
        LET sent == call[c].sent
            limit == IF call[c].request.outputs > OutputCap THEN OutputCap
                     ELSE call[c].request.outputs
            finished == Len(sent) > 0 /\ sent[Len(sent)] = Final
        IN  /\ \A i \in 1 .. Len(sent) : sent[i] = i - 1 \/ (sent[i] = Final /\ i = limit + 1)
            /\ call[c].status = "ok" <=> finished
            /\ call[c].status = "injected" => Len(sent) \in {0, failAfter}

(* Every Generate call returns: the dispatcher never stays with a job whose    *)
(* handler is gone, and no handler waits for a job that was dropped.          *)
CallsEnd ==
    \A c \in Calls : call[c].pc \in {"enqueue", "stream"} ~> call[c].pc = "ended"

(* Stop returns: the dispatcher leaves runJob and the queue behind, and the   *)
(* two other goroutines of the WaitGroup end.                                *)
StopEnds == stop = "canceled" ~> stop = "stopped"
=============================================================================
