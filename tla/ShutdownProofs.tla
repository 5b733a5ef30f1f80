--------------------------- MODULE ShutdownProofs ----------------------------
(***************************************************************************)
(* For any number of requests and workers: a Close without an error has     *)
(* stopped the router for good and left no connection to a worker open, and *)
(* no attempt begins its generation once Close has begun.                   *)
(***************************************************************************)
EXTENDS GatewayProofs, Shutdown

Phases == {"new", "serving", "http", "control", "active", "pool", "conns", "closed"}

(* No handler runs and no request can reach one. *)
Drained == ~reachable /\ \A r \in Requests : pc[r] \in {"idle", "closed"}

(* The server is drained before Start, and again once Shutdown has returned    *)
(* without an error; then Pool.Close empties the pool.                       *)
ShutdownInv ==
    /\ LeaseInv
    /\ phase \in Phases
    /\ phase = "new" => Drained
    /\ (phase \in {"control", "active", "pool", "conns", "closed"} /\ result = "nil") => Drained
    /\ (phase \in {"conns", "closed"} /\ result = "nil") => \A w \in Workers : pool[w] = NoConn

(* Before Start nothing runs. *)
LEMMA ShutdownInit == ServerInit => ShutdownInv
<1> SUFFICES ASSUME ServerInit PROVE ShutdownInv
  OBVIOUS
<1>1. LeaseInv
  BY LeaseInit DEF ServerInit
<1>2. Drained
  BY DEF ServerInit, Init, Drained
<1> QED
  BY <1>1, <1>2 DEF ServerInit, ShutdownInv, Phases

(* In a drained server only receivers that outlived their handler take steps:  *)
(* no handler starts and the pool does not change.                           *)
LEMMA DrainedStep ==
    ASSUME LeaseInv, Drained, RequestStep
    PROVE  UNCHANGED <<pc, poolVars>>
<1>0. pc \in [Requests -> PCs] /\ ~reachable /\ \A r \in Requests : pc[r] \in {"idle", "closed"}
  BY DEF LeaseInv, Drained
<1>1. ASSUME NEW r \in Requests, HandlerStep(r) PROVE FALSE
  <2>1. pc[r] \notin {"accepted", "parse", "check", "reserve", "select", "client", "dial",
                      "generate", "drop", "first", "headers", "forward", "write", "done",
                      "release", "return", "flush"}
    BY <1>0
  <2> QED
    BY <1>1, <2>1
    DEF HandlerStep, Enter, BodyLost, BadRequest, NoHealthyWorkers, HealthyWorkers,
        AdmissionRejected, Admitted, SelectWorker, NoEligibleWorker, PoolClient, DialFailed,
        Dropped, GenerateOpened, GenerateFailed, FirstFailed, FirstClosed, Commit, ForwardEvent,
        ForwardClosed, ForwardAborted, WriteAccepted, WriteLost, Unbounded, FlushHeaders,
        WriteDone, FinishResponse, Release, Return
<1>2. ASSUME NEW r \in Requests, EnvironmentStep(r) PROVE FALSE
  <2>1. CASE Arrive(r)
    <3>1. pc[r] = "idle" /\ pc' = [pc EXCEPT ![r] = "accepted"]
      BY <2>1 DEF Arrive, GoTo
    <3>2. pc'[r] # "idle"
      BY <1>0, <3>1
    <3> QED
      BY <1>0, <3>1, <3>2 DEF RequestStep
  <2>2. CASE BodyRead(r) \/ BadRequest(r) \/ Dialed(r) \/ Unbounded(r)
    BY <1>0, <2>2 DEF BodyRead, BadRequest, Dialed, Unbounded, FlushHeaders, WriteDone,
       FinishResponse
  <2>3. ~Active(r)
    BY <1>0 DEF Active
  <2> QED
    BY <1>2, <2>1, <2>2, <2>3
    DEF EnvironmentStep, DeadlineExpires, Disconnect, DisconnectNoticed, Stall, Resume, Parsed
<1>3. ASSUME NEW i \in Attempts,
             \/ \E wire \in WireChunks : RecvChunk(i, wire)
             \/ \E class \in WorkerFailures : RecvError(i, class)
             \/ RecvAborted(i)
             \/ DeliverStep(i)
      PROVE  UNCHANGED <<pc, poolVars>>
  BY <1>3 DEF RecvChunk, RecvError, RecvAborted, DeliverStep, Deliver, DeliverCanceled,
              SlowClient, handlerVars
<1>4. CASE Served
  BY <1>4 DEF Served, vars, poolVars
<1>5. Next
  BY DEF RequestStep
<1> QED
  BY <1>1, <1>2, <1>3, <1>4, <1>5 DEF Next

(* Steps of the server that leave the requests alone. *)
LEMMA ServerLease ==
    ASSUME LeaseInv, UNCHANGED <<pc, used, leases>>
    PROVE  LeaseInv'
BY LeaseUntouched

(* The shutdown invariant is inductive. *)
LEMMA ShutdownNext == ShutdownInv /\ [ServerNext]_serverVars => ShutdownInv'
<1> SUFFICES ASSUME ShutdownInv, [ServerNext]_serverVars PROVE ShutdownInv'
  OBVIOUS
<1> USE DEF Phases
<1>0. LeaseInv /\ pc \in [Requests -> PCs]
  BY DEF ShutdownInv, LeaseInv
<1>1. CASE StartServer
  <2>1. LeaseInv'
    BY <1>0, <1>1, ServerLease DEF StartServer, vars
  <2> QED
    BY <1>1, <2>1 DEF StartServer, ShutdownInv
<1>2. CASE RequestStep
  <2>1. LeaseInv'
    BY <1>0, <1>2, LeaseNext DEF RequestStep
  <2>2. UNCHANGED closeVars
    BY <1>2 DEF RequestStep
  <2>3. Drained => UNCHANGED <<pc, pool>>
    BY <1>0, <1>2, DrainedStep DEF poolVars
  <2>4. Drained => Drained'
    BY <2>2, <2>3 DEF Drained, closeVars
  <2> QED
    BY <2>1, <2>2, <2>3, <2>4 DEF ShutdownInv, closeVars
<1>3. CASE RPCStarts \/ RPCEnds \/ DrainExpires
  <2>1. UNCHANGED <<vars, phase, reachable, result>>
    BY <1>3 DEF RPCStarts, RPCEnds, DrainExpires
  <2>2. LeaseInv'
    BY <1>0, <2>1, ServerLease DEF vars
  <2> QED
    BY <2>1, <2>2 DEF ShutdownInv, Drained, vars
<1>4. CASE CloseBegins
  <2>1. UNCHANGED <<pc, pool, used, leases, reachable, result>> /\ phase' \in {"http", "active"}
    BY <1>4 DEF CloseBegins, handlerVars, poolVars, budgetVars
  <2>2. phase' = "active" => Drained'
    BY <1>4, <2>1 DEF CloseBegins, ShutdownInv, Drained
  <2>3. LeaseInv'
    BY <1>0, <2>1, ServerLease
  <2> QED
    BY <2>1, <2>2, <2>3 DEF ShutdownInv
<1>5. CASE HTTPDrained
  <2>1. UNCHANGED <<vars, result>> /\ phase' = "control" /\ ~reachable' /\ ConnectionsIdle
    BY <1>5 DEF HTTPDrained, WaitOver
  <2>2. Drained'
    BY <1>0, <2>1 DEF Drained, ConnectionsIdle, Active, vars
  <2>3. LeaseInv'
    BY <1>0, <2>1, ServerLease DEF vars
  <2> QED
    BY <2>1, <2>2, <2>3 DEF ShutdownInv
<1>6. CASE ControlStopped \/ HandlersDone
  <2>1. /\ UNCHANGED <<vars, reachable, result>>
        /\ phase \in {"control", "active"} /\ phase' \in {"active", "pool"}
    BY <1>6 DEF ControlStopped, HandlersDone, WaitOver
  <2>2. LeaseInv'
    BY <1>0, <2>1, ServerLease DEF vars
  <2> QED
    BY <2>1, <2>2 DEF ShutdownInv, Drained, vars
<1>7. CASE HTTPTimedOut \/ ControlTimedOut \/ HandlersTimedOut
  <2>1. UNCHANGED vars /\ result' = "error" /\ phase' \in {"control", "active", "pool"}
    BY <1>7 DEF HTTPTimedOut, ControlTimedOut, HandlersTimedOut, WaitTimedOut
  <2>2. LeaseInv'
    BY <1>0, <2>1, ServerLease DEF vars
  <2> QED
    BY <2>1, <2>2 DEF ShutdownInv
<1>8. CASE EmptyPool \/ CloseConnections
  <2>1. /\ UNCHANGED <<pc, used, leases, reachable, result>>
        /\ phase \in {"pool", "conns"} /\ phase' \in {"conns", "closed"}
        /\ \/ \A w \in Workers : pool'[w] = NoConn
           \/ phase = "conns" /\ UNCHANGED pool
    BY <1>8 DEF EmptyPool, CloseConnections, handlerVars, budgetVars
  <2>2. LeaseInv'
    BY <1>0, <2>1, ServerLease
  <2> QED
    BY <2>1, <2>2 DEF ShutdownInv, Drained
<1>9. CASE UNCHANGED serverVars
  <2>1. UNCHANGED <<vars, phase, reachable, result>>
    BY <1>9 DEF serverVars, closeVars
  <2>2. LeaseInv'
    BY <1>0, <2>1, ServerLease DEF vars
  <2> QED
    BY <2>1, <2>2 DEF ShutdownInv, Drained, vars
<1> QED
  BY <1>1, <1>2, <1>3, <1>4, <1>5, <1>6, <1>7, <1>8, <1>9 DEF ServerNext, CloseStep, Stopped

(* With no handler in the leased part the admission counter is zero. *)
LEMMA ShutdownInvSuffices == ShutdownInv => CleanClose
<1> SUFFICES ASSUME ShutdownInv, ClosedCleanly PROVE CleanClose
  BY DEF CleanClose
<1>1. Drained /\ \A w \in Workers : pool[w] = NoConn
  BY DEF ShutdownInv, ClosedCleanly
<1>2. \A r \in Requests : leases[r] = 0
  BY <1>1 DEF ShutdownInv, LeaseInv, LeaseFollowsHandler, LeasedPCs, Drained
<1>3. leases = [r \in Requests |-> 0]
  BY <1>2 DEF ShutdownInv, LeaseInv
<1>4. used = 0
  BY <1>3, TotalZero, LimitAssumption DEF ShutdownInv, LeaseInv, LeaseFollowsHandler
<1> QED
  BY <1>1, <1>2, <1>4 DEF CleanClose, Drained, Active

(* Whatever requests arrive, retry, dial or stall while Server.Close runs, a *)
(* Close that returns nil leaves no handler, no lease and no pooled          *)
(* connection, then and ever after.                                          *)
THEOREM CleanShutdown == ServerSpec => []CleanClose
<1> QED
  BY ShutdownInit, ShutdownNext, ShutdownInvSuffices, PTL DEF ServerSpec

-----------------------------------------------------------------------------
(* The invariant of the request path holds in the server too: what Close     *)
(* adds is that contexts and connections end from outside the handlers.      *)

(* cancelRoot touches nothing but the requests' contexts. *)
LEMMA RootCanceled ==
    ASSUME GatewayInv, CloseBegins
    PROVE  GatewayInv'
<1>1. /\ UNCHANGED <<pc, attempt, excluded, failure, status, event, client, sse, att, pool, used,
                     leases>>
      /\ ctx' = [r \in Requests |-> IF ctx[r] = "live" THEN "canceled" ELSE ctx[r]]
      /\ UNCHANGED <<open, dropping>>
  BY DEF CloseBegins, CancelRoot, handlerVars, clientVars, poolVars, budgetVars
<1>2. LeaseInv'
  BY <1>1, LeaseUntouched DEF GatewayInv
<1>3. TypeOK'
  BY <1>1 DEF GatewayInv, TypeOK
<1>4. \A i \in Attempts : AttemptInv(i)'
  BY <1>1 DEF GatewayInv, AttemptInv
<1>5. ASSUME NEW r \in Requests PROVE RequestInv(r)'
  BY <1>1 DEF GatewayInv, RequestInv, ControlInv, RetryInv, ReplyInv, Current, CurrentWorker
<1> QED
  BY <1>2, <1>3, <1>4, <1>5 DEF GatewayInv

(* Pool.Close touches nothing but the pool. *)
LEMMA PoolClosed ==
    ASSUME GatewayInv, EmptyPool \/ CloseConnections
    PROVE  GatewayInv'
<1>1. UNCHANGED <<pc, attempt, excluded, failure, status, event, ctx, client, sse, att, dropping,
                  used, leases>>
  BY DEF EmptyPool, CloseConnections, handlerVars, clientVars, budgetVars
<1>2. pool' \in [Workers -> Connections] /\ open' \subseteq Attempts
  BY DEF EmptyPool, CloseConnections, GatewayInv, TypeOK, Connections
<1>3. LeaseInv'
  BY <1>1, LeaseUntouched DEF GatewayInv
<1>4. TypeOK'
  BY <1>1, <1>2 DEF GatewayInv, TypeOK
<1>5. \A i \in Attempts : AttemptInv(i)'
  BY <1>1 DEF GatewayInv, AttemptInv
<1>6. ASSUME NEW r \in Requests PROVE RequestInv(r)'
  BY <1>1 DEF GatewayInv, RequestInv, ControlInv, RetryInv, ReplyInv, Current, CurrentWorker
<1> QED
  BY <1>3, <1>4, <1>5, <1>6 DEF GatewayInv

(* A context that has ended does not come back to life. *)
LEMMA ContextsEnd ==
    ASSUME GatewayInv, [Next]_vars, NEW r \in Requests, ctx[r] # "live"
    PROVE  ctx'[r] # "live"
<1>0. ctx \in [Requests -> {"live", "deadline", "canceled"}]
  BY DEF GatewayInv, TypeOK
<1>1. ASSUME NEW q \in Requests,
             ctx' = ctx \/ CancelContext(q) \/ ctx' = [ctx EXCEPT ![q] = "deadline"]
      PROVE  ctx'[r] # "live"
  <2>1. CASE CancelContext(q)
    BY <1>0, <2>1 DEF CancelContext
  <2>2. CASE ctx' = [ctx EXCEPT ![q] = "deadline"]
    BY <1>0, <2>2
  <2> QED
    BY <1>1, <2>1, <2>2
<1>2. ASSUME NEW q \in Requests, HandlerStep(q) PROVE ctx'[r] # "live"
  <2>1. ctx' = ctx \/ CancelContext(q)
    BY <1>2 DEF HandlerStep, Enter, BodyLost, BadRequest, NoHealthyWorkers, HealthyWorkers,
       AdmissionRejected, Admitted, SelectWorker, NoEligibleWorker, PoolClient, DialFailed,
       Dropped, GenerateOpened, GenerateFailed, FirstFailed, FirstClosed, AttemptFailed, Commit,
       ForwardEvent, ForwardClosed, ForwardAborted, WriteAccepted, WriteLost, Unbounded,
       FlushHeaders, WriteDone, FinishResponse, Release, Return
  <2> QED
    BY <1>1, <2>1
<1>3. ASSUME NEW q \in Requests, EnvironmentStep(q) PROVE ctx'[r] # "live"
  <2>1. ctx' = ctx \/ CancelContext(q) \/ ctx' = [ctx EXCEPT ![q] = "deadline"]
    BY <1>3 DEF EnvironmentStep, Arrive, BodyRead, BadRequest, Dialed, Unbounded, FlushHeaders,
       WriteDone, FinishResponse, DeadlineExpires, Disconnect, DisconnectNoticed, Stall, Resume
  <2> QED
    BY <1>1, <2>1
<1>4. ASSUME NEW i \in Attempts, ReceiverStep(i) PROVE ctx'[r] # "live"
  BY <1>4 DEF ReceiverStep, RecvChunk, RecvError, RecvAborted, DeliverStep, Deliver,
     DeliverCanceled, SlowClient
<1>5. CASE UNCHANGED vars
  BY <1>5 DEF vars
<1> QED
  BY <1>2, <1>3, <1>4, <1>5 DEF Next, Served, ReceiverStep

(* The server's invariant: the request path's, and that no context outlives  *)
(* cancelRoot.                                                               *)
ServerInv ==
    /\ ShutdownInv
    /\ GatewayInv
    /\ Closing => \A r \in Requests : ctx[r] # "live"

(* The server's invariant is inductive. *)
LEMMA ServerInvNext == ServerInv /\ [ServerNext]_serverVars => ServerInv'
<1> SUFFICES ASSUME ServerInv, [ServerNext]_serverVars PROVE ServerInv'
  OBVIOUS
<1>0. ShutdownInv'
  BY ShutdownNext DEF ServerInv
<1> DEFINE Ended == \A r \in Requests : ctx[r] # "live"
<1>1. CASE RequestStep
  <2>1. Next /\ phase' = phase
    BY <1>1 DEF RequestStep, closeVars
  <2>2. GatewayInv'
    BY <2>1, GatewayNext DEF ServerInv
  <2>3. Ended => Ended'
    BY <2>1, ContextsEnd DEF ServerInv
  <2> QED
    BY <1>0, <2>1, <2>2, <2>3 DEF ServerInv, Closing
<1>2. CASE CloseBegins
  <2>1. GatewayInv'
    BY <1>2, RootCanceled DEF ServerInv
  <2>2. Ended'
    BY <1>2 DEF CloseBegins, CancelRoot
  <2> QED
    BY <1>0, <2>1, <2>2 DEF ServerInv
<1>3. CASE EmptyPool \/ CloseConnections
  <2>1. GatewayInv'
    BY <1>3, PoolClosed DEF ServerInv
  <2>2. Closing /\ UNCHANGED ctx
    BY <1>3 DEF EmptyPool, CloseConnections, Closing
  <2> QED
    BY <1>0, <2>1, <2>2 DEF ServerInv
<1>4. ASSUME UNCHANGED vars, Closing' => Closing PROVE ServerInv'
  <2>1. GatewayInv'
    BY <1>4, GatewayUntouched DEF ServerInv
  <2>2. UNCHANGED ctx
    BY <1>4 DEF vars
  <2> QED
    BY <1>0, <1>4, <2>1, <2>2 DEF ServerInv
<1>5. CASE StartServer \/ RPCStarts \/ RPCEnds \/ DrainExpires
  BY <1>4, <1>5 DEF StartServer, RPCStarts, RPCEnds, DrainExpires, Closing
<1>6. CASE \/ HTTPDrained \/ HTTPTimedOut \/ ControlStopped \/ ControlTimedOut
           \/ HandlersDone \/ HandlersTimedOut
  BY <1>4, <1>6 DEF HTTPDrained, HTTPTimedOut, ControlStopped, ControlTimedOut, HandlersDone,
     HandlersTimedOut, WaitOver, WaitTimedOut, Closing
<1>7. CASE UNCHANGED serverVars
  BY <1>4, <1>7 DEF serverVars, closeVars, Closing
<1> QED
  BY <1>1, <1>2, <1>3, <1>5, <1>6, <1>7 DEF ServerNext, CloseStep, Stopped

(* Hence it holds in every reachable state. *)
LEMMA ServerInvariant == ServerSpec => []ServerInv
<1>1. ServerInit => ServerInv
  BY ShutdownInit, GatewayInit DEF ServerInit, ServerInv, Closing
<1> QED
  BY <1>1, ServerInvNext, PTL DEF ServerSpec

(* While Close has met no error, what is known of the pool stays true until  *)
(* Pool.Close, which then has every open connection in hand.                 *)
CleanPool ==
    result = "nil" =>
        /\ phase \notin {"conns", "closed"} => PoolInv
        /\ phase = "conns" => open \subseteq removed
        /\ phase = "closed" => open = {}

(* In a drained server every open connection is in the pool: nobody is in    *)
(* the middle of an Invalidate.                                              *)
LEMMA DrainedPool ==
    ASSUME GatewayInv, PoolInv, Drained, NEW c \in open
    PROVE  c # NoConn /\ \E w \in Workers : pool[w] = c
<1>0. c # NoConn
  BY NoConnIsNoAttempt DEF GatewayInv, TypeOK
<1>1. att[c].worker \in Workers
  BY DEF PoolInv, DialingInv
<1>2. ASSUME NEW r \in Requests, dropping[r] = c PROVE FALSE
  <2>1. dropping[r] # NoConn => pc[r] = "drop"
    BY DEF PoolInv, DroppingInv
  <2> QED
    BY <1>0, <1>2, <2>1 DEF Drained
<1> QED
  BY <1>0, <1>1, <1>2 DEF PoolInv, ConnectionsArePooled

(* Each step of the server keeps what is known of the pool. *)
LEMMA CleanPoolNext == ServerInv /\ CleanPool /\ [ServerNext]_serverVars => CleanPool'
<1> SUFFICES ASSUME ServerInv, CleanPool, [ServerNext]_serverVars PROVE CleanPool'
  OBVIOUS
<1>0. GatewayInv /\ ShutdownInv
  BY DEF ServerInv
<1>1. CASE RequestStep
  <2>1. Next /\ UNCHANGED <<phase, result, removed>>
    BY <1>1 DEF RequestStep, closeVars
  <2>2. PoolInv => PoolInv'
    BY <1>0, <2>1, PoolNext
  <2>3. Drained => UNCHANGED open
    BY <1>0, <1>1, DrainedStep DEF ShutdownInv, poolVars
  <2> QED
    BY <1>0, <2>1, <2>2, <2>3 DEF CleanPool, ShutdownInv
<1>2. CASE CloseBegins
  <2>1. /\ UNCHANGED <<pc, attempt, att, pool, open, dropping, result>>
        /\ phase \in {"new", "serving"} /\ phase' \in {"http", "active"}
    BY <1>2 DEF CloseBegins, handlerVars, poolVars
  <2>2. PoolInv => PoolInv'
    BY <2>1 DEF PoolInv, ConnectionsArePooled, DroppingInv, DialingInv, Current
  <2> QED
    BY <2>1, <2>2 DEF CleanPool
<1>3. CASE EmptyPool
  <2>1. /\ phase = "pool" /\ phase' = "conns" /\ UNCHANGED <<open, result>>
        /\ removed' = {pool[w] : w \in Workers} \ {NoConn}
    BY <1>3 DEF EmptyPool
  <2>2. ASSUME result = "nil", NEW c \in open PROVE c \in removed'
    <3>1. PoolInv /\ Drained
      BY <1>0, <2>1, <2>2 DEF CleanPool, ShutdownInv
    <3> QED
      BY <1>0, <2>1, <3>1, DrainedPool
  <2> QED
    BY <2>1, <2>2 DEF CleanPool
<1>4. CASE CloseConnections
  BY <1>4 DEF CloseConnections, CleanPool
<1>5. ASSUME UNCHANGED vars, UNCHANGED <<phase, removed>>
                             \/ (phase \notin {"conns", "closed"} /\ phase' \notin {"conns", "closed"}),
             result' = "nil" => result = "nil"
      PROVE  CleanPool'
  <2>1. PoolInv => PoolInv'
    BY <1>5 DEF vars, PoolInv, ConnectionsArePooled, DroppingInv, DialingInv, Current
  <2> QED
    BY <1>5, <2>1 DEF CleanPool, vars
<1>6. CASE StartServer \/ RPCStarts \/ RPCEnds \/ DrainExpires
  BY <1>5, <1>6 DEF StartServer, RPCStarts, RPCEnds, DrainExpires
<1>7. CASE \/ HTTPDrained \/ HTTPTimedOut \/ ControlStopped \/ ControlTimedOut
           \/ HandlersDone \/ HandlersTimedOut
  BY <1>5, <1>7 DEF HTTPDrained, HTTPTimedOut, ControlStopped, ControlTimedOut, HandlersDone,
     HandlersTimedOut, WaitOver, WaitTimedOut
<1>8. CASE UNCHANGED serverVars
  BY <1>5, <1>8 DEF serverVars, closeVars
<1> QED
  BY <1>1, <1>2, <1>3, <1>4, <1>6, <1>7, <1>8 DEF ServerNext, CloseStep, Stopped

(* A Close that returns nil leaves no connection to a worker open, not even  *)
(* under a receiver that outlived its handler, one that lost a race to dial  *)
(* or one that an Invalidate had in hand: every open connection was in the   *)
(* pool when Pool.Close took them out.                                       *)
THEOREM ConnectionsClosed == ServerSpec => []NoConnectionLeft
<1>1. ServerInit => CleanPool
  BY PoolInit DEF ServerInit, CleanPool
<1>2. CleanPool => NoConnectionLeft
  BY DEF CleanPool, NoConnectionLeft, ClosedCleanly
<1> QED
  BY <1>1, <1>2, CleanPoolNext, ServerInvariant, PTL DEF ServerSpec

-----------------------------------------------------------------------------
(* The step starts no receiver. *)
NoneOpened == \A i \in Attempts : att[i].state = "none" => att'[i].state = "none"

(* Changing one attempt without changing the state of its receiver starts none. *)
LEMMA StateKept ==
    ASSUME NEW i \in Attempts, NEW worker, NEW conn, NEW canceled, NEW expected, NEW holding,
           NEW events,
           AttemptBecomes(i, worker, conn, canceled, att[i].state, expected, holding, events)
    PROVE  NoneOpened
BY DEF AttemptBecomes, HasFields, NoneOpened

(* A handler opens a stream only with a live context: GenerateOpened is the  *)
(* one step that starts a receiver, and Generate on a done context fails.    *)
LEMMA OpensOnlyLive ==
    ASSUME GatewayInv, NEW r \in Requests, HandlerStep(r) \/ EnvironmentStep(r), ctx[r] # "live"
    PROVE  NoneOpened
<1>b. Before(r)
  BY BeforeStep
<1> DEFINE i == Current(r)
<1>1. att \in [Attempts -> AttemptType] /\ i \in Attempts
  BY <1>b DEF Before, AttemptsTyped
<1>5. CASE CancelAttempt(r)
  <2>1. att' = [att EXCEPT ![i].canceled = TRUE]
    BY <1>5 DEF CancelAttempt
  <2> QED
    BY <1>1, <2>1, CancelEffect, StateKept
<1>2. CASE DialFailed(r) \/ GenerateFailed(r) \/ FirstFailed(r) \/ FirstClosed(r)
  BY <1>2, <1>5, AttemptFailures DEF AttemptFailed
<1>3. ASSUME NEW w \in Workers, SelectWorker(r, w) PROVE NoneOpened
  <2>1. att' = [att EXCEPT ![i].worker = w]
    BY <1>3 DEF SelectWorker
  <2> QED
    BY <1>1, <2>1, SelectEffect, StateKept
<1>4. CASE PoolClient(r) \/ Dialed(r)
  <2>1. CurrentWorker(r) \in Workers
    BY <1>b, <1>4 DEF PoolClient, Dialed, Before, ControlInv
  <2>2. pool[CurrentWorker(r)] \in Connections /\ pool'[CurrentWorker(r)] \in Connections
    <3>1. pool \in [Workers -> Connections] /\ i \in Connections
      BY <1>b DEF Before, AttemptsTyped, Connections
    <3>2. PoolClient(r) => UNCHANGED pool
      BY DEF PoolClient, poolVars
    <3>3. Dialed(r) => UNCHANGED pool \/ pool' = [pool EXCEPT ![CurrentWorker(r)] = i]
      BY DEF Dialed, Store
    <3> QED
      BY <1>4, <2>1, <3>1, <3>2, <3>3
  <2>3. UNCHANGED att \/ \E c \in Connections : att' = [att EXCEPT ![i].conn = c]
    BY <1>4, <2>2 DEF PoolClient, Dialed
  <2>4. CASE UNCHANGED att
    BY <2>4 DEF NoneOpened
  <2> QED
    BY <1>1, <2>3, <2>4, ConnectEffect, StateKept
<1>6. CASE HasEvent(r) /\ TakeEvent(r)
  <2>1. att[i].events # << >> /\ att' = [att EXCEPT ![i].events = Tail(@)]
    BY <1>6 DEF HasEvent, TakeEvent
  <2> QED
    BY <1>1, <2>1, TakeEffect, StateKept
<1>7. CASE att' = att
  BY <1>7 DEF NoneOpened
<1>8. CASE HandlerStep(r)
  BY <1>2, <1>3, <1>4, <1>5, <1>6, <1>7, <1>8
  DEF HandlerStep, Enter, BodyLost, BadRequest, NoHealthyWorkers, HealthyWorkers,
      AdmissionRejected, Admitted, NoEligibleWorker, Dropped, GenerateOpened, Commit,
      ForwardEvent, ForwardClosed, ForwardAborted, WriteAccepted, WriteLost, Unbounded,
      FlushHeaders, WriteDone, FinishResponse, Release, Return
<1>9. CASE EnvironmentStep(r)
  BY <1>4, <1>5, <1>7, <1>9
  DEF EnvironmentStep, Arrive, BodyRead, BadRequest, Unbounded, FlushHeaders, WriteDone,
      FinishResponse, DeadlineExpires, Disconnect, DisconnectNoticed, Stall, Resume
<1> QED
  BY <1>8, <1>9

(* Once Close has begun no request opens a generation on a worker: neither   *)
(* one that arrives late nor the retry of one that was running gets past     *)
(* Generate, because cancelRoot ended its context first.                     *)
THEOREM NoGenerationAfterClose == ServerSpec => NoLateGeneration
<1>1. ServerInv /\ [ServerNext]_serverVars => [NoLateGenerationStep]_serverVars
  <2> SUFFICES ASSUME ServerInv, [ServerNext]_serverVars, Closing PROVE NoneOpened
    BY DEF NoLateGenerationStep, NoneOpened
  <2>1. GatewayInv /\ \A r \in Requests : ctx[r] # "live"
    BY DEF ServerInv
  <2>2. ASSUME NEW r \in Requests, HandlerStep(r) \/ EnvironmentStep(r) PROVE NoneOpened
    BY <2>1, <2>2, OpensOnlyLive
  <2>3. ASSUME NEW i \in Attempts, ReceiverStep(i) PROVE NoneOpened
    <3>1. Received(i) \/ Delivered(i) \/ Discarded(i)
      BY <2>1, <2>3, ReceiverEffects
    <3>2. att[i].state \in {"recv", "deliver"} /\ \A j \in Attempts : j # i => att'[j] = att[j]
      BY <3>1 DEF Received, Delivered, Discarded, AttemptBecomes
    <3> QED
      BY <3>2 DEF NoneOpened
  <2>4. CASE UNCHANGED att
    BY <2>4 DEF NoneOpened
  <2>5. CASE RequestStep
    BY <2>2, <2>3, <2>4, <2>5 DEF RequestStep, Next, Served, ReceiverStep, vars
  <2>6. CASE EmptyPool \/ CloseConnections
    BY <2>4, <2>6 DEF EmptyPool, CloseConnections
  <2>7. CASE \/ StartServer \/ RPCStarts \/ RPCEnds \/ DrainExpires \/ CloseBegins
             \/ HTTPDrained \/ HTTPTimedOut \/ ControlStopped \/ ControlTimedOut
             \/ HandlersDone \/ HandlersTimedOut \/ UNCHANGED serverVars
    BY <2>4, <2>7 DEF StartServer, RPCStarts, RPCEnds, DrainExpires, CloseBegins, HTTPDrained,
       HTTPTimedOut, ControlStopped, ControlTimedOut, HandlersDone, HandlersTimedOut, WaitOver,
       WaitTimedOut, serverVars, vars
  <2> QED
    BY <2>5, <2>6, <2>7 DEF ServerNext, CloseStep, Stopped
<1> QED
  BY <1>1, ServerInvariant, PTL DEF ServerSpec, NoLateGeneration
=============================================================================
