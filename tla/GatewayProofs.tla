---------------------------- MODULE GatewayProofs ----------------------------
(***************************************************************************)
(* Proofs about Gateway.tla for any number of requests and workers, any     *)
(* limit and any messages from the workers.                                 *)
(***************************************************************************)
EXTENDS Gateway, SequenceTheorems

(* The part of the state that the lease argument needs. *)
LeaseInv ==
    /\ pc \in [Requests -> PCs]
    /\ used \in 0 .. GlobalInFlightTokens
    /\ leases \in [Requests -> 0 .. GlobalInFlightTokens]
    /\ LeaseFollowsHandler

(* No request holds a lease at first. *)
LEMMA LeaseInit == Init => LeaseInv
<1> SUFFICES ASSUME Init PROVE LeaseInv
  OBVIOUS
<1> USE LimitAssumption
<1>1. leases = [r \in Requests |-> 0] /\ used = 0
  BY DEF Init, Budget!BudgetInit, Budget!NoLease
<1>2. Total(leases, GlobalInFlightTokens) = 0
  BY <1>1, TotalZero
<1> QED
  BY <1>1, <1>2 DEF Init, LeaseInv, LeaseFollowsHandler, PCs, LeasedPCs

(* What changing the lease of one request does to the sum of all leases. *)
LEMMA LeaseSum ==
    ASSUME NEW f \in [Requests -> 0 .. GlobalInFlightTokens],
           NEW g \in [Requests -> 0 .. GlobalInFlightTokens],
           NEW r \in Requests, \A q \in Requests \ {r} : g[q] = f[q]
    PROVE  Total(g, GlobalInFlightTokens) = Total(f, GlobalInFlightTokens) - f[r] + g[r]
<1>1. IsFiniteSet(Requests) /\ GlobalInFlightTokens \in Nat
  BY RequestsAssumption, LimitAssumption
<1> QED
  BY <1>1, TotalUpdate

(* A step that leaves the budget alone and moves one handler within, or      *)
(* outside, the leased part of handleChat keeps the invariant.               *)
LEMMA LeaseKept ==
    ASSUME LeaseInv, UNCHANGED budgetVars, NEW r \in Requests, NEW label \in PCs,
           GoTo(r, label), label \in LeasedPCs <=> pc[r] \in LeasedPCs
    PROVE  LeaseInv'
<1>1. pc' \in [Requests -> PCs] /\ pc' = [pc EXCEPT ![r] = label]
  BY DEF LeaseInv, GoTo
<1>2. \A q \in Requests : leases'[q] # 0 <=> pc'[q] \in LeasedPCs
  BY <1>1 DEF LeaseInv, LeaseFollowsHandler, budgetVars
<1> QED
  BY <1>1, <1>2 DEF LeaseInv, LeaseFollowsHandler, budgetVars

(* Admission gives the request its lease. *)
LEMMA AdmittedLease ==
    ASSUME LeaseInv, NEW r \in Requests, NEW cost \in Costs, Admitted(r, cost)
    PROVE  LeaseInv'
<1> USE LimitAssumption, CostsAssumption, RequestsAssumption
<1>1. /\ leases[r] = 0
      /\ cost <= GlobalInFlightTokens - used
      /\ used' = used + cost
      /\ leases' = [leases EXCEPT ![r] = cost]
      /\ pc' = [pc EXCEPT ![r] = "select"]
  BY DEF Admitted, Budget!Grant, Budget!Fits, Budget!NoLease, GoTo
<1>2. /\ pc' \in [Requests -> PCs]
      /\ used' \in 0 .. GlobalInFlightTokens
      /\ leases' \in [Requests -> 0 .. GlobalInFlightTokens]
  BY <1>1 DEF LeaseInv, PCs
<1>3. \A q \in Requests : leases'[q] # 0 <=> pc'[q] \in LeasedPCs
  BY <1>1 DEF LeaseInv, LeaseFollowsHandler, LeasedPCs
<1>4. Total(leases', GlobalInFlightTokens) = Total(leases, GlobalInFlightTokens) - leases[r] + leases'[r]
  <2>1. \A q \in Requests \ {r} : leases'[q] = leases[q]
    BY <1>1 DEF LeaseInv
  <2>2. leases \in [Requests -> 0 .. GlobalInFlightTokens]
    BY DEF LeaseInv
  <2> QED
    BY <1>2, <2>1, <2>2, LeaseSum
<1>5. leases'[r] = cost
  BY <1>1 DEF LeaseInv
<1> QED
  BY <1>1, <1>2, <1>3, <1>4, <1>5 DEF LeaseInv, LeaseFollowsHandler

(* The deferred Release takes it back. *)
LEMMA ReleaseLease ==
    ASSUME LeaseInv, NEW r \in Requests, Release(r)
    PROVE  LeaseInv'
<1> USE LimitAssumption, RequestsAssumption
<1>1. /\ used' = used - leases[r]
      /\ leases' = [leases EXCEPT ![r] = 0]
      /\ pc' = [pc EXCEPT ![r] = "return"]
  BY DEF Release, Budget!GiveBack, Budget!NoLease, GoTo
<1>2. leases[r] <= used /\ leases[r] \in Nat
  BY TotalBoundsValue DEF LeaseInv, LeaseFollowsHandler
<1>3. /\ pc' \in [Requests -> PCs]
      /\ used' \in 0 .. GlobalInFlightTokens
      /\ leases' \in [Requests -> 0 .. GlobalInFlightTokens]
  BY <1>1, <1>2 DEF LeaseInv, PCs
<1>4. \A q \in Requests : leases'[q] # 0 <=> pc'[q] \in LeasedPCs
  BY <1>1 DEF LeaseInv, LeaseFollowsHandler, LeasedPCs
<1>5. Total(leases', GlobalInFlightTokens) = Total(leases, GlobalInFlightTokens) - leases[r] + leases'[r]
  <2>1. \A q \in Requests \ {r} : leases'[q] = leases[q]
    BY <1>1 DEF LeaseInv
  <2>2. leases \in [Requests -> 0 .. GlobalInFlightTokens]
    BY DEF LeaseInv
  <2> QED
    BY <1>3, <2>1, <2>2, LeaseSum
<1>6. leases'[r] = 0
  BY <1>1 DEF LeaseInv
<1> QED
  BY <1>1, <1>2, <1>3, <1>4, <1>5, <1>6 DEF LeaseInv, LeaseFollowsHandler

(* A failed attempt stays within the leased part. *)
LEMMA AttemptFailedLease ==
    ASSUME LeaseInv, NEW r \in Requests, NEW class, pc[r] \in LeasedPCs, AttemptFailed(r, class)
    PROVE  LeaseInv'
<1>1. UNCHANGED budgetVars /\ GoTo(r, "drop")
  BY DEF AttemptFailed
<1>2. "drop" \in PCs \cap LeasedPCs
  BY DEF PCs, LeasedPCs
<1> QED
  BY <1>1, <1>2, LeaseKept

(* After it the handler selects a worker again or goes on to release. *)
LEMMA DroppedLease ==
    ASSUME LeaseInv, NEW r \in Requests, Dropped(r)
    PROVE  LeaseInv'
<1>1. UNCHANGED budgetVars /\ pc[r] = "drop" /\ (GoTo(r, "select") \/ GoTo(r, "release"))
  BY DEF Dropped
<1>2. /\ "select" \in PCs \cap LeasedPCs /\ "release" \in PCs \cap LeasedPCs
      /\ "drop" \in LeasedPCs
  BY DEF PCs, LeasedPCs
<1> QED
  BY <1>1, <1>2, LeaseKept

(* The writes without a deadline. *)
LEMMA UnboundedLease ==
    ASSUME LeaseInv, NEW r \in Requests, Unbounded(r)
    PROVE  LeaseInv'
<1> USE DEF PCs, LeasedPCs
<1>1. CASE FlushHeaders(r)
  BY <1>1, LeaseKept DEF FlushHeaders
<1>2. CASE WriteDone(r)
  BY <1>2, LeaseKept DEF WriteDone
<1>3. CASE FinishResponse(r)
  BY <1>3, LeaseKept DEF FinishResponse
<1> QED
  BY <1>1, <1>2, <1>3 DEF Unbounded

(* The read of the body. *)
LEMMA UploadLease ==
    ASSUME LeaseInv, NEW r \in Requests,
           Arrive(r) \/ Enter(r) \/ BodyRead(r) \/ BadRequest(r) \/ BodyLost(r)
    PROVE  LeaseInv'
<1> USE DEF PCs, LeasedPCs
<1>1. CASE Arrive(r)
  BY <1>1, LeaseKept DEF Arrive
<1>2. CASE Enter(r)
  BY <1>2, LeaseKept DEF Enter
<1>3. CASE BodyRead(r)
  BY <1>3, LeaseKept DEF BodyRead
<1>4. CASE BadRequest(r) \/ BodyLost(r)
  BY <1>4, LeaseKept DEF BadRequest, BodyLost
<1> QED
  BY <1>1, <1>2, <1>3, <1>4

(* Every step of a handler keeps the invariant. *)
LEMMA HandlerLease ==
    ASSUME LeaseInv, NEW r \in Requests, HandlerStep(r)
    PROVE  LeaseInv'
<1> USE DEF PCs, LeasedPCs
<1>1. CASE NoHealthyWorkers(r)
  BY <1>1, LeaseKept DEF NoHealthyWorkers
<1>2. CASE HealthyWorkers(r)
  BY <1>2, LeaseKept DEF HealthyWorkers
<1>3. CASE AdmissionRejected(r)
  BY <1>3, LeaseKept DEF AdmissionRejected
<1>4. ASSUME NEW cost \in Costs, Admitted(r, cost) PROVE LeaseInv'
  BY <1>4, AdmittedLease
<1>5. ASSUME NEW w \in Workers, SelectWorker(r, w) PROVE LeaseInv'
  BY <1>5, LeaseKept DEF SelectWorker
<1>6. CASE NoEligibleWorker(r)
  BY <1>6, LeaseKept DEF NoEligibleWorker
<1>7. CASE PoolClient(r)
  <2>1. UNCHANGED budgetVars /\ pc[r] = "client" /\ (GoTo(r, "generate") \/ GoTo(r, "dial"))
    BY <1>7 DEF PoolClient
  <2> QED
    BY <2>1, LeaseKept
<1>8. CASE DialFailed(r)
  BY <1>8, AttemptFailedLease DEF DialFailed
<1>9. CASE GenerateOpened(r)
  BY <1>9, LeaseKept DEF GenerateOpened
<1>10. CASE GenerateFailed(r)
  BY <1>10, AttemptFailedLease DEF GenerateFailed
<1>11. CASE FirstFailed(r)
  BY <1>11, AttemptFailedLease DEF FirstFailed
<1>12. CASE FirstClosed(r)
  BY <1>12, AttemptFailedLease DEF FirstClosed
<1>13. CASE Commit(r)
  BY <1>13, LeaseKept DEF Commit
<1>14. CASE ForwardEvent(r)
  BY <1>14, LeaseKept DEF ForwardEvent
<1>15. CASE ForwardClosed(r)
  BY <1>15, LeaseKept DEF ForwardClosed
<1>16. CASE ForwardAborted(r)
  BY <1>16, LeaseKept DEF ForwardAborted
<1>17. CASE WriteAccepted(r)
  <2>1. UNCHANGED budgetVars /\ pc[r] = "write" /\ (GoTo(r, "forward") \/ GoTo(r, "done"))
    BY <1>17 DEF WriteAccepted, AfterWrite
  <2> QED
    BY <2>1, LeaseKept
<1>18. CASE WriteLost(r)
  <2>1. /\ UNCHANGED budgetVars /\ pc[r] = "write"
        /\ GoTo(r, "forward") \/ GoTo(r, "done") \/ GoTo(r, "release")
    BY <1>18 DEF WriteLost, AfterWrite
  <2> QED
    BY <2>1, LeaseKept
<1>19. CASE Unbounded(r)
  BY <1>19, UnboundedLease
<1>20. CASE Release(r)
  BY <1>20, ReleaseLease
<1>21. CASE Return(r)
  BY <1>21, LeaseKept DEF Return
<1>22. CASE Enter(r) \/ BodyLost(r)
  BY <1>22, UploadLease
<1>23. CASE Dropped(r)
  BY <1>23, DroppedLease
<1> QED
  BY <1>1, <1>2, <1>3, <1>4, <1>5, <1>6, <1>7, <1>8, <1>9, <1>10, <1>11, <1>12, <1>13,
     <1>14, <1>15, <1>16, <1>17, <1>18, <1>19, <1>20, <1>21, <1>22, <1>23 DEF HandlerStep

(* Steps that touch neither a program counter nor the budget. *)
LEMMA LeaseUntouched ==
    ASSUME LeaseInv, UNCHANGED <<pc, used, leases>>
    PROVE  LeaseInv'
BY DEF LeaseInv, LeaseFollowsHandler

(* Every step of the environment keeps the invariant. *)
LEMMA EnvironmentLease ==
    ASSUME LeaseInv, NEW r \in Requests, EnvironmentStep(r)
    PROVE  LeaseInv'
<1> USE DEF PCs, LeasedPCs
<1>1. CASE Arrive(r) \/ BodyRead(r) \/ BadRequest(r)
  BY <1>1, UploadLease
<1>3. CASE Dialed(r)
  BY <1>3, LeaseKept DEF Dialed
<1>4. CASE Unbounded(r)
  BY <1>4, UnboundedLease
<1>5. CASE DeadlineExpires(r) \/ Disconnect(r) \/ DisconnectNoticed(r) \/ Stall(r) \/ Resume(r)
  <2>1. UNCHANGED <<pc, used, leases>>
    BY <1>5 DEF DeadlineExpires, Disconnect, DisconnectNoticed, Stall, Resume, handlerVars, budgetVars
  <2> QED
    BY <2>1, LeaseUntouched
<1> QED
  BY <1>1, <1>3, <1>4, <1>5 DEF EnvironmentStep

(* The lease invariant is inductive. *)
LEMMA LeaseNext == LeaseInv /\ [Next]_vars => LeaseInv'
<1> SUFFICES ASSUME LeaseInv, [Next]_vars PROVE LeaseInv'
  OBVIOUS
<1>1. ASSUME NEW r \in Requests, HandlerStep(r) \/ EnvironmentStep(r) PROVE LeaseInv'
  BY <1>1, HandlerLease, EnvironmentLease
<1>2. ASSUME NEW i \in Attempts,
             \/ \E wire \in WireChunks : RecvChunk(i, wire)
             \/ \E class \in WorkerFailures : RecvError(i, class)
             \/ RecvAborted(i)
             \/ DeliverStep(i)
      PROVE  LeaseInv'
  <2>1. UNCHANGED <<pc, used, leases>>
    BY <1>2 DEF RecvChunk, RecvError, RecvAborted, DeliverStep, Deliver, DeliverCanceled,
                SlowClient, handlerVars, budgetVars
  <2> QED
    BY <2>1, LeaseUntouched
<1>3. CASE UNCHANGED vars
  BY <1>3, LeaseUntouched DEF vars
<1> QED
  BY <1>1, <1>2, <1>3 DEF Next, Served

(* On every path through both attempts, whatever the workers, the network    *)
(* and the clients do, a handler holds its lease exactly between admission   *)
(* and release, and the admission counter is the sum of the leases held.     *)
THEOREM LeasesAreReleased == Spec => []LeaseFollowsHandler
<1>1. LeaseInv => LeaseFollowsHandler
  BY DEF LeaseInv
<1> QED
  BY <1>1, LeaseInit, LeaseNext, PTL DEF Spec

-----------------------------------------------------------------------------
(* Attempt `new` has these fields. *)
HasFields(new, worker, conn, canceled, state, expected, holding, events) ==
    /\ new \in AttemptType
    /\ new.worker = worker
    /\ new.conn = conn
    /\ new.canceled = canceled
    /\ new.state = state
    /\ new.expected = expected
    /\ new.holding = holding
    /\ new.events = events

(* The step replaces attempt i by one with these fields and no other attempt. *)
AttemptBecomes(i, worker, conn, canceled, state, expected, holding, events) ==
    /\ att' \in [Attempts -> AttemptType]
    /\ \A j \in Attempts : j # i => att'[j] = att[j]
    /\ HasFields(att'[i], worker, conn, canceled, state, expected, holding, events)

(* What the record updates of the receivers and of handleChat leave alone:   *)
(* cancelling an attempt.                                                    *)
LEMMA CanceledRecord ==
    ASSUME NEW a \in AttemptType
    PROVE  HasFields([a EXCEPT !.canceled = TRUE], a.worker, a.conn, TRUE, a.state, a.expected,
                     a.holding, a.events)
BY DEF AttemptType, HasFields

(* A receiver taking an event in hand. *)
LEMMA ReceivedRecord ==
    ASSUME NEW a \in AttemptType, NEW e \in EventType, NEW n \in 0 .. MaxTokens
    PROVE  HasFields([a EXCEPT !.state = "deliver", !.holding = e, !.expected = n],
                     a.worker, a.conn, a.canceled, "deliver", n, e, a.events)
BY DEF AttemptType, HasFields

(* The deferred calls of receiveAttempt. *)
LEMMA ExitedRecord ==
    ASSUME NEW a \in AttemptType
    PROVE  HasFields([a EXCEPT !.state = "exited", !.canceled = TRUE,
                               !.holding = NoEvent, !.conn = NoConn],
                     a.worker, NoConn, TRUE, "exited", a.expected, NoEvent, a.events)
BY DEF AttemptType, HasFields, Connections

(* A new content of the channel. *)
LEMMA EventsRecord ==
    ASSUME NEW a \in AttemptType, NEW s \in Seq(EventType)
    PROVE  HasFields([a EXCEPT !.events = s], a.worker, a.conn, a.canceled, a.state,
                     a.expected, a.holding, s)
BY DEF AttemptType, HasFields

(* deliverAttempt returning to Recv. *)
LEMMA DeliveredRecord ==
    ASSUME NEW a \in AttemptType
    PROVE  HasFields([a EXCEPT !.state = "recv", !.holding = NoEvent], a.worker, a.conn,
                     a.canceled, "recv", a.expected, NoEvent, a.events)
BY DEF AttemptType, HasFields
(* One attempt is replaced by another of the same type. *)
LEMMA AttemptReplaced ==
    ASSUME att \in [Attempts -> AttemptType], NEW i \in Attempts, NEW new,
           NEW worker, NEW conn, NEW canceled, NEW state, NEW expected, NEW holding, NEW events,
           HasFields(new, worker, conn, canceled, state, expected, holding, events),
           att' = [att EXCEPT ![i] = new]
    PROVE  AttemptBecomes(i, worker, conn, canceled, state, expected, holding, events)
<1>1. new \in AttemptType
  BY DEF HasFields
<1>2. att' \in [Attempts -> AttemptType] /\ att'[i] = new
  BY <1>1
<1>3. \A j \in Attempts : j # i => att'[j] = att[j]
  OBVIOUS
<1> QED
  BY <1>2, <1>3 DEF AttemptBecomes

(* attemptCancel() touches nothing but the context of its attempt. *)
LEMMA CancelEffect ==
    ASSUME att \in [Attempts -> AttemptType], NEW i \in Attempts,
           att' = [att EXCEPT ![i].canceled = TRUE]
    PROVE  AttemptBecomes(i, att[i].worker, att[i].conn, TRUE, att[i].state, att[i].expected,
                          att[i].holding, att[i].events)
<1>1. att' = [att EXCEPT ![i] = [att[i] EXCEPT !.canceled = TRUE]]
  BY Zenon
<1> QED
  BY <1>1, CanceledRecord, AttemptReplaced

(* A received message is held by its own receiver only. *)
LEMMA RecvEffect ==
    ASSUME att \in [Attempts -> AttemptType], NEW i \in Attempts,
           NEW e \in EventType, NEW n \in 0 .. MaxTokens,
           att' = [att EXCEPT ![i].state = "deliver", ![i].holding = e, ![i].expected = n]
    PROVE  AttemptBecomes(i, att[i].worker, att[i].conn, att[i].canceled, "deliver", n, e,
                          att[i].events)
<1>1. att' = [att EXCEPT ![i] = [att[i] EXCEPT !.state = "deliver", !.holding = e, !.expected = n]]
  BY Zenon
<1> QED
  BY <1>1, ReceivedRecord, AttemptReplaced

(* selectWorker sets the worker of the current attempt. *)
LEMMA SelectEffect ==
    ASSUME att \in [Attempts -> AttemptType], NEW i \in Attempts, NEW w \in Workers,
           att' = [att EXCEPT ![i].worker = w]
    PROVE  AttemptBecomes(i, w, att[i].conn, att[i].canceled, att[i].state, att[i].expected,
                          att[i].holding, att[i].events)
<1>1. att' = [att EXCEPT ![i] = [att[i] EXCEPT !.worker = w]]
  BY Zenon
<1>2. ASSUME NEW a \in AttemptType
      PROVE  HasFields([a EXCEPT !.worker = w], w, a.conn, a.canceled, a.state, a.expected,
                       a.holding, a.events)
  BY DEF AttemptType, HasFields
<1> QED
  BY <1>1, <1>2, AttemptReplaced

(* Pool.Client gives the attempt its connection. *)
LEMMA ConnectEffect ==
    ASSUME att \in [Attempts -> AttemptType], NEW i \in Attempts, NEW c \in Connections,
           att' = [att EXCEPT ![i].conn = c]
    PROVE  AttemptBecomes(i, att[i].worker, c, att[i].canceled, att[i].state, att[i].expected,
                          att[i].holding, att[i].events)
<1>1. att' = [att EXCEPT ![i] = [att[i] EXCEPT !.conn = c]]
  BY Zenon
<1>2. ASSUME NEW a \in AttemptType
      PROVE  HasFields([a EXCEPT !.conn = c], a.worker, c, a.canceled, a.state,
                       a.expected, a.holding, a.events)
  BY DEF AttemptType, HasFields
<1> QED
  BY <1>1, <1>2, AttemptReplaced

(* Generate starts the receiver. *)
LEMMA OpenEffect ==
    ASSUME att \in [Attempts -> AttemptType], NEW i \in Attempts,
           att' = [att EXCEPT ![i].state = "recv"]
    PROVE  AttemptBecomes(i, att[i].worker, att[i].conn, att[i].canceled, "recv", att[i].expected,
                          att[i].holding, att[i].events)
<1>1. att' = [att EXCEPT ![i] = [att[i] EXCEPT !.state = "recv"]]
  BY Zenon
<1>2. ASSUME NEW a \in AttemptType
      PROVE  HasFields([a EXCEPT !.state = "recv"], a.worker, a.conn, a.canceled, "recv",
                       a.expected, a.holding, a.events)
  BY DEF AttemptType, HasFields
<1> QED
  BY <1>1, <1>2, AttemptReplaced

(* Reading the channel removes its first event. *)
LEMMA TakeEffect ==
    ASSUME att \in [Attempts -> AttemptType], NEW i \in Attempts, att[i].events # << >>,
           att' = [att EXCEPT ![i].events = Tail(@)]
    PROVE  AttemptBecomes(i, att[i].worker, att[i].conn, att[i].canceled, att[i].state,
                          att[i].expected, att[i].holding, Tail(att[i].events))
<1>1. att' = [att EXCEPT ![i] = [att[i] EXCEPT !.events = Tail(att[i].events)]]
  BY Zenon
<1>2. Tail(att[i].events) \in Seq(EventType)
  BY HeadTailProperties DEF AttemptType
<1> QED
  BY <1>1, <1>2, EventsRecord, AttemptReplaced

(* A receiver that drops its event keeps the events already in the channel. *)
LEMMA ExitEffect ==
    ASSUME att \in [Attempts -> AttemptType], NEW i \in Attempts,
           att' = [att EXCEPT ![i] = ReceiverExit(i)]
    PROVE  AttemptBecomes(i, att[i].worker, NoConn, TRUE, "exited", att[i].expected, NoEvent,
                          att[i].events)
BY ExitedRecord, AttemptReplaced DEF ReceiverExit

(* deliverAttempt appends the event in hand; the receiver goes on after a    *)
(* token and exits after anything else.                                      *)
LEMMA DeliverEffect ==
    ASSUME att \in [Attempts -> AttemptType], NEW i \in Attempts, Deliver(i),
           att[i].holding \in EventType
    PROVE  IF att[i].holding.kind = "token"
           THEN AttemptBecomes(i, att[i].worker, att[i].conn, att[i].canceled, "recv",
                               att[i].expected, NoEvent, Append(att[i].events, att[i].holding))
           ELSE AttemptBecomes(i, att[i].worker, NoConn, TRUE, "exited", att[i].expected, NoEvent,
                               Append(att[i].events, att[i].holding))
<1> DEFINE queue == Append(att[i].events, att[i].holding)
<1>1. queue \in Seq(EventType)
  BY AppendProperties DEF AttemptType
<1>2. CASE att[i].holding.kind = "token"
  <2> DEFINE next == [att[i] EXCEPT !.state = "recv", !.holding = NoEvent]
  <2>1. HasFields(next, att[i].worker, att[i].conn, att[i].canceled, "recv", att[i].expected,
                  NoEvent, att[i].events)
    BY DeliveredRecord
  <2>2. att' = [att EXCEPT ![i] = [next EXCEPT !.events = Append(@, att[i].holding)]]
    BY <1>2 DEF Deliver
  <2> HIDE DEF next
  <2>3. att' = [att EXCEPT ![i] = [next EXCEPT !.events = queue]]
    BY <2>1, <2>2, Zenon DEF HasFields
  <2> HIDE DEF queue
  <2>4. HasFields([next EXCEPT !.events = queue], att[i].worker, att[i].conn, att[i].canceled,
                  "recv", att[i].expected, NoEvent, queue)
    BY <1>1, <2>1, EventsRecord DEF HasFields
  <2>5. AttemptBecomes(i, att[i].worker, att[i].conn, att[i].canceled, "recv", att[i].expected,
                       NoEvent, queue)
    BY <2>3, <2>4, AttemptReplaced
  <2> QED
    BY <1>2, <2>5 DEF queue
<1>3. CASE att[i].holding.kind # "token"
  <2> DEFINE next == ReceiverExit(i)
  <2>1. HasFields(next, att[i].worker, NoConn, TRUE, "exited", att[i].expected, NoEvent,
                  att[i].events)
    BY ExitedRecord DEF ReceiverExit
  <2>2. att' = [att EXCEPT ![i] = [next EXCEPT !.events = Append(@, att[i].holding)]]
    BY <1>3 DEF Deliver
  <2> HIDE DEF next
  <2>3. att' = [att EXCEPT ![i] = [next EXCEPT !.events = queue]]
    BY <2>1, <2>2, Zenon DEF HasFields
  <2> HIDE DEF queue
  <2>4. HasFields([next EXCEPT !.events = queue], att[i].worker, NoConn, TRUE,
                  "exited", att[i].expected, NoEvent, queue)
    BY <1>1, <2>1, EventsRecord DEF HasFields
  <2>5. AttemptBecomes(i, att[i].worker, NoConn, TRUE, "exited", att[i].expected,
                       NoEvent, queue)
    BY <2>3, <2>4, AttemptReplaced
  <2> QED
    BY <1>3, <2>5 DEF queue
<1> QED
  BY <1>2, <1>3

(* The step leaves attempt j alone. *)
Kept(j) == att'[j] = att[j]

-----------------------------------------------------------------------------
(* The parts of handleChat: before admission, while a connection and a       *)
(* stream are opened, before and after the response is committed.            *)
EarlyPCs == {"idle", "accepted", "parse", "check", "reserve"}
OpeningPCs == {"client", "dial", "generate"}
UntriedPCs == {"idle", "accepted", "parse", "check", "reserve", "select", "client", "dial",
               "generate", "first"}
UncommittedPCs == {"idle", "accepted", "parse", "check", "reserve", "select", "client", "dial",
                   "generate", "first", "drop"}
CommittedPCs == {"headers", "write", "forward", "done"}

(* Where the handler is determines what it has done with its current         *)
(* attempt.                                                                  *)
ControlInv(r) ==
    /\ pc[r] \in EarlyPCs => attempt[r] = 1
    /\ pc[r] \in EarlyPCs \union {"select"} => att[Current(r)] = NoAttempt
    /\ pc[r] \in OpeningPCs => att[Current(r)].state = "none"
    /\ pc[r] \in {"client", "dial", "generate", "first", "drop"} => CurrentWorker(r) \in Workers
    /\ pc[r] = "drop" => att[Current(r)].canceled /\ failure[r] # "none"
    /\ pc[r] \in {"headers", "write"} => event[r].kind \in {"token", "completion", "error"}
    /\ attempt[r] = 1 => att[<<r, 2>>] = NoAttempt

(* The second attempt follows a failure of the first, whose worker is        *)
(* excluded.                                                                 *)
RetryInv(r) ==
    /\ (attempt[r] = 1 /\ pc[r] \in UntriedPCs) => failure[r] = "none"
    /\ attempt[r] = 2 => /\ att[<<r, 1>>].canceled
                         /\ att[<<r, 1>>].worker \in excluded[r]
                         /\ att[<<r, 1>>].worker # att[<<r, 2>>].worker
                         /\ failure[r] # "none"

(* What was replied, and when. *)
ReplyInv(r) ==
    /\ pc[r] \in UncommittedPCs => status[r] = 0
    /\ pc[r] \in CommittedPCs => status[r] = 200
    /\ status[r] = 503 => /\ attempt[r] = 1
                          /\ failure[r] = "none"
                          /\ att[<<r, 1>>].worker = NoWorker

RequestInv(r) == ControlInv(r) /\ RetryInv(r) /\ ReplyInv(r)

(* A receiver that delivers holds an event; an attempt without receiver has  *)
(* no events; only a chosen worker is connected.                             *)
AttemptInv(i) ==
    /\ att[i].state = "deliver" => att[i].holding \in EventType
    /\ att[i].state = "none" => att[i].expected = 0 /\ att[i].events = << >>
    /\ att[i].conn # NoConn => att[i].worker \in Workers

(* The inductive invariant of the router. *)
GatewayInv ==
    /\ LeaseInv
    /\ TypeOK
    /\ \A i \in Attempts : AttemptInv(i)
    /\ \A r \in Requests : RequestInv(r)

(* TypeOK without what LeaseInv says. *)
StateTyped ==
    /\ attempt \in [Requests -> {1, 2}]
    /\ excluded \in [Requests -> SUBSET Workers]
    /\ failure \in [Requests -> ErrorClasses \union {"none"}]
    /\ ctx \in [Requests -> {"live", "deadline", "canceled"}]
    /\ client \in [Requests -> {"reading", "stalled", "gone"}]
    /\ status \in [Requests -> {0, 200, 400, 429, 502, 503, 504}]
    /\ sse \in [Requests -> Seq(SentType)]
    /\ event \in [Requests -> EventType \union {NoEvent}]

AttemptsTyped ==
    /\ att \in [Attempts -> AttemptType]
    /\ \A i \in Attempts : Len(att[i].events) <= SSEBufferSize
    /\ pool \in [Workers -> Connections]
    /\ open \subseteq Attempts
    /\ dropping \in [Requests -> Connections]

(* TypeOK is what LeaseInv says of the program counters and the budget, and  *)
(* the two parts above.                                                      *)
LEMMA TypeParts == LeaseInv => (TypeOK <=> StateTyped /\ AttemptsTyped)
BY DEF LeaseInv, TypeOK, StateTyped, AttemptsTyped

(* A request has the attempts 1 and 2, one of them current. *)
LEMMA CurrentIsAttempt ==
    ASSUME StateTyped, NEW r \in Requests
    PROVE  /\ Current(r) \in Attempts /\ <<r, 1>> \in Attempts /\ <<r, 2>> \in Attempts
           /\ attempt[r] \in {1, 2}
           /\ Current(r) = <<r, attempt[r]>>
BY DEF StateTyped, Current, Attempts

(* The step leaves the handlers and the attempts of the other requests       *)
(* alone.                                                                    *)
OthersKept(r) ==
    /\ \A q \in Requests : q # r =>
          /\ pc'[q] = pc[q] /\ attempt'[q] = attempt[q] /\ excluded'[q] = excluded[q]
          /\ failure'[q] = failure[q] /\ status'[q] = status[q] /\ event'[q] = event[q]
    /\ \A i \in Attempts : i[1] # r => Kept(i)

(* A step of one handler disturbs nothing that is claimed of the others. *)
LEMMA OtherRequests ==
    ASSUME GatewayInv, NEW r \in Requests, OthersKept(r), NEW q \in Requests, q # r
    PROVE  RequestInv(q)'
<1>1. StateTyped /\ RequestInv(q)
  BY TypeParts DEF GatewayInv
<1>2. Kept(<<q, 1>>) /\ Kept(<<q, 2>>) /\ attempt[q] \in {1, 2}
  BY <1>1, CurrentIsAttempt DEF OthersKept
<1>3. /\ pc'[q] = pc[q] /\ attempt'[q] = attempt[q] /\ excluded'[q] = excluded[q]
      /\ failure'[q] = failure[q] /\ status'[q] = status[q] /\ event'[q] = event[q]
  BY DEF OthersKept
<1>4. Current(q)' = Current(q) /\ Current(q) = <<q, attempt[q]>> /\ Kept(Current(q))
  BY <1>1, <1>2, <1>3 DEF Current
<1>5. ControlInv(q)'
  BY <1>1, <1>2, <1>3, <1>4 DEF RequestInv, ControlInv, Kept, CurrentWorker
<1>6. RetryInv(q)'
  BY <1>1, <1>2, <1>3 DEF RequestInv, RetryInv, Kept
<1>7. ReplyInv(q)'
  BY <1>1, <1>2, <1>3 DEF RequestInv, ReplyInv, Kept
<1> QED
  BY <1>5, <1>6, <1>7 DEF RequestInv

(* What is shown of every step of a request. *)
StepKeeps(r) ==
    /\ StateTyped'
    /\ AttemptsTyped'
    /\ \A i \in Attempts : AttemptInv(i)'
    /\ OthersKept(r)
    /\ RequestInv(r)'

(* The state a step of request r starts from. *)
Before(r) ==
    /\ StateTyped /\ AttemptsTyped
    /\ \A i \in Attempts : AttemptInv(i)
    /\ ControlInv(r) /\ RetryInv(r) /\ ReplyInv(r)
    /\ pc \in [Requests -> PCs]
    /\ Current(r) \in Attempts /\ <<r, 1>> \in Attempts /\ <<r, 2>> \in Attempts
    /\ attempt[r] \in {1, 2}
    /\ Current(r) = <<r, attempt[r]>>

(* The invariant, unpacked for one request. *)
LEMMA BeforeStep ==
    ASSUME GatewayInv, NEW r \in Requests
    PROVE  Before(r)
BY TypeParts, CurrentIsAttempt DEF GatewayInv, LeaseInv, Before, RequestInv

(* A step that leaves the attempts and the pool alone. *)
LEMMA AttemptsUntouched ==
    ASSUME GatewayInv, UNCHANGED <<att, poolVars>>
    PROVE  /\ AttemptsTyped'
           /\ \A i \in Attempts : AttemptInv(i)' /\ Kept(i)
BY TypeParts DEF GatewayInv, AttemptsTyped, AttemptInv, Kept, poolVars

(* Steps of a handler that has not chosen a worker. *)
LEMMA EarlySteps ==
    ASSUME GatewayInv, NEW r \in Requests,
           \/ Arrive(r) \/ Enter(r) \/ BodyRead(r) \/ BadRequest(r) \/ BodyLost(r)
           \/ NoHealthyWorkers(r) \/ HealthyWorkers(r)
           \/ AdmissionRejected(r) \/ \E cost \in Costs : Admitted(r, cost)
    PROVE  StepKeeps(r)
<1>b. Before(r)
  BY BeforeStep
<1> USE <1>b DEF Before
<1>1. PICK label \in {"return", "accepted", "parse", "check", "reserve", "select"}, code \in {0, 400, 429, 503} :
          /\ pc[r] \in EarlyPCs
          /\ label # "return" => code = 0
          /\ pc' = [pc EXCEPT ![r] = label]
          /\ status' = [status EXCEPT ![r] = code]
          /\ UNCHANGED <<attempt, excluded, failure, event, ctx, client, sse, att, poolVars>>
  <2>1. pc[r] \in EarlyPCs => status = [status EXCEPT ![r] = 0]
    BY DEF StateTyped, RequestInv, ReplyInv, EarlyPCs, UncommittedPCs
  <2> QED
    BY <2>1 DEF Arrive, Enter, BodyRead, BadRequest, BodyLost, NoHealthyWorkers, HealthyWorkers, AdmissionRejected,
                Admitted, GoTo, Reply, EarlyPCs, clientVars
<1>u. AttemptsTyped' /\ \A i \in Attempts : AttemptInv(i)' /\ Kept(i)
  BY <1>1, AttemptsUntouched
<1>2. StateTyped'
  BY <1>1 DEF StateTyped
<1>3. OthersKept(r)
  BY <1>1, <1>u DEF OthersKept, StateTyped
<1>4. attempt[r] = 1 /\ att[<<r, 1>>] = NoAttempt /\ failure[r] = "none"
  BY <1>1 DEF ControlInv, RetryInv, EarlyPCs, UntriedPCs
<1>5. pc'[r] = label /\ status'[r] = code /\ attempt'[r] = 1 /\ Current(r)' = <<r, 1>>
  BY <1>1, <1>4 DEF StateTyped, Current
<1>6. ControlInv(r)'
  BY <1>1, <1>4, <1>5 DEF RequestInv, ControlInv, EarlyPCs, OpeningPCs
<1>7. RetryInv(r)' /\ ReplyInv(r)'
  BY <1>1, <1>4, <1>5 DEF RetryInv, ReplyInv, NoAttempt, EarlyPCs, UntriedPCs, UncommittedPCs,
     CommittedPCs
<1> QED
  BY <1>1, <1>2, <1>3, <1>6, <1>7, <1>u DEF StepKeeps, RequestInv

(* selectWorker returns a worker, or finds none. *)
LEMMA SelectSteps ==
    ASSUME GatewayInv, NEW r \in Requests,
           NoEligibleWorker(r) \/ \E w \in Workers : SelectWorker(r, w)
    PROVE  StepKeeps(r)
<1>b. Before(r)
  BY BeforeStep
<1> USE <1>b DEF Before
<1>0. pc[r] = "select" /\ att[Current(r)] = NoAttempt
  BY DEF NoEligibleWorker, SelectWorker, RequestInv, ControlInv
<1>1. CASE NoEligibleWorker(r)
  <2>1. /\ pc' = [pc EXCEPT ![r] = "release"]
        /\ UNCHANGED <<attempt, excluded, failure, event, ctx, client, sse, att, poolVars>>
    BY <1>1 DEF NoEligibleWorker, GoTo, clientVars
  <2>u. AttemptsTyped' /\ \A i \in Attempts : AttemptInv(i)' /\ Kept(i)
    BY <2>1, AttemptsUntouched
  <2>2. PICK code \in {502, 503, 504} :
           /\ status' = [status EXCEPT ![r] = code]
           /\ code = 503 => failure[r] = "none"
    <3>1. PrecommitStatus(r) = 502 \/ PrecommitStatus(r) = 504
      BY DEF PrecommitStatus
    <3>2. status' = [status EXCEPT ![r] = IF failure[r] # "none" THEN PrecommitStatus(r) ELSE 503]
      BY <1>1 DEF NoEligibleWorker, Reply
    <3>3. CASE failure[r] = "none"
      BY <3>2, <3>3
    <3>4. CASE failure[r] # "none"
      <4>1. status' = [status EXCEPT ![r] = PrecommitStatus(r)]
        BY <3>2, <3>4
      <4>2. CASE PrecommitStatus(r) = 502
        BY <4>1, <4>2
      <4>3. CASE PrecommitStatus(r) = 504
        BY <4>1, <4>3
      <4> QED
        BY <3>1, <4>2, <4>3
    <3> QED
      BY <3>3, <3>4
  <2>3. StateTyped'
    BY <2>1, <2>2 DEF StateTyped
  <2>4. OthersKept(r)
    BY <2>1, <2>2, <2>u DEF OthersKept, StateTyped
  <2>5. pc'[r] = "release" /\ status'[r] = code
    BY <2>1, <2>2 DEF StateTyped
  <2>6. failure[r] = "none" => attempt[r] = 1
    BY DEF RequestInv, RetryInv
  <2>7. RequestInv(r)'
    BY <1>0, <2>1, <2>2, <2>5, <2>6 DEF RequestInv, ControlInv, RetryInv, ReplyInv,
       EarlyPCs, OpeningPCs, UntriedPCs, UncommittedPCs, CommittedPCs, NoAttempt
  <2> QED
    BY <2>1, <2>3, <2>4, <2>7, <2>u DEF StepKeeps
<1>2. ASSUME NEW w \in Workers, SelectWorker(r, w) PROVE StepKeeps(r)
  <2>1. /\ pc' = [pc EXCEPT ![r] = "client"]
        /\ w \notin excluded[r]
        /\ att' = [att EXCEPT ![Current(r)].worker = w]
        /\ UNCHANGED <<attempt, excluded, failure, status, event, ctx, client, sse, poolVars>>
    BY <1>2 DEF SelectWorker, GoTo, clientVars
  <2> DEFINE i == Current(r)
  <2>2. AttemptBecomes(i, w, att[i].conn, att[i].canceled, att[i].state, att[i].expected,
                       att[i].holding, att[i].events)
    BY <2>1, SelectEffect DEF AttemptsTyped
  <2> HIDE DEF i
  <2>3. AttemptBecomes(i, w, NoConn, FALSE, "none", 0, NoEvent, << >>)
    <3>1. att[i] = NoAttempt
      BY <1>0 DEF i
    <3>2. /\ att[i].conn = NoConn /\ att[i].canceled = FALSE /\ att[i].state = "none"
          /\ att[i].expected = 0 /\ att[i].holding = NoEvent /\ att[i].events = << >>
      BY <3>1 DEF NoAttempt
    <3> QED
      BY <2>2, <3>2
  <2>4. i \in Attempts /\ i = <<r, attempt[r]>>
    BY DEF i
  <2>5. StateTyped' /\ AttemptsTyped'
    <3>1. StateTyped'
      BY <2>1 DEF StateTyped
    <3>2. Len(<< >>) <= SSEBufferSize
      BY BufferAssumption
    <3>3. \A j \in Attempts : Len(att'[j].events) <= SSEBufferSize
      BY <2>3, <2>4, <3>2 DEF AttemptsTyped, AttemptBecomes, HasFields
    <3> QED
      BY <2>1, <2>3, <3>1, <3>3 DEF AttemptsTyped, AttemptBecomes, poolVars
  <2>6. \A j \in Attempts : AttemptInv(j)'
    BY <2>1, <2>3, <2>4 DEF AttemptInv, AttemptBecomes, HasFields
  <2>7. OthersKept(r)
    BY <2>1, <2>3, <2>4 DEF OthersKept, StateTyped, AttemptBecomes, Kept
  <2>8. pc'[r] = "client" /\ Current(r)' = i
    BY <2>1 DEF StateTyped, Current, i
  <2>9. ControlInv(r)'
    BY <1>0, <2>1, <2>3, <2>4, <2>8 DEF RequestInv, ControlInv, CurrentWorker, EarlyPCs,
       OpeningPCs, AttemptBecomes, HasFields
  <2>10. RetryInv(r)'
    BY <1>0, <2>1, <2>3, <2>4, <2>8 DEF RequestInv, RetryInv, UntriedPCs,
       AttemptBecomes, HasFields
  <2>11. ReplyInv(r)'
    BY <1>0, <2>1, <2>3, <2>4, <2>8 DEF RequestInv, ReplyInv, UncommittedPCs, CommittedPCs
  <2> QED
    BY <2>5, <2>6, <2>7, <2>9, <2>10, <2>11 DEF StepKeeps, RequestInv
<1> QED
  BY <1>1, <1>2

(* The failure branches of the attempt loop up to Invalidate's lock. *)
LEMMA FailedSteps ==
    ASSUME GatewayInv, NEW r \in Requests, NEW class \in ErrorClasses,
           pc[r] \in {"dial", "generate", "first"}, AttemptFailed(r, class)
    PROVE  StepKeeps(r)
<1>b. Before(r)
  BY BeforeStep
<1> USE <1>b DEF Before
<1> DEFINE i == Current(r)
           w == CurrentWorker(r)
<1>1. i \in Attempts /\ i = <<r, attempt[r]>> /\ w \in Workers /\ att[i].worker = w
  BY DEF ControlInv, CurrentWorker
<1>2. /\ att' = [att EXCEPT ![i].canceled = TRUE]
      /\ pool' = [pool EXCEPT ![w] = NoConn]
      /\ dropping' = [dropping EXCEPT ![r] = pool[w]]
      /\ failure' = [failure EXCEPT ![r] = class]
      /\ pc' = [pc EXCEPT ![r] = "drop"]
      /\ UNCHANGED <<attempt, excluded, status, event, ctx, client, sse, open>>
  BY DEF AttemptFailed, CancelAttempt, GoTo, clientVars
<1>3. AttemptBecomes(i, w, att[i].conn, TRUE, att[i].state, att[i].expected, att[i].holding,
                     att[i].events)
  BY <1>1, <1>2, CancelEffect DEF AttemptsTyped
<1>4. Current(r)' = i /\ CurrentWorker(r)' = att'[i].worker
  BY <1>2 DEF Current, CurrentWorker
<1> HIDE DEF i, w
<1>5. StateTyped'
  BY <1>2 DEF StateTyped
<1>6. AttemptsTyped'
  <2>1. \A j \in Attempts : Len(att'[j].events) <= SSEBufferSize
    BY <1>1, <1>3 DEF AttemptsTyped, AttemptBecomes, HasFields
  <2>2. pool' \in [Workers -> Connections] /\ dropping' \in [Requests -> Connections]
    BY <1>1, <1>2 DEF AttemptsTyped, Connections
  <2> QED
    BY <1>2, <1>3, <2>1, <2>2 DEF AttemptsTyped, AttemptBecomes
<1>7. \A j \in Attempts : AttemptInv(j)'
  <2>1. ASSUME NEW j \in Attempts, j # i PROVE AttemptInv(j)'
    BY <1>3, <2>1 DEF AttemptInv, AttemptBecomes
  <2>2. ASSUME NEW j \in Attempts, j = i PROVE AttemptInv(j)'
    BY <1>1, <1>3, <2>2 DEF AttemptInv, AttemptBecomes, HasFields
  <2> QED
    BY <2>1, <2>2
<1>8. OthersKept(r)
  BY <1>1, <1>2, <1>3 DEF OthersKept, StateTyped, AttemptBecomes, Kept
<1>9. RequestInv(r)'
  <2>1. /\ pc'[r] = "drop" /\ failure'[r] = class /\ class # "none" /\ status'[r] = 0
        /\ attempt'[r] = attempt[r] /\ excluded'[r] = excluded[r]
    BY <1>2 DEF StateTyped, ErrorClasses, ReplyInv, UncommittedPCs
  <2>2. att'[i].worker = w /\ att'[i].canceled
    BY <1>3 DEF AttemptBecomes, HasFields
  <2>3. attempt[r] = 1 => att'[<<r, 2>>] = att[<<r, 2>>]
    BY <1>1, <1>3 DEF AttemptBecomes
  <2>4. /\ att'[<<r, 1>>].worker = att[<<r, 1>>].worker
        /\ att'[<<r, 2>>].worker = att[<<r, 2>>].worker
        /\ att[<<r, 1>>].canceled => att'[<<r, 1>>].canceled
    BY <1>1, <1>3 DEF AttemptBecomes, HasFields
  <2>5. ControlInv(r)'
    BY <1>1, <1>4, <2>1, <2>2, <2>3 DEF ControlInv, EarlyPCs, OpeningPCs
  <2>6. RetryInv(r)'
    BY <2>1, <2>4 DEF RetryInv, UntriedPCs
  <2>7. ReplyInv(r)'
    BY <2>1 DEF ReplyInv, CommittedPCs
  <2> QED
    BY <2>5, <2>6, <2>7 DEF RequestInv
<1> QED
  BY <1>5, <1>6, <1>7, <1>8, <1>9 DEF StepKeeps

(* And after it: the worker is excluded and another one selected, or the     *)
(* failure is reported.                                                      *)
LEMMA DroppedSteps ==
    ASSUME GatewayInv, NEW r \in Requests, Dropped(r)
    PROVE  StepKeeps(r)
<1>b. Before(r)
  BY BeforeStep
<1> USE <1>b DEF Before
<1> DEFINE w == CurrentWorker(r)
<1>1. /\ pc[r] = "drop" /\ w \in Workers /\ w = att[<<r, attempt[r]>>].worker
      /\ att[<<r, attempt[r]>>].canceled
      /\ failure[r] # "none" /\ status[r] = 0
  BY DEF Dropped, ControlInv, CurrentWorker, ReplyInv, UncommittedPCs
<1>2. /\ open' = open \ {dropping[r]}
      /\ dropping' = [dropping EXCEPT ![r] = NoConn]
      /\ UNCHANGED <<failure, event, ctx, client, sse, att, pool>>
  BY DEF Dropped, clientVars
<1>3. \/ /\ attempt[r] = 1
         /\ excluded' = [excluded EXCEPT ![r] = @ \union {w}]
         /\ attempt' = [attempt EXCEPT ![r] = 2]
         /\ pc' = [pc EXCEPT ![r] = "select"]
         /\ UNCHANGED status
      \/ /\ status' = [status EXCEPT ![r] = 502] \/ status' = [status EXCEPT ![r] = 504]
         /\ pc' = [pc EXCEPT ![r] = "release"]
         /\ UNCHANGED <<excluded, attempt>>
  <2>1. CASE ShouldRetry(r, failure[r])
    <3>1. attempt[r] = 1 /\ attempt[r] + 1 = 2
      BY <2>1 DEF ShouldRetry
    <3>2. attempt' = [attempt EXCEPT ![r] = attempt[r] + 1]
      BY <2>1, Zenon DEF Dropped
    <3>3. attempt' = [attempt EXCEPT ![r] = 2]
      BY <3>1, <3>2
    <3> QED
      BY <2>1, <3>1, <3>3 DEF Dropped, Exclude, GoTo
  <2>2. CASE ~ShouldRetry(r, failure[r])
    <3>1. PrecommitStatus(r) = 502 \/ PrecommitStatus(r) = 504
      BY DEF PrecommitStatus
    <3>2. /\ status' = [status EXCEPT ![r] = PrecommitStatus(r)]
          /\ pc' = [pc EXCEPT ![r] = "release"]
          /\ UNCHANGED <<excluded, attempt>>
      BY <2>2 DEF Dropped, GoTo, Reply
    <3> QED
      BY <3>1, <3>2
  <2> QED
    BY <2>1, <2>2
<1> HIDE DEF w
<1>4. \A j \in Attempts : Kept(j) /\ AttemptInv(j)'
  BY <1>2 DEF Kept, AttemptInv
<1>5. StateTyped'
  <2>2. attempt' \in [Requests -> {1, 2}]
    <3>1. attempt' = [attempt EXCEPT ![r] = 2] \/ attempt' = attempt
      BY <1>3
    <3>2. attempt \in [Requests -> {1, 2}]
      BY DEF StateTyped
    <3>3. CASE attempt' = [attempt EXCEPT ![r] = 2]
      BY <3>2, <3>3
    <3> QED
      BY <3>1, <3>2, <3>3
  <2>3. excluded' \in [Requests -> SUBSET Workers]
    <3>1. excluded' = [excluded EXCEPT ![r] = @ \union {w}] \/ excluded' = excluded
      BY <1>3
    <3>2. excluded \in [Requests -> SUBSET Workers] /\ w \in Workers
      BY <1>1 DEF StateTyped
    <3> QED
      BY <3>1, <3>2
  <2>4. status' \in [Requests -> {0, 200, 400, 429, 502, 503, 504}]
    <3>1. \/ status' = [status EXCEPT ![r] = 502]
          \/ status' = [status EXCEPT ![r] = 504]
          \/ status' = status
      BY <1>3
    <3>2. status \in [Requests -> {0, 200, 400, 429, 502, 503, 504}]
      BY DEF StateTyped
    <3>3. CASE status' = [status EXCEPT ![r] = 502]
      BY <3>2, <3>3
    <3>4. CASE status' = [status EXCEPT ![r] = 504]
      BY <3>2, <3>4
    <3> QED
      BY <3>1, <3>2, <3>3, <3>4
  <2> QED
    BY <1>2, <2>2, <2>3, <2>4 DEF StateTyped
<1>6. AttemptsTyped'
  BY <1>2 DEF AttemptsTyped, Connections
<1>9. OthersKept(r)
  BY <1>2, <1>3, <1>4 DEF OthersKept, StateTyped
<1>10. RequestInv(r)'
  <2>1. CASE attempt[r] = 1 /\ attempt' = [attempt EXCEPT ![r] = 2]
    <3>0. /\ excluded' = [excluded EXCEPT ![r] = @ \union {w}]
          /\ pc' = [pc EXCEPT ![r] = "select"] /\ status' = status
      BY <1>3, <2>1 DEF StateTyped
    <3>1. /\ attempt'[r] = 2 /\ pc'[r] = "select" /\ status'[r] = 0
          /\ w \in excluded'[r] /\ failure'[r] # "none"
      BY <1>1, <1>2, <2>1, <3>0 DEF StateTyped
    <3>2. att'[<<r, 2>>] = NoAttempt /\ Current(r)' = <<r, 2>>
      BY <1>2, <2>1, <3>1 DEF ControlInv, Current
    <3>3. att'[<<r, 1>>].worker = w /\ att'[<<r, 1>>].canceled
      BY <1>1, <1>2, <2>1
    <3>4. w # NoAttempt.worker
      BY <1>1, WorkerAssumption DEF NoAttempt
    <3>5. ControlInv(r)'
      BY <3>1, <3>2 DEF ControlInv, EarlyPCs, OpeningPCs
    <3>6. RetryInv(r)' /\ ReplyInv(r)'
      BY <3>1, <3>2, <3>3, <3>4 DEF RetryInv, ReplyInv, UntriedPCs, CommittedPCs
    <3> QED
      BY <3>5, <3>6 DEF RequestInv
  <2>2. CASE UNCHANGED attempt
    <3>1. /\ pc'[r] = "release" /\ status'[r] \in {502, 504}
          /\ UNCHANGED <<att, excluded, failure>>
      BY <1>2, <1>3, <2>2 DEF StateTyped
    <3>3. ControlInv(r)'
      BY <2>2, <3>1 DEF ControlInv, EarlyPCs, OpeningPCs
    <3>4. RetryInv(r)' /\ ReplyInv(r)'
      BY <2>2, <3>1 DEF RetryInv, ReplyInv, UntriedPCs, UncommittedPCs, CommittedPCs
    <3> QED
      BY <3>3, <3>4 DEF RequestInv
  <2> QED
    BY <1>3, <2>1, <2>2
<1> QED
  BY <1>4, <1>5, <1>6, <1>9, <1>10 DEF StepKeeps

(* What the handler reads from the channel is an event. *)
LEMMA ChannelEvent ==
    ASSUME GatewayInv, NEW r \in Requests, HasEvent(r)
    PROVE  NextEvent(r) \in EventType
<1>b. Before(r)
  BY BeforeStep
<1>1. att[Current(r)] \in AttemptType /\ att[Current(r)].events # << >>
  BY <1>b DEF Before, AttemptsTyped, HasEvent
<1>2. att[Current(r)].events \in Seq(EventType)
  BY <1>1 DEF AttemptType
<1> QED
  BY <1>1, <1>2, HeadTailProperties DEF NextEvent

(* The four failures of an attempt take the failure branch with an error     *)
(* class.                                                                    *)
LEMMA AttemptFailures ==
    ASSUME GatewayInv, NEW r \in Requests,
           DialFailed(r) \/ GenerateFailed(r) \/ FirstFailed(r) \/ FirstClosed(r)
    PROVE  \E class \in ErrorClasses :
               pc[r] \in {"dial", "generate", "first"} /\ AttemptFailed(r, class)
<1>1. CASE DialFailed(r)
  BY <1>1 DEF DialFailed, ErrorClasses
<1>2. CASE GenerateFailed(r)
  BY <1>2 DEF GenerateFailed, ErrorClasses, AbortClass
<1>3. CASE FirstFailed(r)
  <2>1. NextEvent(r) \in EventType /\ NextEvent(r).kind \in {"error", "finishError"}
    BY <1>3, ChannelEvent DEF FirstFailed
  <2>2. FailureClass(NextEvent(r)) \in ErrorClasses
    BY <2>1 DEF FailureClass, EventType, ErrorClasses
  <2> QED
    BY <1>3, <2>2 DEF FirstFailed
<1>4. CASE FirstClosed(r)
  BY <1>4 DEF FirstClosed, ErrorClasses
<1> QED
  BY <1>1, <1>2, <1>3, <1>4

(* Pool.Client finds or gets a connection, or starts to dial. *)
LEMMA ConnectSteps ==
    ASSUME GatewayInv, NEW r \in Requests, PoolClient(r) \/ Dialed(r) \/ GenerateOpened(r)
    PROVE  StepKeeps(r)
<1>b. Before(r)
  BY BeforeStep
<1> USE <1>b DEF Before
<1> DEFINE i == Current(r)
<1>1. /\ pc[r] \in OpeningPCs
      /\ UNCHANGED <<attempt, excluded, failure, status, event, ctx, client, sse>>
  BY DEF PoolClient, Dialed, GenerateOpened, OpeningPCs, clientVars
<1>2. PICK label \in {"dial", "generate", "first"} : pc' = [pc EXCEPT ![r] = label]
  BY DEF PoolClient, Dialed, GenerateOpened, GoTo
<1>3. att[i].worker \in Workers /\ att[i].state = "none" /\ i \in Attempts /\ i = <<r, attempt[r]>>
  BY <1>1 DEF ControlInv, CurrentWorker, OpeningPCs
<1>4. /\ pool' \in [Workers -> Connections] /\ open' \subseteq Attempts
      /\ UNCHANGED dropping
      /\ \/ att' = att /\ label = "dial"
         \/ att' = [att EXCEPT ![i].conn = pool'[att[i].worker]] /\ label = "generate"
         \/ att' = [att EXCEPT ![i].state = "recv"] /\ label = "first"
  <2>0. /\ pool \in [Workers -> Connections] /\ open \subseteq Attempts
        /\ CurrentWorker(r) = att[i].worker /\ pc'[r] = label
        /\ Attempts \subseteq Connections
    BY <1>2 DEF AttemptsTyped, CurrentWorker, Connections
  <2>1. CASE PoolClient(r)
    BY <1>2, <1>3, <2>0, <2>1 DEF PoolClient, GoTo, poolVars
  <2>2. CASE Dialed(r)
    BY <1>2, <1>3, <2>0, <2>2 DEF Dialed, Store, GoTo
  <2>3. CASE GenerateOpened(r)
    BY <1>2, <1>3, <2>0, <2>3 DEF GenerateOpened, GoTo, poolVars
  <2> QED
    BY <2>1, <2>2, <2>3
<1> HIDE DEF i
<1>5. /\ att' \in [Attempts -> AttemptType]
      /\ \A j \in Attempts : j # i => att'[j] = att[j]
      /\ att'[i].worker = att[i].worker
      /\ att'[i].canceled = att[i].canceled
      /\ att'[i].expected = att[i].expected
      /\ att'[i].events = att[i].events
      /\ att'[i].state = IF label = "first" THEN "recv" ELSE "none"
  <2>0. att \in [Attempts -> AttemptType]
    BY DEF AttemptsTyped
  <2>1. CASE att' = att /\ label = "dial"
    BY <1>3, <2>0, <2>1
  <2>2. CASE att' = [att EXCEPT ![i].conn = pool'[att[i].worker]] /\ label = "generate"
    <3> DEFINE c == pool'[att[i].worker]
    <3>0. c \in Connections
      BY <1>3, <1>4
    <3> HIDE DEF c
    <3>1. AttemptBecomes(i, att[i].worker, c, att[i].canceled, att[i].state, att[i].expected,
                         att[i].holding, att[i].events)
      BY <1>3, <2>0, <2>2, <3>0, ConnectEffect DEF c
    <3> QED
      BY <1>3, <2>2, <3>1 DEF AttemptBecomes, HasFields
  <2>3. CASE att' = [att EXCEPT ![i].state = "recv"] /\ label = "first"
    <3>1. AttemptBecomes(i, att[i].worker, att[i].conn, att[i].canceled, "recv", att[i].expected,
                         att[i].holding, att[i].events)
      BY <1>3, <2>0, <2>3, OpenEffect
    <3> QED
      BY <1>3, <2>3, <3>1 DEF AttemptBecomes, HasFields
  <2> QED
    BY <1>4, <2>1, <2>2, <2>3
<1>6. StateTyped'
  BY <1>1 DEF StateTyped
<1>7. AttemptsTyped'
  <2>1. \A j \in Attempts : att'[j].events = att[j].events
    BY <1>5
  <2> QED
    BY <1>4, <1>5, <2>1 DEF AttemptsTyped
<1>9. \A j \in Attempts : AttemptInv(j)'
  <2>1. ASSUME NEW j \in Attempts, j # i PROVE AttemptInv(j)'
    BY <1>5, <2>1 DEF AttemptInv
  <2>2. ASSUME NEW j \in Attempts, j = i PROVE AttemptInv(j)'
    BY <1>3, <1>5, <2>2 DEF AttemptInv
  <2> QED
    BY <2>1, <2>2
<1>10. OthersKept(r)
  <2>1. \A j \in Attempts : j # i => Kept(j)
    BY <1>5 DEF Kept
  <2> QED
    BY <1>1, <1>2, <1>3, <2>1 DEF OthersKept
<1>11. RequestInv(r)'
  <2>1. pc'[r] = label /\ Current(r)' = i
    BY <1>1, <1>2 DEF Current, i
  <2>2. attempt[r] = 1 => att'[<<r, 2>>] = att[<<r, 2>>]
    BY <1>3, <1>5
  <2>3. /\ att'[<<r, 1>>].worker = att[<<r, 1>>].worker
        /\ att'[<<r, 1>>].canceled = att[<<r, 1>>].canceled
    BY <1>3, <1>5
  <2>4. att'[<<r, 2>>].worker = att[<<r, 2>>].worker
    BY <1>3, <1>5
  <2>5. ControlInv(r)'
    BY <1>1, <1>3, <1>5, <2>1, <2>2 DEF ControlInv, CurrentWorker, EarlyPCs, OpeningPCs
  <2>6. RetryInv(r)'
    BY <1>1, <2>1, <2>3, <2>4 DEF RetryInv, OpeningPCs, UntriedPCs
  <2>7. ReplyInv(r)'
    BY <1>1, <2>1, <2>3 DEF ReplyInv, OpeningPCs, UncommittedPCs, CommittedPCs
  <2> QED
    BY <2>5, <2>6, <2>7 DEF RequestInv
<1> QED
  BY <1>6, <1>7, <1>9, <1>10, <1>11 DEF StepKeeps

(* Where a handler goes from the first event on. *)
LatePCs == {"headers", "forward", "write", "done", "release", "return", "flush", "closed"}

(* A step of handleChat from the first event on: it leaves the attempt's     *)
(* number, the worker and the pool alone.                                    *)
LateHandler(r, label) ==
    /\ pc' = [pc EXCEPT ![r] = label]
    /\ UNCHANGED <<attempt, excluded, failure, poolVars>>
    /\ label \in CommittedPCs => status'[r] = 200
    /\ status'[r] \in {200, status[r]}
    /\ label \in {"headers", "write"} => event'[r].kind \in {"token", "completion", "error"}
    /\ \A q \in Requests : q # r => status'[q] = status[q] /\ event'[q] = event[q]
    /\ StateTyped'

(* What such a step does to the request's attempt: it may cancel it or take   *)
(* an event from its channel.                                                *)
LateAttempt(i) ==
    /\ att' \in [Attempts -> AttemptType]
    /\ \A j \in Attempts : j # i => att'[j] = att[j]
    /\ att'[i].worker = att[i].worker
    /\ att'[i].conn = att[i].conn
    /\ att[i].canceled => att'[i].canceled
    /\ att'[i].state = att[i].state
    /\ att'[i].expected = att[i].expected
    /\ att'[i].holding = att[i].holding
    /\ Len(att'[i].events) <= SSEBufferSize
    /\ att'[i].state # "none" \/ att'[i].events = att[i].events

(* Such a step keeps the invariant. *)
LEMMA LateStep ==
    ASSUME GatewayInv, NEW r \in Requests,
           NEW label \in LatePCs,
           LateHandler(r, label), LateAttempt(Current(r))
    PROVE  StepKeeps(r)
<1>b. Before(r)
  BY BeforeStep
<1> USE <1>b DEF Before
<1> DEFINE i == Current(r)
<1>1. i \in Attempts /\ i = <<r, attempt[r]>>
  OBVIOUS
<1>2. LateAttempt(i)
  OBVIOUS
<1> HIDE DEF i
<1>3. AttemptsTyped'
  <2>1. \A j \in Attempts : Len(att'[j].events) <= SSEBufferSize
    BY <1>1, <1>2 DEF AttemptsTyped, LateAttempt
  <2> QED
    BY <1>2, <2>1 DEF AttemptsTyped, LateAttempt, LateHandler, poolVars
<1>5. \A j \in Attempts : AttemptInv(j)'
  <2>1. ASSUME NEW j \in Attempts, j # i PROVE AttemptInv(j)'
    BY <1>2, <2>1 DEF AttemptInv, LateAttempt
  <2>2. ASSUME NEW j \in Attempts, j = i PROVE AttemptInv(j)'
    <3>1. AttemptInv(j)
      OBVIOUS
    <3> QED
      BY <1>2, <2>2, <3>1 DEF AttemptInv, LateAttempt
  <2> QED
    BY <2>1, <2>2
<1>6. OthersKept(r)
  <2>1. \A j \in Attempts : j # i => Kept(j)
    BY <1>2 DEF Kept, LateAttempt
  <2>2. \A j \in Attempts : j[1] # r => Kept(j)
    BY <1>1, <2>1
  <2> QED
    BY <2>2 DEF OthersKept, LateHandler
<1>7. RequestInv(r)'
  <2>1. pc'[r] = label /\ attempt'[r] = attempt[r]
    BY DEF LateHandler
  <2>2. attempt[r] = 1 => att'[<<r, 2>>] = att[<<r, 2>>]
    BY <1>1, <1>2 DEF LateAttempt
  <2>3. /\ att'[<<r, 1>>].worker = att[<<r, 1>>].worker
        /\ att[<<r, 1>>].canceled => att'[<<r, 1>>].canceled
    BY <1>1, <1>2 DEF LateAttempt
  <2>4. att'[<<r, 2>>].worker = att[<<r, 2>>].worker
    BY <1>1, <1>2 DEF LateAttempt
  <2>5. ControlInv(r)'
    BY <2>1, <2>2 DEF ControlInv, EarlyPCs, OpeningPCs, LateHandler, LatePCs
  <2>6. RetryInv(r)'
    BY <2>1, <2>3, <2>4 DEF RetryInv, UntriedPCs, LateHandler, LatePCs
  <2>7. ReplyInv(r)'
    BY <2>1, <2>3 DEF ReplyInv, UncommittedPCs, LateHandler, LatePCs
  <2> QED
    BY <2>5, <2>6, <2>7 DEF RequestInv
<1>8. StateTyped'
  BY DEF LateHandler
<1> QED
  BY <1>3, <1>5, <1>6, <1>7, <1>8 DEF StepKeeps

(* The same for a step that leaves all attempts alone. *)
LEMMA LateStepAlone ==
    ASSUME GatewayInv, NEW r \in Requests,
           NEW label \in LatePCs,
           pc' = [pc EXCEPT ![r] = label],
           UNCHANGED <<attempt, excluded, failure, poolVars, status, att>>,
           label \in CommittedPCs => status[r] = 200,
           label \in {"headers", "write"} => event'[r].kind \in {"token", "completion", "error"},
           \A q \in Requests : q # r => event'[q] = event[q],
           StateTyped'
    PROVE  StepKeeps(r)
<1>b. Before(r)
  BY BeforeStep
<1>1. att \in [Attempts -> AttemptType] /\ Len(att[Current(r)].events) <= SSEBufferSize
  BY <1>b DEF Before, AttemptsTyped
<1>2. LateAttempt(Current(r))
  BY <1>1 DEF LateAttempt
<1>3. LateHandler(r, label)
  BY DEF LateHandler
<1> QED
  BY <1>2, <1>3, LateStep

(* The same for a step that cancels the attempt. *)
LEMMA LateStepCancels ==
    ASSUME GatewayInv, NEW r \in Requests,
           NEW label \in LatePCs,
           pc' = [pc EXCEPT ![r] = label],
           UNCHANGED <<attempt, excluded, failure, poolVars, status>>,
           CancelAttempt(r), label = "release",
           \A q \in Requests : q # r => event'[q] = event[q],
           StateTyped'
    PROVE  StepKeeps(r)
<1>b. Before(r)
  BY BeforeStep
<1> DEFINE i == Current(r)
<1>1. att \in [Attempts -> AttemptType] /\ Len(att[i].events) <= SSEBufferSize /\ i \in Attempts
  BY <1>b DEF Before, AttemptsTyped
<1>2. AttemptBecomes(i, att[i].worker, att[i].conn, TRUE, att[i].state, att[i].expected,
                     att[i].holding, att[i].events)
  BY <1>1, CancelEffect DEF CancelAttempt
<1> HIDE DEF i
<1>3. LateAttempt(i)
  BY <1>1, <1>2 DEF AttemptBecomes, HasFields, LateAttempt
<1>4. LateHandler(r, label)
  BY DEF LateHandler, CommittedPCs
<1> QED
  BY <1>3, <1>4, LateStep DEF i

(* The same for a step that takes an event from the channel. *)
LEMMA LateStepTakes ==
    ASSUME GatewayInv, NEW r \in Requests, NEW label \in {"headers", "write"},
           pc' = [pc EXCEPT ![r] = label],
           UNCHANGED <<attempt, excluded, failure, poolVars>>,
           HasEvent(r), TakeEvent(r),
           status'[r] = 200,
           event'[r].kind \in {"token", "completion", "error"},
           \A q \in Requests : q # r => status'[q] = status[q] /\ event'[q] = event[q],
           StateTyped'
    PROVE  StepKeeps(r)
<1>b. Before(r)
  BY BeforeStep
<1> DEFINE i == Current(r)
<1>1. /\ att \in [Attempts -> AttemptType] /\ Len(att[i].events) <= SSEBufferSize /\ i \in Attempts
      /\ att[i].state # "none" /\ att[i].events # << >> /\ att[i].events \in Seq(EventType)
  BY <1>b DEF Before, AttemptsTyped, AttemptInv, HasEvent, AttemptType
<1>2. AttemptBecomes(i, att[i].worker, att[i].conn, att[i].canceled, att[i].state,
                     att[i].expected, att[i].holding, Tail(att[i].events))
  BY <1>1, TakeEffect DEF TakeEvent
<1>3. Len(Tail(att[i].events)) <= SSEBufferSize
  BY <1>1, HeadTailProperties, BufferAssumption
<1> HIDE DEF i
<1>4. LateAttempt(i)
  BY <1>1, <1>2, <1>3 DEF AttemptBecomes, HasFields, LateAttempt
<1>5. LateHandler(r, label)
  BY DEF LateHandler
<1>6. label \in LatePCs
  BY DEF LatePCs
<1> QED
  BY <1>4, <1>5, <1>6, LateStep DEF i

(* Contexts keep their type. *)
LEMMA ContextTyped ==
    ASSUME StateTyped, NEW r \in Requests, CancelContext(r)
    PROVE  ctx' \in [Requests -> {"live", "deadline", "canceled"}]
BY DEF StateTyped, CancelContext

(* An event appended to a stream. *)
LEMMA StreamTyped ==
    ASSUME StateTyped, NEW r \in Requests, NEW e \in SentType,
           sse' = [sse EXCEPT ![r] = Append(@, e)]
    PROVE  sse' \in [Requests -> Seq(SentType)]
<1>1. sse[r] \in Seq(SentType)
  BY DEF StateTyped
<1>2. Append(sse[r], e) \in Seq(SentType)
  BY <1>1, AppendProperties
<1> QED
  BY <1>2 DEF StateTyped

(* [DONE] is an event of the stream. *)
LEMMA DoneTyped == Sent("done", 0, 0) \in SentType
BY TokensAssumption DEF Sent, SentType

(* Events written to the client come from the channel. *)
LEMMA ForwardSteps ==
    ASSUME GatewayInv, NEW r \in Requests,
           Commit(r) \/ ForwardEvent(r) \/ ForwardClosed(r) \/ ForwardAborted(r)
    PROVE  StepKeeps(r)
<1>b. Before(r)
  BY BeforeStep
<1> USE <1>b DEF Before
<1>1. CASE Commit(r)
  <2>1. /\ UNCHANGED <<attempt, excluded, failure, ctx, client, sse, poolVars>>
        /\ pc' = [pc EXCEPT ![r] = "headers"]
        /\ status' = [status EXCEPT ![r] = 200]
        /\ event' = [event EXCEPT ![r] = NextEvent(r)]
        /\ HasEvent(r) /\ TakeEvent(r)
        /\ NextEvent(r).kind \in {"token", "completion"}
    BY <1>1 DEF Commit, GoTo, Reply, clientVars
  <2>2. NextEvent(r) \in EventType
    BY <2>1, ChannelEvent
  <2>3. StateTyped'
    BY <2>1, <2>2 DEF StateTyped
  <2>4. /\ status'[r] = 200 /\ event'[r].kind \in {"token", "completion", "error"}
        /\ \A q \in Requests : q # r => status'[q] = status[q] /\ event'[q] = event[q]
    BY <2>1 DEF StateTyped
  <2>5. UNCHANGED <<attempt, excluded, failure, poolVars>>
    BY <2>1
  <2> QED
    BY <2>1, <2>3, <2>4, <2>5, LateStepTakes
<1>2. CASE ForwardEvent(r)
  <2>1. /\ UNCHANGED <<attempt, excluded, failure, status, ctx, client, sse, poolVars>>
        /\ pc' = [pc EXCEPT ![r] = "write"]
        /\ event' = [event EXCEPT ![r] = StreamEvent(NextEvent(r))]
        /\ HasEvent(r) /\ TakeEvent(r)
        /\ pc[r] = "forward"
    BY <1>2 DEF ForwardEvent, GoTo, clientVars
  <2>2. NextEvent(r) \in EventType
    BY <2>1, ChannelEvent
  <2>3. /\ StreamEvent(NextEvent(r)) \in EventType
        /\ StreamEvent(NextEvent(r)).kind \in {"token", "completion", "error"}
    <3>1. FailureClass(NextEvent(r)) \in ErrorClasses
      BY <2>2 DEF FailureClass, EventType, ErrorClasses
    <3>2. /\ Failure(FailureClass(NextEvent(r))) \in EventType
          /\ Failure(FailureClass(NextEvent(r))).kind = "error"
      BY <3>1 DEF Failure, EventType
    <3> QED
      BY <2>2, <3>2 DEF StreamEvent
  <2>4. StateTyped'
    BY <2>1, <2>3 DEF StateTyped
  <2>5. /\ status'[r] = 200 /\ event'[r].kind \in {"token", "completion", "error"}
        /\ \A q \in Requests : q # r => status'[q] = status[q] /\ event'[q] = event[q]
    BY <2>1, <2>3 DEF StateTyped, ReplyInv, CommittedPCs
  <2>6. UNCHANGED <<attempt, excluded, failure, poolVars>>
    BY <2>1
  <2> QED
    BY <2>1, <2>4, <2>5, <2>6, LateStepTakes
<1>3. CASE ForwardClosed(r)
  <2>1. /\ UNCHANGED <<attempt, excluded, failure, status, ctx, client, sse, att, poolVars>>
        /\ pc' = [pc EXCEPT ![r] = "write"]
        /\ event' = [event EXCEPT ![r] = Failure("retryable")]
        /\ pc[r] = "forward"
    BY <1>3 DEF ForwardClosed, GoTo, clientVars
  <2>2. Failure("retryable") \in EventType /\ Failure("retryable").kind = "error"
    BY DEF Failure, EventType, ErrorClasses
  <2>3. StateTyped'
    BY <2>1, <2>2 DEF StateTyped
  <2>4. /\ event'[r].kind \in {"token", "completion", "error"}
        /\ \A q \in Requests : q # r => event'[q] = event[q]
        /\ status[r] = 200
    BY <2>1, <2>2 DEF StateTyped, ReplyInv, CommittedPCs
  <2>5. UNCHANGED <<attempt, excluded, failure, poolVars, status, att>>
    BY <2>1
  <2> QED
    BY <2>1, <2>3, <2>4, <2>5, LateStepAlone DEF LatePCs
<1>4. CASE ForwardAborted(r)
  <2>1. /\ UNCHANGED <<attempt, excluded, failure, status, event, ctx, client, sse, poolVars>>
        /\ pc' = [pc EXCEPT ![r] = "release"]
        /\ CancelAttempt(r)
    BY <1>4 DEF ForwardAborted, GoTo, clientVars
  <2>2. StateTyped' /\ UNCHANGED <<attempt, excluded, failure, poolVars, status>>
    BY <2>1 DEF StateTyped
  <2> QED
    BY <2>1, <2>2, LateStepCancels DEF LatePCs
<1> QED
  BY <1>1, <1>2, <1>3, <1>4

(* The writes, and the deferred calls after them. *)
LEMMA WriteSteps ==
    ASSUME GatewayInv, NEW r \in Requests,
           WriteAccepted(r) \/ WriteLost(r) \/ Unbounded(r)
    PROVE  StepKeeps(r)
<1>b. Before(r)
  BY BeforeStep
<1> USE <1>b DEF Before
<1>0. AfterWrite(r) \in {"forward", "done"} /\ {"forward", "done", "release"} \subseteq LatePCs
  BY DEF AfterWrite, LatePCs
<1>1. CASE WriteAccepted(r)
  <2>1. /\ UNCHANGED <<attempt, excluded, failure, status, ctx, client, att, poolVars>>
        /\ pc' = [pc EXCEPT ![r] = AfterWrite(r)]
        /\ event' = [event EXCEPT ![r] = NoEvent]
        /\ pc[r] = "write"
        /\ sse' = [sse EXCEPT ![r] = Append(@, Sent(event[r].kind, attempt[r], event[r].index))]
    BY <1>1 DEF WriteAccepted, GoTo, clientVars
  <2>2. Sent(event[r].kind, attempt[r], event[r].index) \in SentType
    <3>1. /\ event[r].kind \in {"token", "completion", "error"}
          /\ event[r] \in EventType \union {NoEvent}
      BY <2>1 DEF ControlInv, StateTyped
    <3>2. event[r].index \in 0 .. MaxTokens
      BY <3>1, TokensAssumption DEF EventType, NoEvent
    <3> QED
      BY <3>1, <3>2 DEF Sent, SentType
  <2>3. StateTyped'
    BY <2>1, <2>2, StreamTyped DEF StateTyped
  <2>4. \A q \in Requests : q # r => event'[q] = event[q]
    BY <2>1 DEF StateTyped
  <2>5. status[r] = 200 /\ UNCHANGED <<attempt, excluded, failure, poolVars, status, att>>
    BY <2>1 DEF ReplyInv, CommittedPCs
  <2>6. AfterWrite(r) \in LatePCs /\ AfterWrite(r) \notin {"headers", "write"}
    BY <1>0
  <2> QED
    BY <2>1, <2>3, <2>4, <2>5, <2>6, LateStepAlone
<1>2. CASE WriteLost(r)
  <2>1. /\ UNCHANGED <<attempt, excluded, failure, status, sse, poolVars>>
        /\ event' = [event EXCEPT ![r] = NoEvent]
        /\ pc[r] = "write"
        /\ client' = [client EXCEPT ![r] = "gone"]
        /\ CancelContext(r)
        /\ \/ pc' = [pc EXCEPT ![r] = AfterWrite(r)] /\ UNCHANGED att
           \/ pc' = [pc EXCEPT ![r] = "release"] /\ CancelAttempt(r)
    BY <1>2 DEF WriteLost, GoTo
  <2>2. StateTyped'
    BY <2>1, ContextTyped DEF StateTyped
  <2>3. \A q \in Requests : q # r => event'[q] = event[q]
    BY <2>1 DEF StateTyped
  <2>4. status[r] = 200 /\ UNCHANGED <<attempt, excluded, failure, poolVars, status>>
    BY <2>1 DEF ReplyInv, CommittedPCs
  <2>5. CASE pc' = [pc EXCEPT ![r] = AfterWrite(r)] /\ UNCHANGED att
    <3>1. UNCHANGED <<attempt, excluded, failure, poolVars, status, att>>
      BY <2>4, <2>5
    <3>2. AfterWrite(r) \in LatePCs /\ AfterWrite(r) \notin {"headers", "write"}
      BY <1>0
    <3> QED
      BY <2>2, <2>3, <2>4, <2>5, <3>1, <3>2, LateStepAlone
  <2>6. CASE pc' = [pc EXCEPT ![r] = "release"] /\ CancelAttempt(r)
    BY <1>0, <2>2, <2>3, <2>4, <2>6, LateStepCancels
  <2> QED
    BY <2>1, <2>5, <2>6
<1>3. CASE WriteDone(r)
  <2>1. /\ UNCHANGED <<attempt, excluded, failure, status, event, ctx, client, poolVars>>
        /\ pc' = [pc EXCEPT ![r] = "release"]
        /\ CancelAttempt(r)
        /\ \/ sse' = [sse EXCEPT ![r] = Append(@, Sent("done", 0, 0))]
           \/ sse' = [sse EXCEPT ![r] = @]
    BY <1>3, Zenon DEF WriteDone, GoTo
  <2>2. sse' \in [Requests -> Seq(SentType)]
    <3>1. CASE sse' = [sse EXCEPT ![r] = Append(@, Sent("done", 0, 0))]
      BY <3>1, DoneTyped, StreamTyped
    <3>2. CASE sse' = [sse EXCEPT ![r] = @]
      BY <3>2 DEF StateTyped
    <3> QED
      BY <2>1, <3>1, <3>2
  <2>3. StateTyped' /\ UNCHANGED <<attempt, excluded, failure, poolVars, status>>
    BY <2>1, <2>2 DEF StateTyped
  <2> QED
    BY <1>0, <2>1, <2>3, LateStepCancels
<1>4. CASE FlushHeaders(r) \/ FinishResponse(r)
  <2>1. PICK label \in {"write", "closed"} :
          /\ UNCHANGED <<attempt, excluded, failure, status, event, ctx, client, sse, att, poolVars>>
          /\ pc' = [pc EXCEPT ![r] = label]
          /\ label = "write" => pc[r] = "headers"
    BY <1>4 DEF FlushHeaders, FinishResponse, GoTo, clientVars
  <2>2. /\ label \in CommittedPCs => status[r] = 200
        /\ label \in {"headers", "write"} => event'[r].kind \in {"token", "completion", "error"}
        /\ label \in LatePCs
    BY <2>1 DEF CommittedPCs, LatePCs, ReplyInv, ControlInv
  <2>3. StateTyped' /\ UNCHANGED <<attempt, excluded, failure, poolVars, status, att>>
    BY <2>1 DEF StateTyped
  <2> QED
    BY <2>1, <2>2, <2>3, LateStepAlone
<1> QED
  BY <1>1, <1>2, <1>3, <1>4 DEF Unbounded

(* The deferred Release and cancel. *)
LEMMA ReturnSteps ==
    ASSUME GatewayInv, NEW r \in Requests, Release(r) \/ Return(r)
    PROVE  StepKeeps(r)
<1>b. Before(r)
  BY BeforeStep
<1> USE <1>b DEF Before
<1>1. PICK label \in {"return", "flush"} :
        /\ UNCHANGED <<attempt, excluded, failure, status, event, client, sse, att, poolVars>>
        /\ pc' = [pc EXCEPT ![r] = label]
        /\ ctx' = ctx \/ CancelContext(r)
  BY DEF Release, Return, GoTo, clientVars
<1>2. StateTyped'
  BY <1>1, ContextTyped DEF StateTyped
<1>3. /\ UNCHANGED <<attempt, excluded, failure, poolVars, status, att>>
      /\ label \in CommittedPCs => status[r] = 200
      /\ label \in {"headers", "write"} => event'[r].kind \in {"token", "completion", "error"}
      /\ pc' = [pc EXCEPT ![r] = label]
      /\ label \in LatePCs
      /\ \A q \in Requests : q # r => event'[q] = event[q]
  BY <1>1 DEF CommittedPCs, LatePCs
<1> QED
  BY <1>2, <1>3, LateStepAlone

(* The client and the clock. *)
LEMMA ClientSteps ==
    ASSUME GatewayInv, NEW r \in Requests,
           DeadlineExpires(r) \/ Disconnect(r) \/ DisconnectNoticed(r) \/ Stall(r) \/ Resume(r)
    PROVE  StepKeeps(r)
<1>b. Before(r)
  BY BeforeStep
<1> USE <1>b DEF Before
<1>1. UNCHANGED <<pc, attempt, excluded, failure, status, event, sse, att, poolVars>>
  BY DEF DeadlineExpires, Disconnect, DisconnectNoticed, Stall, Resume, handlerVars, clientVars
<1>2. ctx' \in [Requests -> {"live", "deadline", "canceled"}]
  <2>1. CancelContext(r) \/ ctx' = [ctx EXCEPT ![r] = "deadline"] \/ ctx' = ctx
    BY DEF DeadlineExpires, Disconnect, DisconnectNoticed, Stall, Resume
  <2>2. CASE ctx' = [ctx EXCEPT ![r] = "deadline"]
    BY <2>2 DEF StateTyped
  <2>3. CASE ctx' = ctx
    BY <2>3 DEF StateTyped
  <2> QED
    BY <2>1, <2>2, <2>3, ContextTyped
<1>3. client' \in [Requests -> {"reading", "stalled", "gone"}]
  <2>1. PICK now \in {"reading", "stalled", "gone"} :
           client' \in {client, [client EXCEPT ![r] = now]}
    BY DEF DeadlineExpires, Disconnect, DisconnectNoticed, Stall, Resume, clientVars
  <2>2. CASE client' = [client EXCEPT ![r] = now]
    BY <2>2 DEF StateTyped
  <2>3. CASE client' = client
    BY <2>3 DEF StateTyped
  <2> QED
    BY <2>1, <2>2, <2>3
<1>4. StateTyped'
  BY <1>1, <1>2, <1>3 DEF StateTyped
<1>5. AttemptsTyped' /\ \A i \in Attempts : AttemptInv(i)' /\ Kept(i)
  BY <1>1, AttemptsUntouched
<1>6. OthersKept(r)
  BY <1>1, <1>5 DEF OthersKept
<1>7. RequestInv(r)'
  BY <1>1 DEF RequestInv, ControlInv, RetryInv, ReplyInv, Current, CurrentWorker
<1> QED
  BY <1>4, <1>5, <1>6, <1>7 DEF StepKeeps

-----------------------------------------------------------------------------
(* The receivers.  Whatever a worker sends, a receiver holds a well-typed    *)
(* event next, delivers the one it holds, or drops it and exits.             *)
Received(i) ==
    \E e \in EventType, n \in 0 .. MaxTokens :
        /\ att[i].state = "recv"
        /\ AttemptBecomes(i, att[i].worker, att[i].conn, att[i].canceled, "deliver", n, e,
                          att[i].events)
        /\ e.kind = "token" => e.index = att[i].expected /\ n = att[i].expected + 1
        /\ e.kind # "token" => n = att[i].expected

Delivered(i) ==
    /\ att[i].state = "deliver"
    /\ Len(att[i].events) < SSEBufferSize
    /\ att[i].holding \in EventType
    /\ IF att[i].holding.kind = "token"
       THEN AttemptBecomes(i, att[i].worker, att[i].conn, att[i].canceled, "recv",
                           att[i].expected, NoEvent, Append(att[i].events, att[i].holding))
       ELSE AttemptBecomes(i, att[i].worker, NoConn, TRUE, "exited", att[i].expected, NoEvent,
                           Append(att[i].events, att[i].holding))

Discarded(i) ==
    /\ att[i].state = "deliver"
    /\ AttemptBecomes(i, att[i].worker, NoConn, TRUE, "exited", att[i].expected, NoEvent,
                      att[i].events)

ReceiverStep(i) ==
    \/ \E wire \in WireChunks : RecvChunk(i, wire)
    \/ \E class \in WorkerFailures : RecvError(i, class)
    \/ RecvAborted(i)
    \/ DeliverStep(i)

(* receiveAttempt and deliverAttempt do one of the three, whatever the       *)
(* worker sends.                                                             *)
LEMMA ReceiverEffects ==
    ASSUME GatewayInv, NEW i \in Attempts, ReceiverStep(i)
    PROVE  Received(i) \/ Delivered(i) \/ Discarded(i)
<1>1. att \in [Attempts -> AttemptType] /\ AttemptInv(i)
  BY DEF GatewayInv, TypeOK
<1>2. att[i] \in AttemptType
  BY <1>1
<1>3. att[i].expected \in 0 .. MaxTokens
  BY <1>2 DEF AttemptType
<1>4. ASSUME NEW wire \in WireChunks, RecvChunk(i, wire) PROVE Received(i)
  <2> DEFINE e == ChunkEvent(wire, att[i].expected)
             n == IF e.kind = "token" THEN att[i].expected + 1 ELSE att[i].expected
  <2>1. /\ e \in EventType
        /\ e.kind = "token" => e.index = att[i].expected /\ ~wire.final
    <3> DEFINE bad == ~ChunkFromProto(wire) \/ ~ValidateChunk(wire, att[i].expected)
    <3>1. CASE bad
      <4>1. e = Failure("retryable")
        BY <3>1, Zenon DEF ChunkEvent
      <4> QED
        BY <4>1 DEF Failure, EventType, ErrorClasses
    <3>2. CASE ~bad /\ wire.final /\ wire.reason = "error"
      <4>1. e = GenerationError(wire.index)
        BY <3>2, Zenon DEF ChunkEvent
      <4> QED
        BY <1>3, <3>2, <4>1 DEF ValidateChunk, GenerationError, EventType
    <3>3. CASE ~bad /\ wire.final /\ wire.reason # "error"
      <4>1. e = Completion(wire.index)
        BY <3>3, Zenon DEF ChunkEvent
      <4> QED
        BY <1>3, <3>3, <4>1 DEF ValidateChunk, Completion, EventType
    <3>4. CASE ~bad /\ ~wire.final
      <4>1. e = Token(wire.index)
        BY <3>4, Zenon DEF ChunkEvent
      <4> QED
        BY <1>3, <3>4, <4>1 DEF ValidateChunk, Token, EventType
    <3> QED
      BY <3>1, <3>2, <3>3, <3>4
  <2>2. n \in 0 .. MaxTokens
    BY <1>3, <1>4, <2>1, TokensAssumption DEF RecvChunk
  <2>3. att[i].state = "recv"
    BY <1>4 DEF RecvChunk
  <2> HIDE DEF e
  <2>4. att' = [att EXCEPT ![i].state = "deliver", ![i].holding = e, ![i].expected = n]
    BY <1>4, Zenon DEF RecvChunk, e
  <2>5. AttemptBecomes(i, att[i].worker, att[i].conn, att[i].canceled, "deliver", n, e,
                       att[i].events)
    BY <1>1, <2>1, <2>2, <2>4, RecvEffect
  <2> QED
    BY <2>1, <2>2, <2>3, <2>5 DEF Received
<1>5. ASSUME NEW class \in ErrorClasses, att[i].state = "recv",
             att' = [att EXCEPT ![i].state = "deliver", ![i].holding = Failure(class)]
      PROVE  Received(i)
  <2>1. Failure(class) \in EventType /\ Failure(class).kind = "error"
    BY DEF Failure, EventType
  <2>2. att' = [att EXCEPT ![i] = [att[i] EXCEPT !.state = "deliver", !.holding = Failure(class)]]
    BY <1>5, Zenon
  <2>3. ASSUME NEW a \in AttemptType, NEW f \in EventType
        PROVE  HasFields([a EXCEPT !.state = "deliver", !.holding = f], a.worker, a.conn,
                         a.canceled, "deliver", a.expected, f, a.events)
    BY DEF AttemptType, HasFields
  <2>4. AttemptBecomes(i, att[i].worker, att[i].conn, att[i].canceled, "deliver",
                       att[i].expected, Failure(class), att[i].events)
    BY <1>1, <1>2, <2>1, <2>2, <2>3, AttemptReplaced
  <2> QED
    BY <1>3, <1>5, <2>1, <2>4 DEF Received
<1>6. ASSUME NEW class \in WorkerFailures, RecvError(i, class) PROVE Received(i)
  <2>1. class \in ErrorClasses
    BY FailureAssumption DEF ErrorClasses
  <2> QED
    BY <1>5, <1>6, <2>1 DEF RecvError
<1>7. CASE RecvAborted(i)
  <2>1. AbortClass(i) \in ErrorClasses
    BY DEF AbortClass, ErrorClasses
  <2> QED
    BY <1>5, <1>7, <2>1 DEF RecvAborted
<1>8. CASE Deliver(i)
  <2>1. att[i].state = "deliver" /\ Len(att[i].events) < SSEBufferSize
    BY <1>8 DEF Deliver
  <2>2. att[i].holding \in EventType
    BY <1>1, <2>1 DEF AttemptInv
  <2> QED
    BY <1>1, <1>8, <2>1, <2>2, DeliverEffect DEF Delivered
<1>9. CASE DeliverCanceled(i) \/ SlowClient(i)
  <2>1. att[i].state = "deliver" /\ att' = [att EXCEPT ![i] = ReceiverExit(i)]
    BY <1>9 DEF DeliverCanceled, SlowClient
  <2> QED
    BY <1>1, <2>1, ExitEffect DEF Discarded
<1> QED
  BY <1>4, <1>6, <1>7, <1>8, <1>9 DEF ReceiverStep, DeliverStep

(* A receiver's step seen from the handlers. *)
LEMMA ReceiverKeeps ==
    ASSUME GatewayInv, NEW i \in Attempts, ReceiverStep(i)
    PROVE  GatewayInv'
<1>1. UNCHANGED <<pc, attempt, excluded, failure, status, event, ctx, client, sse, poolVars,
                  used, leases>>
  BY DEF ReceiverStep, RecvChunk, RecvError, RecvAborted, DeliverStep, Deliver, DeliverCanceled,
         SlowClient, handlerVars, clientVars, budgetVars
<1>2. LeaseInv' /\ LeaseInv
  BY <1>1, LeaseUntouched DEF GatewayInv
<1>3. StateTyped /\ AttemptsTyped
  BY TypeParts DEF GatewayInv
<1>4. att[i] \in AttemptType /\ att[i].events \in Seq(EventType)
  BY <1>3 DEF AttemptsTyped, AttemptType
<1>5. /\ att[i].state \in {"recv", "deliver"}
      /\ att' \in [Attempts -> AttemptType]
      /\ \A j \in Attempts : j # i => att'[j] = att[j]
      /\ att'[i].worker = att[i].worker
      /\ att[i].canceled => att'[i].canceled
      /\ att'[i].conn \in {att[i].conn, NoConn}
      /\ att'[i].state # "none"
      /\ att'[i].state = "deliver" => att'[i].holding \in EventType
      /\ Len(att'[i].events) <= SSEBufferSize
  <2>1. CASE Received(i)
    BY <1>3, <2>1 DEF Received, AttemptBecomes, HasFields, AttemptsTyped
  <2>2. CASE Delivered(i)
    <3>1. Len(Append(att[i].events, att[i].holding)) <= SSEBufferSize
      BY <1>4, <2>2, BufferAssumption, AppendProperties DEF Delivered
    <3>2. CASE att[i].holding.kind = "token"
      BY <2>2, <3>1, <3>2 DEF Delivered, AttemptBecomes, HasFields
    <3>3. CASE att[i].holding.kind # "token"
      BY <2>2, <3>1, <3>3 DEF Delivered, AttemptBecomes, HasFields
    <3> QED
      BY <3>2, <3>3
  <2>3. CASE Discarded(i)
    BY <1>3, <2>3 DEF Discarded, AttemptBecomes, HasFields, AttemptsTyped
  <2> QED
    BY <2>1, <2>2, <2>3, ReceiverEffects
<1>6. StateTyped'
  BY <1>1, <1>3 DEF StateTyped
<1>7. AttemptsTyped'
  BY <1>1, <1>3, <1>5 DEF AttemptsTyped, poolVars
<1>9. ASSUME NEW j \in Attempts PROVE AttemptInv(j)'
  <2>1. AttemptInv(j) /\ AttemptInv(i)
    BY DEF GatewayInv
  <2>2. CASE j # i
    BY <1>5, <2>1, <2>2 DEF AttemptInv
  <2>3. CASE j = i
    BY <1>5, <2>1, <2>3 DEF AttemptInv
  <2> QED
    BY <2>2, <2>3
<1>10. ASSUME NEW r \in Requests PROVE RequestInv(r)'
  <2>b. Before(r)
    BY BeforeStep
  <2>1. pc'[r] = pc[r] /\ attempt'[r] = attempt[r] /\ Current(r)' = Current(r)
    BY <1>1 DEF Current
  <2>2. \A j \in Attempts : att[j] = NoAttempt => att'[j] = NoAttempt
    BY <1>5 DEF NoAttempt
  <2>3. \A j \in Attempts : att'[j].worker = att[j].worker /\ (att[j].canceled => att'[j].canceled)
    BY <1>5
  <2>4. \A j \in Attempts : att[j].state = "none" => att'[j].state = "none"
    BY <1>5
  <2>5. ControlInv(r)'
    BY <1>1, <2>b, <2>1, <2>2, <2>3, <2>4 DEF Before, ControlInv, CurrentWorker
  <2>6. RetryInv(r)' /\ ReplyInv(r)'
    BY <1>1, <2>b, <2>1, <2>3 DEF Before, RetryInv, ReplyInv
  <2> QED
    BY <2>5, <2>6 DEF RequestInv
<1>11. TypeOK'
  BY <1>2, <1>6, <1>7 DEF LeaseInv, TypeOK, StateTyped, AttemptsTyped
<1> QED
  BY <1>2, <1>9, <1>10, <1>11 DEF GatewayInv

(* Every step of a request keeps what is claimed of all of them. *)
LEMMA RequestKeeps ==
    ASSUME GatewayInv, NEW r \in Requests, HandlerStep(r) \/ EnvironmentStep(r)
    PROVE  GatewayInv' /\ StepKeeps(r)
<1>1. StepKeeps(r)
  <2>1. CASE DialFailed(r) \/ GenerateFailed(r) \/ FirstFailed(r) \/ FirstClosed(r)
    BY <2>1, AttemptFailures, FailedSteps
  <2>2. CASE HandlerStep(r)
    BY <2>1, <2>2, EarlySteps, SelectSteps, ConnectSteps, DroppedSteps, ForwardSteps, WriteSteps,
       ReturnSteps DEF HandlerStep
  <2>3. CASE EnvironmentStep(r)
    BY <2>3, EarlySteps, ConnectSteps, WriteSteps, ClientSteps DEF EnvironmentStep
  <2> QED
    BY <2>2, <2>3
<1>2. LeaseInv'
  BY HandlerLease, EnvironmentLease DEF GatewayInv
<1>3. TypeOK'
  BY <1>1, <1>2 DEF StepKeeps, LeaseInv, TypeOK, StateTyped, AttemptsTyped
<1>4. \A q \in Requests : RequestInv(q)'
  BY <1>1, OtherRequests DEF StepKeeps
<1> QED
  BY <1>1, <1>2, <1>3, <1>4 DEF StepKeeps, GatewayInv

(* The router starts in a state of the invariant. *)
LEMMA GatewayInit == Init => GatewayInv
<1> SUFFICES ASSUME Init PROVE GatewayInv
  OBVIOUS
<1>1. LeaseInv
  BY LeaseInit
<1>2. NoEvent \in EventType \union {NoEvent} /\ << >> \in Seq(EventType) /\ << >> \in Seq(SentType)
  BY EmptySeq
<1>3. NoAttempt \in AttemptType /\ Len(NoAttempt.events) <= SSEBufferSize
  BY <1>2, TokensAssumption, BufferAssumption DEF NoAttempt, AttemptType, Connections
<1>4. TypeOK
  BY <1>1, <1>2, <1>3 DEF LeaseInv, Init, TypeOK, ErrorClasses, Connections
<1>5. \A i \in Attempts : AttemptInv(i)
  BY DEF Init, AttemptInv, NoAttempt
<1>6. ASSUME NEW r \in Requests PROVE RequestInv(r)
  <2>1. <<r, 1>> \in Attempts /\ <<r, 2>> \in Attempts
    BY DEF Attempts
  <2> QED
    BY <2>1 DEF Init, RequestInv, ControlInv, RetryInv, ReplyInv, Current, EarlyPCs, OpeningPCs,
                UntriedPCs, UncommittedPCs, CommittedPCs
<1> QED
  BY <1>1, <1>4, <1>5, <1>6 DEF GatewayInv

(* Stuttering. *)
LEMMA GatewayUntouched ==
    ASSUME GatewayInv, UNCHANGED vars
    PROVE  GatewayInv'
<1>1. LeaseInv'
  BY LeaseUntouched DEF GatewayInv, vars
<1>2. TypeOK'
  BY DEF GatewayInv, TypeOK, vars
<1>3. \A i \in Attempts : AttemptInv(i)'
  BY DEF GatewayInv, AttemptInv, vars
<1>4. ASSUME NEW r \in Requests PROVE RequestInv(r)'
  <2>1. RequestInv(r) /\ UNCHANGED <<pc, attempt, excluded, failure, status, event, att>>
    BY DEF GatewayInv, vars
  <2> QED
    BY <2>1 DEF RequestInv, ControlInv, RetryInv, ReplyInv, Current, CurrentWorker
<1> QED
  BY <1>1, <1>2, <1>3, <1>4 DEF GatewayInv

(* The invariant is inductive. *)
LEMMA GatewayNext == GatewayInv /\ [Next]_vars => GatewayInv'
<1> SUFFICES ASSUME GatewayInv, [Next]_vars PROVE GatewayInv'
  OBVIOUS
<1> QED
  BY RequestKeeps, ReceiverKeeps, GatewayUntouched DEF Next, Served, ReceiverStep

(* Hence it holds in every reachable state. *)
LEMMA GatewayInvariant == Spec => []GatewayInv
BY GatewayInit, GatewayNext, PTL DEF Spec

(* Whatever the workers send and however the clients behave, every variable  *)
(* of the router keeps its type, and no attempt's event channel holds more   *)
(* than SSEBufferSize events.                                                *)
THEOREM TypeCorrectness == Spec => []TypeOK
<1>1. GatewayInv => TypeOK
  BY DEF GatewayInv
<1> QED
  BY <1>1, GatewayInvariant, PTL

(* The second attempt of handleChat runs only after the first was cancelled, *)
(* on another worker, and remembers why: no request keeps two live           *)
(* generations.                                                              *)
THEOREM RetriesReplace == Spec => []RetryReplacesAttempt
<1>1. GatewayInv => RetryReplacesAttempt
  <2> SUFFICES ASSUME GatewayInv, NEW r \in Requests, attempt[r] = 2
               PROVE  /\ att[<<r, 1>>].canceled
                      /\ att[<<r, 1>>].worker # att[<<r, 2>>].worker
                      /\ failure[r] # "none"
    BY Zenon DEF RetryReplacesAttempt
  <2>1. RetryInv(r)
    BY Zenon DEF GatewayInv, RequestInv
  <2> QED
    BY <2>1, Zenon DEF RetryInv
<1> QED
  BY <1>1, GatewayInvariant, PTL

(* A 503 reply is sent only when no worker was tried: previousAttemptErr     *)
(* keeps a failed first attempt from being reported as no_healthy_workers.   *)
THEOREM UntriedMeansUntried == Spec => []NoHealthyMeansUntried
<1>1. GatewayInv => NoHealthyMeansUntried
  <2> SUFFICES ASSUME GatewayInv, NEW r \in Requests, status[r] = 503
               PROVE  attempt[r] = 1 /\ failure[r] = "none" /\ att[<<r, 1>>].worker = NoWorker
    BY Zenon DEF NoHealthyMeansUntried
  <2>1. ReplyInv(r)
    BY Zenon DEF GatewayInv, RequestInv
  <2> QED
    BY <2>1, Zenon DEF ReplyInv
<1> QED
  BY <1>1, GatewayInvariant, PTL

(* A handler changes its reply or its attempt number only before it has      *)
(* replied; the attempt loop of handleChat ends at the first write.          *)
LEMMA OwnResponse ==
    ASSUME GatewayInv, NEW r \in Requests, HandlerStep(r) \/ EnvironmentStep(r), status[r] # 0
    PROVE  status'[r] = status[r] /\ attempt'[r] = attempt[r]
<1>1. pc[r] \notin UncommittedPCs
  BY BeforeStep DEF Before, ReplyInv
<1>2. CASE HandlerStep(r)
  BY <1>1, <1>2 DEF HandlerStep, Unbounded, UncommittedPCs, Enter, BodyLost, BadRequest,
     Dropped, FlushHeaders, FinishResponse, NoHealthyWorkers, HealthyWorkers,
     AdmissionRejected, Admitted, SelectWorker, NoEligibleWorker, PoolClient, DialFailed,
     GenerateOpened, GenerateFailed, FirstFailed, FirstClosed, Commit, ForwardEvent,
     ForwardClosed, ForwardAborted, WriteAccepted, WriteLost, WriteDone, Release, Return
<1>3. CASE EnvironmentStep(r)
  BY <1>1, <1>3 DEF EnvironmentStep, Unbounded, UncommittedPCs, BadRequest, BodyRead,
     Arrive, Dialed, FlushHeaders, WriteDone, FinishResponse, DeadlineExpires, Disconnect, DisconnectNoticed, Stall, Resume, handlerVars
<1> QED
  BY <1>2, <1>3

(* No step, of the handler itself or of anyone else, changes a reply. *)
LEMMA ResponseSteps == GatewayInv /\ [Next]_vars => ResponseStep
<1> SUFFICES ASSUME GatewayInv, [Next]_vars PROVE ResponseStep
  OBVIOUS
<1>1. ASSUME NEW r \in Requests, HandlerStep(r) \/ EnvironmentStep(r) PROVE ResponseStep
  <2>1. \A q \in Requests : q # r => status'[q] = status[q] /\ attempt'[q] = attempt[q]
    BY <1>1, RequestKeeps DEF StepKeeps, OthersKept
  <2> QED
    BY <1>1, <2>1, OwnResponse DEF ResponseStep
<1>2. ASSUME NEW i \in Attempts, ReceiverStep(i) PROVE ResponseStep
  BY <1>2 DEF ReceiverStep, RecvChunk, RecvError, RecvAborted, DeliverStep, Deliver,
         DeliverCanceled, SlowClient, handlerVars, ResponseStep
<1>3. CASE UNCHANGED vars
  BY <1>3 DEF vars, ResponseStep
<1> QED
  BY <1>1, <1>2, <1>3 DEF Next, Served, ReceiverStep

(* Once a status was sent it never changes and no further attempt is made:   *)
(* the attempt loop never runs past the commit of writeStreamHeaders.        *)
THEOREM ResponseOnce == Spec => ResponseStartsOnce
<1>1. GatewayInv /\ [Next]_vars => [ResponseStep]_vars
  BY ResponseSteps
<1> QED
  BY <1>1, GatewayInvariant, PTL DEF Spec, ResponseStartsOnce

-----------------------------------------------------------------------------
(* The pool.  Invalidate has a connection in hand only while its request is  *)
(* in `drop', and no other request or entry of the pool has the same one; a  *)
(* request that has yet to dial owns no open connection.                     *)
DroppingInv ==
    /\ \A r \in Requests : dropping[r] # NoConn => dropping[r] \in open /\ pc[r] = "drop"
    /\ \A w \in Workers : \A r \in Requests : pool[w] # NoConn => pool[w] # dropping[r]
    /\ \A q, r \in Requests : (q # r /\ dropping[q] # NoConn) => dropping[q] # dropping[r]

DialingInv ==
    /\ \A c \in open : att[c].worker \in Workers
    /\ \A r \in Requests : pc[r] \in {"client", "dial"} => Current(r) \notin open

PoolInv == ConnectionsArePooled /\ DroppingInv /\ DialingInv

(* No attempt has the name of the missing connection. *)
LEMMA NoConnIsNoAttempt == NoConn \notin Attempts
<1>1. ASSUME NEW r \in Requests, NEW a \in {1, 2} PROVE <<r, a>> # << >>
  <2>1. Len(<<r, a>>) = 2 /\ Len(<< >>) = 0
    OBVIOUS
  <2> QED
    BY <2>1
<1> QED
  BY <1>1 DEF NoConn, Attempts

(* A step that leaves the pool, the workers of all attempts and their        *)
(* connections alone, but for receivers that exit.                           *)
QuietStep ==
    /\ UNCHANGED <<pool, open, dropping>>
    /\ \A i \in Attempts : att'[i].worker = att[i].worker /\ att'[i].conn \in {att[i].conn, NoConn}
    /\ \A r \in Requests : /\ pc[r] = "drop" => pc'[r] = "drop"
                           /\ pc'[r] \in {"client", "dial"} =>
                                 pc[r] = pc'[r] /\ attempt'[r] = attempt[r]

(* Such a step keeps the pool's invariant. *)
LEMMA QuietPool ==
    ASSUME GatewayInv, PoolInv, QuietStep
    PROVE  PoolInv'
<1>0. /\ pool \in [Workers -> Connections] /\ open \subseteq Attempts
      /\ att \in [Attempts -> AttemptType] /\ NoConn \notin Attempts
  BY NoConnIsNoAttempt DEF GatewayInv, TypeOK
<1>1. \A w \in Workers : pool[w] # NoConn => pool[w] \in Attempts
  BY <1>0 DEF Connections
<1>2. \A i \in Attempts : att[i].conn # NoConn => att[i].conn \in Attempts
  BY <1>0 DEF Connections, AttemptType
<1>3. ConnectionsArePooled'
  <2>1. \A c \in open : att'[c].worker = att[c].worker
    BY <1>0 DEF QuietStep
  <2>2. \A i \in Attempts : att'[i].conn # NoConn =>
            /\ att'[i].conn = att[i].conn /\ att[i].conn \in Attempts
            /\ att'[i].worker = att[i].worker
            /\ att'[att[i].conn].worker = att[att[i].conn].worker
    BY <1>2 DEF QuietStep
  <2> QED
    BY <1>0, <1>1, <2>1, <2>2 DEF PoolInv, ConnectionsArePooled, QuietStep
<1>4. DroppingInv'
  BY DEF PoolInv, DroppingInv, QuietStep
<1>5. DialingInv'
  BY <1>0 DEF PoolInv, DialingInv, QuietStep, Current
<1> QED
  BY <1>3, <1>4, <1>5 DEF PoolInv

(* What most steps of a handler do to its attempt. *)
QuietAttempt(r) ==
    \/ UNCHANGED att
    \/ CancelAttempt(r)
    \/ HasEvent(r) /\ TakeEvent(r)
    \/ att' = [att EXCEPT ![Current(r)].state = "recv"]

(* They leave its worker and its connection alone. *)
LEMMA QuietAttempts ==
    ASSUME GatewayInv, NEW r \in Requests, QuietAttempt(r)
    PROVE  \A i \in Attempts : att'[i].worker = att[i].worker /\ att'[i].conn \in {att[i].conn, NoConn}
<1> DEFINE i == Current(r)
<1>1. att \in [Attempts -> AttemptType] /\ i \in Attempts
  BY BeforeStep DEF Before, AttemptsTyped
<1>2. CASE UNCHANGED att
  BY <1>2
<1>3. CASE CancelAttempt(r)
  BY <1>1, <1>3, CancelEffect DEF CancelAttempt, AttemptBecomes, HasFields
<1>4. CASE HasEvent(r) /\ TakeEvent(r)
  BY <1>1, <1>4, TakeEffect DEF HasEvent, TakeEvent, AttemptBecomes, HasFields
<1>5. CASE att' = [att EXCEPT ![i].state = "recv"]
  BY <1>1, <1>5, OpenEffect DEF AttemptBecomes, HasFields
<1> QED
  BY <1>2, <1>3, <1>4, <1>5 DEF QuietAttempt

(* A handler that neither fails nor connects an attempt. *)
QuietHandler(r) ==
    /\ UNCHANGED <<attempt, poolVars>>
    /\ QuietAttempt(r)
    /\ \/ UNCHANGED pc
       \/ \E label \in PCs \ {"client", "dial"} :
             pc[r] # "drop" /\ pc' = [pc EXCEPT ![r] = label]

(* Its step is quiet. *)
LEMMA QuietHandlerPool ==
    ASSUME GatewayInv, PoolInv, NEW r \in Requests, QuietHandler(r)
    PROVE  PoolInv'
<1>1. pc \in [Requests -> PCs]
  BY DEF GatewayInv, TypeOK
<1>2. \A q \in Requests : /\ pc[q] = "drop" => pc'[q] = "drop"
                          /\ pc'[q] \in {"client", "dial"} =>
                                pc[q] = pc'[q] /\ attempt'[q] = attempt[q]
  BY <1>1 DEF QuietHandler
<1>3. QuietStep
  BY <1>2, QuietAttempts DEF QuietHandler, QuietStep, poolVars
<1> QED
  BY <1>3, QuietPool

(* Most steps are of that kind. *)
LEMMA QuietSteps ==
    ASSUME GatewayInv, PoolInv, NEW r \in Requests,
           \/ Arrive(r) \/ Enter(r) \/ BodyRead(r) \/ BadRequest(r) \/ BodyLost(r)
           \/ NoHealthyWorkers(r) \/ HealthyWorkers(r) \/ AdmissionRejected(r)
           \/ \E cost \in Costs : Admitted(r, cost)
           \/ NoEligibleWorker(r) \/ GenerateOpened(r) \/ Commit(r)
           \/ ForwardEvent(r) \/ ForwardClosed(r) \/ ForwardAborted(r)
           \/ WriteAccepted(r) \/ WriteLost(r) \/ Unbounded(r) \/ Release(r) \/ Return(r)
           \/ DeadlineExpires(r) \/ Disconnect(r) \/ DisconnectNoticed(r)
           \/ Stall(r) \/ Resume(r)
    PROVE  PoolInv'
<1> USE DEF QuietHandler, QuietAttempt, GoTo, PCs
<1>1. CASE Arrive(r) \/ Enter(r) \/ BodyRead(r) \/ BadRequest(r) \/ BodyLost(r)
  <2>1. QuietHandler(r)
    BY <1>1 DEF Arrive, Enter, BodyRead, BadRequest, BodyLost
  <2> QED
    BY <2>1, QuietHandlerPool
<1>2. CASE \/ NoHealthyWorkers(r) \/ HealthyWorkers(r) \/ AdmissionRejected(r)
           \/ \E cost \in Costs : Admitted(r, cost)
           \/ NoEligibleWorker(r) \/ GenerateOpened(r)
  <2>1. QuietHandler(r)
    BY <1>2 DEF NoHealthyWorkers, HealthyWorkers, AdmissionRejected, Admitted,
                NoEligibleWorker, GenerateOpened
  <2> QED
    BY <2>1, QuietHandlerPool
<1>3. CASE Commit(r) \/ ForwardEvent(r) \/ ForwardClosed(r) \/ ForwardAborted(r)
  <2>1. QuietHandler(r)
    BY <1>3 DEF Commit, ForwardEvent, ForwardClosed, ForwardAborted
  <2> QED
    BY <2>1, QuietHandlerPool
<1>4. CASE WriteAccepted(r) \/ WriteLost(r)
  <2>1. QuietHandler(r)
    BY <1>4 DEF WriteAccepted, WriteLost, AfterWrite
  <2> QED
    BY <2>1, QuietHandlerPool
<1>5. CASE Unbounded(r) \/ Release(r) \/ Return(r)
  <2>1. QuietHandler(r)
    BY <1>5 DEF Unbounded, FlushHeaders, WriteDone, FinishResponse, Release, Return
  <2> QED
    BY <2>1, QuietHandlerPool
<1>6. CASE \/ DeadlineExpires(r) \/ Disconnect(r) \/ DisconnectNoticed(r)
           \/ Stall(r) \/ Resume(r)
  <2>1. QuietHandler(r)
    BY <1>6 DEF DeadlineExpires, Disconnect, DisconnectNoticed, Stall, Resume, handlerVars
  <2> QED
    BY <2>1, QuietHandlerPool
<1> QED
  BY <1>1, <1>2, <1>3, <1>4, <1>5, <1>6

(* The state in which a step touches the pool. *)
PoolBefore(r) ==
    /\ ConnectionsArePooled /\ DroppingInv /\ DialingInv
    /\ pc \in [Requests -> PCs]
    /\ pool \in [Workers -> Connections]
    /\ dropping \in [Requests -> Connections]
    /\ att \in [Attempts -> AttemptType]
    /\ open \subseteq Attempts
    /\ Connections = Attempts \union {NoConn}
    /\ NoConn \notin Attempts
    /\ Current(r) \in Attempts
    /\ \A i \in Attempts : att[i].conn # NoConn => att[i].worker \in Workers /\ att[i].conn \in Attempts

(* Both invariants, unpacked. *)
LEMMA PoolBeforeStep ==
    ASSUME GatewayInv, PoolInv, NEW r \in Requests
    PROVE  PoolBefore(r)
<1>1. Before(r)
  BY BeforeStep
<1>2. /\ pc \in [Requests -> PCs] /\ pool \in [Workers -> Connections]
      /\ dropping \in [Requests -> Connections] /\ att \in [Attempts -> AttemptType]
      /\ open \subseteq Attempts /\ Current(r) \in Attempts
  BY <1>1 DEF Before, AttemptsTyped
<1>3. \A i \in Attempts : att[i].conn # NoConn => att[i].worker \in Workers /\ att[i].conn \in Attempts
  BY <1>1, <1>2 DEF Before, AttemptInv, AttemptType, Connections
<1> QED
  BY <1>2, <1>3, NoConnIsNoAttempt DEF PoolBefore, PoolInv, Connections

(* selectWorker gives a worker to an attempt that no connection is named     *)
(* after.                                                                    *)
LEMMA SelectPool ==
    ASSUME GatewayInv, PoolInv, NEW r \in Requests, NEW w \in Workers, SelectWorker(r, w)
    PROVE  PoolInv'
<1>b. PoolBefore(r)
  BY PoolBeforeStep
<1> USE <1>b DEF PoolBefore
<1> DEFINE i == Current(r)
<1>1. /\ pc' = [pc EXCEPT ![r] = "client"]
      /\ att' = [att EXCEPT ![i].worker = w]
      /\ UNCHANGED <<attempt, pool, open, dropping>>
      /\ pc[r] = "select"
  BY DEF SelectWorker, GoTo, poolVars
<1>2. att[i] = NoAttempt
  BY <1>1, BeforeStep DEF Before, ControlInv
<1>3. att[i].worker \notin Workers /\ att[i].conn = NoConn
  BY <1>2, WorkerAssumption DEF NoAttempt
<1>4. Current(r)' = i /\ \A q \in Requests : Current(q)' = Current(q)
  BY <1>1 DEF Current
<1>5. AttemptBecomes(i, w, att[i].conn, att[i].canceled, att[i].state, att[i].expected,
                     att[i].holding, att[i].events)
  BY <1>1, SelectEffect
<1> HIDE DEF i
<1>6. /\ \A j \in Attempts : att'[j].conn = att[j].conn
      /\ \A j \in Attempts : j # i => att'[j].worker = att[j].worker
  BY <1>5 DEF AttemptBecomes, HasFields
<1>7. i \notin open
  BY <1>3 DEF DialingInv
<1>8. \A v \in Workers : pool[v] # NoConn => pool[v] \in open /\ pool[v] # i
  BY <1>7 DEF ConnectionsArePooled
<1>9. \A j \in Attempts : att[j].conn # NoConn => att[j].conn # i /\ j # i
  BY <1>3 DEF ConnectionsArePooled
<1>10. ConnectionsArePooled'
  <2>1. \A c \in open : att'[c].worker = att[c].worker
    BY <1>6, <1>7
  <2>2. \A v \in Workers : pool[v] # NoConn => att'[pool[v]].worker = att[pool[v]].worker
    BY <1>8, <2>1
  <2>3. \A j \in Attempts : att[j].conn # NoConn =>
            /\ att'[j].worker = att[j].worker
            /\ att'[att[j].conn].worker = att[att[j].conn].worker
    BY <1>6, <1>9
  <2> QED
    BY <1>1, <1>6, <2>1, <2>2, <2>3 DEF ConnectionsArePooled
<1>11. DroppingInv'
  BY <1>1 DEF DroppingInv
<1>12. DialingInv'
  BY <1>1, <1>4, <1>6, <1>7 DEF DialingInv
<1> QED
  BY <1>10, <1>11, <1>12 DEF PoolInv

(* Pool.Client finds a connection or has to dial. *)
LEMMA ClientPool ==
    ASSUME GatewayInv, PoolInv, NEW r \in Requests, PoolClient(r)
    PROVE  PoolInv'
<1>b. PoolBefore(r)
  BY PoolBeforeStep
<1> USE <1>b DEF PoolBefore
<1> DEFINE i == Current(r)
           w == att[i].worker
           c == pool[w]
<1>1. /\ UNCHANGED <<attempt, pool, open, dropping>> /\ pc[r] = "client"
      /\ \/ c # NoConn /\ att' = [att EXCEPT ![i].conn = c] /\ pc' = [pc EXCEPT ![r] = "generate"]
         \/ UNCHANGED att /\ pc' = [pc EXCEPT ![r] = "dial"]
  BY DEF PoolClient, GoTo, poolVars, CurrentWorker
<1>2. w \in Workers
  BY <1>1, BeforeStep DEF Before, ControlInv, CurrentWorker
<1>3. \A q \in Requests : Current(q)' = Current(q)
  BY <1>1 DEF Current
<1>d. DroppingInv'
  BY <1>1 DEF DroppingInv
<1>4. c \in Connections
  BY <1>2
<1>5. i \in Attempts /\ Current(r) = i
  OBVIOUS
<1> HIDE DEF i, c
<1>6. CASE c # NoConn /\ att' = [att EXCEPT ![i].conn = c] /\ pc' = [pc EXCEPT ![r] = "generate"]
  <2>1. AttemptBecomes(i, att[i].worker, c, att[i].canceled, att[i].state, att[i].expected,
                       att[i].holding, att[i].events)
    BY <1>4, <1>5, <1>6, ConnectEffect
  <2>2. /\ \A j \in Attempts : att'[j].worker = att[j].worker
        /\ \A j \in Attempts : j # i => att'[j].conn = att[j].conn
        /\ att'[i].conn = c
    BY <1>5, <2>1 DEF AttemptBecomes, HasFields
  <2>3. att[c].worker = w /\ c \in open /\ c \in Attempts
    BY <1>2, <1>6 DEF ConnectionsArePooled, c
  <2>4. ConnectionsArePooled'
    <3>1. \A k \in open : att'[k].worker = att[k].worker
      BY <2>2
    <3>2. \A v \in Workers : pool[v] # NoConn => att'[pool[v]].worker = att[pool[v]].worker
      BY <2>2
    <3>3. ASSUME NEW j \in Attempts, att'[j].conn # NoConn
          PROVE  att'[att'[j].conn].worker = att'[j].worker
      <4>1. CASE j = i
        BY <2>2, <2>3, <4>1
      <4>2. CASE j # i
        BY <2>2, <3>3, <4>2 DEF ConnectionsArePooled
      <4> QED
        BY <4>1, <4>2
    <3> QED
      BY <1>1, <3>1, <3>2, <3>3 DEF ConnectionsArePooled
  <2>5. DialingInv'
    BY <1>1, <1>3, <1>6, <2>2 DEF DialingInv
  <2> QED
    BY <1>d, <2>4, <2>5 DEF PoolInv
<1>7. CASE UNCHANGED att /\ pc' = [pc EXCEPT ![r] = "dial"]
  <2>1. ConnectionsArePooled'
    BY <1>1, <1>7 DEF ConnectionsArePooled
  <2>2. DialingInv'
    BY <1>1, <1>3, <1>7 DEF DialingInv
  <2> QED
    BY <1>d, <2>1, <2>2 DEF PoolInv
<1> QED
  BY <1>1, <1>6, <1>7

(* The dialed connection is pooled if the pool has none, and gone otherwise. *)
LEMMA DialPool ==
    ASSUME GatewayInv, PoolInv, NEW r \in Requests, Dialed(r)
    PROVE  PoolInv'
<1>b. PoolBefore(r)
  BY PoolBeforeStep
<1> USE <1>b DEF PoolBefore
<1> DEFINE i == Current(r)
           w == att[i].worker
           c == pool'[w]
<1>1. /\ UNCHANGED <<attempt, dropping>> /\ pc[r] = "dial"
      /\ pc' = [pc EXCEPT ![r] = "generate"]
      /\ att' = [att EXCEPT ![i].conn = c]
      /\ \/ pool[w] = NoConn /\ pool' = [pool EXCEPT ![w] = i] /\ open' = open \union {i}
         \/ pool[w] # NoConn /\ UNCHANGED <<pool, open>>
  BY DEF Dialed, Store, GoTo, CurrentWorker
<1>2. w \in Workers
  BY <1>1, BeforeStep DEF Before, ControlInv, CurrentWorker
<1>3. /\ \A q \in Requests : Current(q)' = Current(q)
      /\ \A q \in Requests : q # r => Current(q) # i
  BY <1>1 DEF Current
<1>4. c \in Attempts /\ c \in open' /\ (c = i \/ (c = pool[w] /\ att[c].worker = w))
  BY <1>1, <1>2 DEF ConnectionsArePooled
<1>5. i \in Attempts /\ i \notin open
  BY <1>1 DEF DialingInv
<1> HIDE DEF i, c
<1>6. AttemptBecomes(i, att[i].worker, c, att[i].canceled, att[i].state, att[i].expected,
                     att[i].holding, att[i].events)
  BY <1>1, <1>4, <1>5, ConnectEffect
<1>7. /\ \A j \in Attempts : att'[j].worker = att[j].worker
      /\ \A j \in Attempts : j # i => att'[j].conn = att[j].conn
      /\ att'[i].conn = c
  BY <1>5, <1>6 DEF AttemptBecomes, HasFields
<1>8. ConnectionsArePooled'
  <2>1. ASSUME NEW k \in open'
        PROVE  pool'[att'[k].worker] = k \/ \E q \in Requests : dropping'[q] = k
    <3>1. CASE k = i /\ k \notin open
      BY <1>1, <1>2, <1>7, <2>1, <3>1
    <3>2. CASE k \in open
      <4>1. pool[att[k].worker] = k \/ \E q \in Requests : dropping[q] = k
        BY <3>2 DEF ConnectionsArePooled
      <4>2. att'[k].worker = att[k].worker /\ att[k].worker \in Workers /\ k # NoConn
        BY <1>7, <3>2 DEF DialingInv
      <4> QED
        BY <1>1, <4>1, <4>2
    <3> QED
      BY <1>1, <2>1, <3>1, <3>2
  <2>2. ASSUME NEW v \in Workers, pool'[v] # NoConn
        PROVE  pool'[v] \in open' /\ att'[pool'[v]].worker = v
    <3>1. CASE pool'[v] = i /\ v = w /\ i \in open'
      BY <1>5, <1>7, <3>1
    <3>2. CASE pool'[v] = pool[v]
      <4>1. pool[v] \in open /\ att[pool[v]].worker = v
        BY <2>2, <3>2 DEF ConnectionsArePooled
      <4> QED
        BY <1>1, <1>7, <3>2, <4>1
    <3> QED
      BY <1>1, <1>2, <3>1, <3>2
  <2>3. ASSUME NEW j \in Attempts, att'[j].conn # NoConn
        PROVE  att'[att'[j].conn].worker = att'[j].worker
    <3>1. CASE j = i
      BY <1>4, <1>7, <3>1
    <3>2. CASE j # i
      BY <1>7, <2>3, <3>2 DEF ConnectionsArePooled
    <3> QED
      BY <3>1, <3>2
  <2> QED
    BY <2>1, <2>2, <2>3 DEF ConnectionsArePooled
<1>9. DroppingInv'
  <2>1. \A q \in Requests : dropping[q] # NoConn => dropping[q] # i
    BY <1>5 DEF DroppingInv
  <2>2. \A q \in Requests : dropping[q] # NoConn => dropping[q] \in open' /\ pc'[q] = "drop"
    BY <1>1 DEF DroppingInv
  <2>3. \A v \in Workers : pool'[v] = pool[v] \/ pool'[v] = i
    BY <1>1, <1>2
  <2>4. \A v \in Workers : \A q \in Requests : pool'[v] # NoConn => pool'[v] # dropping[q]
    BY <2>1, <2>3 DEF DroppingInv
  <2> QED
    BY <1>1, <2>2, <2>4 DEF DroppingInv
<1>10. DialingInv'
  <2>1. \A k \in open' : att'[k].worker \in Workers
    BY <1>1, <1>2, <1>5, <1>7 DEF DialingInv
  <2>2. \A q \in Requests : pc'[q] \in {"client", "dial"} => q # r /\ Current(q) \notin open
    BY <1>1 DEF DialingInv
  <2> QED
    BY <1>1, <1>3, <2>1, <2>2 DEF DialingInv
<1> QED
  BY <1>8, <1>9, <1>10 DEF PoolInv

(* Invalidate takes the entry of the failed attempt's worker. *)
LEMMA FailedPool ==
    ASSUME GatewayInv, PoolInv, NEW r \in Requests, NEW class \in ErrorClasses,
           pc[r] \in {"dial", "generate", "first"}, AttemptFailed(r, class)
    PROVE  PoolInv'
<1>b. PoolBefore(r)
  BY PoolBeforeStep
<1> USE <1>b DEF PoolBefore
<1> DEFINE i == Current(r)
           w == att[i].worker
           c == pool[w]
<1>1. /\ pc' = [pc EXCEPT ![r] = "drop"]
      /\ pool' = [pool EXCEPT ![w] = NoConn]
      /\ dropping' = [dropping EXCEPT ![r] = c]
      /\ CancelAttempt(r)
      /\ UNCHANGED <<attempt, open>>
  BY DEF AttemptFailed, GoTo, CurrentWorker
<1>2. w \in Workers /\ c \in Connections
  BY BeforeStep DEF Before, ControlInv, CurrentWorker
<1>3. \A q \in Requests : Current(q)' = Current(q)
  BY <1>1 DEF Current
<1>4. AttemptBecomes(i, att[i].worker, att[i].conn, TRUE, att[i].state, att[i].expected,
                     att[i].holding, att[i].events)
  BY <1>1, CancelEffect DEF CancelAttempt
<1>5. \A j \in Attempts : att'[j].worker = att[j].worker /\ att'[j].conn = att[j].conn
  BY <1>4 DEF AttemptBecomes, HasFields
<1>6. dropping[r] = NoConn
  BY DEF DroppingInv
<1>7. c # NoConn => c \in open /\ att[c].worker = w
  BY <1>2 DEF ConnectionsArePooled
<1>8. /\ pool'[w] = NoConn /\ \A v \in Workers : v # w => pool'[v] = pool[v]
      /\ dropping'[r] = c /\ \A q \in Requests : q # r => dropping'[q] = dropping[q]
  BY <1>1, <1>2
<1>9. c = pool[w]
  OBVIOUS
<1> HIDE DEF i, w, c
<1>10. ConnectionsArePooled'
  <2>1. ASSUME NEW k \in open
        PROVE  pool'[att[k].worker] = k \/ \E q \in Requests : dropping'[q] = k
    <3>0. att[k].worker \in Workers /\ k # NoConn
      BY DEF DialingInv
    <3>1. CASE pool[att[k].worker] = k
      <4>1. CASE att[k].worker = w
        BY <1>8, <1>9, <3>1, <4>1
      <4>2. CASE att[k].worker # w
        BY <1>8, <3>0, <3>1, <4>2
      <4> QED
        BY <4>1, <4>2
    <3>2. ASSUME NEW q \in Requests, dropping[q] = k PROVE dropping'[q] = k
      BY <1>6, <1>8, <3>0, <3>2
    <3> QED
      BY <3>1, <3>2 DEF ConnectionsArePooled
  <2>2. ASSUME NEW v \in Workers, pool'[v] # NoConn
        PROVE  pool'[v] \in open /\ att[pool'[v]].worker = v
    BY <1>8, <2>2 DEF ConnectionsArePooled
  <2>3. \A k \in open : att'[k].worker = att[k].worker
    BY <1>5
  <2>4. \A v \in Workers : pool'[v] # NoConn => att'[pool'[v]].worker = att[pool'[v]].worker
    BY <2>2, <2>3
  <2>5. \A j \in Attempts : att[j].conn # NoConn =>
            att'[att[j].conn].worker = att[att[j].conn].worker
    BY <1>5
  <2> QED
    BY <1>1, <1>5, <2>1, <2>2, <2>3, <2>4, <2>5 DEF ConnectionsArePooled
<1>11. DroppingInv'
  <2>1. ASSUME NEW q \in Requests, dropping'[q] # NoConn
        PROVE  dropping'[q] \in open /\ pc'[q] = "drop"
    <3>1. CASE q = r
      BY <1>1, <1>7, <1>8, <2>1, <3>1
    <3>2. CASE q # r
      BY <1>1, <1>8, <2>1, <3>2 DEF DroppingInv
    <3> QED
      BY <3>1, <3>2
  <2>2. ASSUME NEW v \in Workers, NEW q \in Requests, pool'[v] # NoConn
        PROVE  pool'[v] # dropping'[q]
    <3>1. v # w /\ pool'[v] = pool[v] /\ att[pool[v]].worker = v
      BY <1>8, <2>2 DEF ConnectionsArePooled
    <3>2. CASE q = r
      BY <1>7, <1>8, <2>2, <3>1, <3>2
    <3>3. CASE q # r
      BY <1>8, <2>2, <3>1, <3>3 DEF DroppingInv
    <3> QED
      BY <3>2, <3>3
  <2>3. ASSUME NEW p \in Requests, NEW q \in Requests, p # q, dropping'[p] # NoConn
        PROVE  dropping'[p] # dropping'[q]
    <3>1. CASE p = r
      <4>1. dropping'[q] = dropping[q] /\ dropping'[p] = pool[w] /\ pool[w] # NoConn
        BY <1>8, <1>9, <2>3, <3>1
      <4> QED
        BY <1>2, <4>1 DEF DroppingInv
    <3>2. CASE q = r
      <4>1. dropping'[p] = dropping[p] /\ dropping'[q] = pool[w]
        BY <1>8, <1>9, <2>3, <3>2
      <4> QED
        BY <1>2, <2>3, <4>1 DEF DroppingInv
    <3>3. CASE p # r /\ q # r
      BY <1>8, <2>3, <3>3 DEF DroppingInv
    <3> QED
      BY <3>1, <3>2, <3>3
  <2> QED
    BY <1>1, <2>1, <2>2, <2>3 DEF DroppingInv
<1>12. DialingInv'
  BY <1>1, <1>3, <1>5 DEF DialingInv
<1> QED
  BY <1>10, <1>11, <1>12 DEF PoolInv

(* Invalidate closes what it took. *)
LEMMA DroppedPool ==
    ASSUME GatewayInv, PoolInv, NEW r \in Requests, Dropped(r)
    PROVE  PoolInv'
<1>b. PoolBefore(r)
  BY PoolBeforeStep
<1> USE <1>b DEF PoolBefore
<1> DEFINE c == dropping[r]
<1>1. /\ open' = open \ {c}
      /\ dropping' = [dropping EXCEPT ![r] = NoConn]
      /\ UNCHANGED <<att, pool>>
      /\ pc' = [pc EXCEPT ![r] = "select"] \/ pc' = [pc EXCEPT ![r] = "release"]
  BY DEF Dropped, GoTo
<1>2. \A q \in Requests : q # r => pc'[q] = pc[q] /\ Current(q)' = Current(q)
  <2>1. OthersKept(r)
    BY DroppedSteps DEF StepKeeps
  <2> QED
    BY <2>1 DEF OthersKept, Current
<1>3. dropping'[r] = NoConn /\ \A q \in Requests : q # r => dropping'[q] = dropping[q]
  BY <1>1
<1>4. pc'[r] \notin {"client", "dial"}
  BY <1>1
<1>5. \A v \in Workers : pool[v] # NoConn => pool[v] # c
  BY DEF DroppingInv
<1>6. \A q \in Requests : (q # r /\ dropping[q] # NoConn) => dropping[q] # c
  BY DEF DroppingInv
<1>7. c = dropping[r]
  OBVIOUS
<1> HIDE DEF c
<1>8. ConnectionsArePooled'
  <2>1. ASSUME NEW k \in open, k # c
        PROVE  pool[att[k].worker] = k \/ \E q \in Requests : dropping'[q] = k
    <3>1. ASSUME NEW q \in Requests, dropping[q] = k PROVE dropping'[q] = k
      BY <1>3, <1>7, <2>1, <3>1
    <3> QED
      BY <3>1 DEF ConnectionsArePooled
  <2>2. \A v \in Workers : pool[v] # NoConn => pool[v] \in open \ {c} /\ att[pool[v]].worker = v
    BY <1>5 DEF ConnectionsArePooled
  <2> QED
    BY <1>1, <2>1, <2>2 DEF ConnectionsArePooled
<1>9. DroppingInv'
  <2>1. ASSUME NEW q \in Requests, dropping'[q] # NoConn
        PROVE  dropping'[q] \in open' /\ pc'[q] = "drop"
    BY <1>1, <1>2, <1>3, <1>6, <2>1 DEF DroppingInv
  <2>2. \A v \in Workers : \A q \in Requests : pool[v] # NoConn => pool[v] # dropping'[q]
    BY <1>3 DEF DroppingInv
  <2>3. \A p, q \in Requests : (p # q /\ dropping'[p] # NoConn) => dropping'[p] # dropping'[q]
    BY <1>3 DEF DroppingInv
  <2> QED
    BY <1>1, <2>1, <2>2, <2>3 DEF DroppingInv
<1>10. DialingInv'
  BY <1>1, <1>2, <1>4 DEF DialingInv
<1> QED
  BY <1>8, <1>9, <1>10 DEF PoolInv

(* A receiver leaves the pool alone. *)
LEMMA ReceiverPool ==
    ASSUME GatewayInv, PoolInv, NEW i \in Attempts, ReceiverStep(i)
    PROVE  PoolInv'
<1>1. UNCHANGED <<pc, attempt, pool, open, dropping>>
  BY DEF ReceiverStep, RecvChunk, RecvError, RecvAborted, DeliverStep, Deliver, DeliverCanceled,
         SlowClient, handlerVars, poolVars
<1>2. \A j \in Attempts : att'[j].worker = att[j].worker /\ att'[j].conn \in {att[j].conn, NoConn}
  BY ReceiverEffects DEF Received, Delivered, Discarded, AttemptBecomes, HasFields
<1>3. QuietStep
  BY <1>1, <1>2 DEF QuietStep
<1> QED
  BY <1>3, QuietPool

(* The pool's invariant is inductive. *)
LEMMA PoolNext == GatewayInv /\ PoolInv /\ [Next]_vars => PoolInv'
<1> SUFFICES ASSUME GatewayInv, PoolInv, [Next]_vars PROVE PoolInv'
  OBVIOUS
<1>1. ASSUME NEW r \in Requests, HandlerStep(r) \/ EnvironmentStep(r) PROVE PoolInv'
  <2>1. CASE DialFailed(r) \/ GenerateFailed(r) \/ FirstFailed(r) \/ FirstClosed(r)
    BY <2>1, AttemptFailures, FailedPool
  <2>2. CASE HandlerStep(r)
    BY <2>1, <2>2, QuietSteps, SelectPool, ClientPool, DroppedPool DEF HandlerStep
  <2>3. CASE EnvironmentStep(r)
    BY <2>3, QuietSteps, DialPool DEF EnvironmentStep
  <2> QED
    BY <1>1, <2>2, <2>3
<1>2. CASE UNCHANGED vars
  <2>1. QuietStep
    BY <1>2 DEF QuietStep, vars
  <2> QED
    BY <2>1, QuietPool
<1> QED
  BY <1>1, <1>2, ReceiverPool DEF Next, Served, ReceiverStep

(* No connection is open at first. *)
LEMMA PoolInit == Init => PoolInv
BY DEF Init, PoolInv, ConnectionsArePooled, DroppingInv, DialingInv, NoAttempt

(* No connection is lost, whoever loses the race of Pool.Client: every open  *)
(* one is in the pool, under the worker it goes to, or in the hands of an    *)
(* Invalidate that will close it, and the pool holds no closed one, although *)
(* Pool.Client dials and Invalidate closes without the pool's lock.          *)
THEOREM PooledConnections == Spec => []ConnectionsArePooled
<1>1. PoolInv => ConnectionsArePooled
  BY DEF PoolInv
<1> QED
  BY <1>1, GatewayInvariant, PoolInit, PoolNext, PTL DEF Spec
=============================================================================
