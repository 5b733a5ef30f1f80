------------------------------- MODULE Registry -------------------------------
(***************************************************************************)
(* internal/registry/registry.go with its two ends: the router's control    *)
(* RPCs (internal/gateway/server.go) that write it, the snapshots that read *)
(* it, and the registration loop of a worker (internal/mockworker).         *)
(*                                                                          *)
(* A worker has one call outstanding at a time, but when its connection     *)
(* breaks or its process dies the call's handler goes on at the router:     *)
(* RegisterWorker and Heartbeat ignore their context.  "calls" therefore    *)
(* holds every request that is in the network or in a handler, and two of   *)
(* one worker may meet in the registry in any order.  Register reads the    *)
(* clock before it takes the lock and Snapshot does too; Heartbeat reads it *)
(* under the lock.  A restarted worker is a new incarnation whose status    *)
(* version starts again; the incarnation stands for the data address that   *)
(* only Register stores.                                                    *)
(*                                                                          *)
(* Server.ready is written after every accepted call and read nowhere, so   *)
(* it is left out.                                                          *)
(***************************************************************************)
EXTENDS Naturals, FiniteSets

CONSTANTS
    Workers,        \* worker ids
    Readers,        \* goroutines that take a Snapshot
    Reports,        \* the statuses that workers may report
    StaleAfter,     \* Registry.staleAfter, in clock ticks
    NoWorker,       \* no entry in Registry.workers
    MaxClock,       \* bound on the clock
    MaxVersion,     \* bound on a worker's StatusVersion
    MaxIncarnation, \* bound on the restarts of one worker
    MaxFaults       \* bound on broken calls and router restarts together

Healthy == "HEALTHY"            \* model.WorkerHealthy
Undecodable == "undecodable"    \* a message that the protocol conversion refuses
Malformed == "malformed"        \* a state that the registry's validation refuses

\* New rejects a timeout that is not positive.
ASSUME StaleAssumption == StaleAfter \in Nat \ {0}
ASSUME BoundsAssumption ==
    /\ MaxClock \in Nat
    /\ MaxVersion \in Nat
    /\ MaxIncarnation \in Nat
    /\ MaxFaults \in Nat
ASSUME ReportsAssumption == Healthy \in Reports

VARIABLES
    now,        \* the clock Registry.now reads
    workers,    \* Registry.workers
    calls,      \* RegisterWorker and Heartbeat requests on their way or in a handler
    proc,       \* proc[w]: worker w's process and the position of its registration loop
    views,      \* views[k]: the Snapshot call of reader k
    faults,     \* how many faults have happened
    heard       \* history: when the router last began to handle a call of w

vars == <<now, workers, calls, proc, views, faults, heard>>

Version == 0 .. MaxVersion
Incarnation == 0 .. MaxIncarnation
Clock == 0 .. MaxClock

EntryType == [address : Incarnation, from : Incarnation, version : Version,
              status : Reports, last : Clock]
CallType == [worker : Workers, kind : {"register", "heartbeat"}, from : Incarnation,
             version : Version, status : Reports, stage : {"sent", "timed"}, at : Clock]
ProcType == [incarnation : Incarnation, version : Version, refusals : Nat,
             reply : {"none", "accepted", "rejected", "malformed"},
             phase : {"dialing", "registering", "beating", "heartbeating", "backoff", "down"}]
ViewType == [stage : {"idle", "timed", "done"}, at : Clock, healthy : SUBSET Workers]

(* The variables have their types; a refused state is never stored.           *)
TypeOK ==
    /\ now \in Clock
    /\ workers \in [Workers -> EntryType \union {NoWorker}]
    /\ calls \subseteq CallType
    /\ proc \in [Workers -> ProcType]
    /\ views \in [Readers -> ViewType]
    /\ faults \in 0 .. MaxFaults
    /\ heard \in [Workers -> Clock]
    /\ \A w \in Workers : workers[w] # NoWorker => workers[w].status \notin {Undecodable, Malformed}

Init ==
    /\ now = 0
    /\ workers = [w \in Workers |-> NoWorker]
    /\ calls = {}
    /\ proc = [w \in Workers |-> [incarnation |-> 0, version |-> 0, refusals |-> 0,
                                  reply |-> "none", phase |-> "dialing"]]
    /\ views = [k \in Readers |-> [stage |-> "idle", at |-> 0, healthy |-> {}]]
    /\ faults = 0
    /\ heard = [w \in Workers |-> 0]

-----------------------------------------------------------------------------
(* The worker: registrationLoop and registerAndHeartbeat.                    *)

Waiting(w) == proc[w].phase \in {"registering", "heartbeating"}

\* nextState and the request built from it.
NextCall(w, kind, status) ==
    [worker |-> w, kind |-> kind, from |-> proc[w].incarnation,
     version |-> proc[w].version + 1, status |-> status, stage |-> "sent", at |-> 0]

SendCall(w, kind, phase) ==
    /\ proc[w].version < MaxVersion
    /\ \E status \in Reports : calls' = calls \union {NextCall(w, kind, status)}
    /\ proc' = [proc EXCEPT ![w].phase = phase, ![w].version = @ + 1, ![w].reply = "none"]
    /\ UNCHANGED <<now, workers, views, faults, heard>>

\* DialContext succeeded; RegisterWorker is called.
SendRegister(w) == proc[w].phase = "dialing" /\ SendCall(w, "register", "registering")

\* The ticker fired; Heartbeat is called.
SendHeartbeat(w) == proc[w].phase = "beating" /\ SendCall(w, "heartbeat", "heartbeating")

\* registerAndHeartbeat returned an error: the connection is closed and the
\* loop waits 200 ms.
Retreat(w) == proc' = [proc EXCEPT ![w].phase = "backoff", ![w].reply = "none"]

DialFailed(w) ==
    /\ proc[w].phase = "dialing"
    /\ Retreat(w)
    /\ UNCHANGED <<now, workers, calls, views, faults, heard>>

\* Mutant of BackoffOver: the loop returns after its first error.
BackoffGivesUp(w) ==
    /\ proc[w].phase = "backoff"
    /\ proc' = [proc EXCEPT ![w].phase = "returned"]
    /\ UNCHANGED <<now, workers, calls, views, faults, heard>>

BackoffOver(w) ==
    /\ proc[w].phase = "backoff"
    /\ proc' = [proc EXCEPT ![w].phase = "dialing"]
    /\ UNCHANGED <<now, workers, calls, views, faults, heard>>

ReplyAccepted(w) ==
    /\ Waiting(w)
    /\ proc[w].reply = "accepted"
    /\ proc' = [proc EXCEPT ![w].phase = "beating", ![w].reply = "none", ![w].refusals = 0]
    /\ UNCHANGED <<now, workers, calls, views, faults, heard>>

\* Mutant of ReplyRejected: the loop goes on ticking after a refusal.
ReplyRejectedIgnored(w) ==
    /\ Waiting(w)
    /\ proc[w].reply \in {"rejected", "malformed"}
    /\ proc' = [proc EXCEPT ![w].phase = "beating", ![w].reply = "none",
                            ![w].refusals = IF proc[w].reply = "rejected" THEN @ + 1 ELSE @]
    /\ UNCHANGED <<now, workers, calls, views, faults, heard>>

\* A gRPC error, or a response with Accepted false.  "refusals" counts those of
\* well-formed states since the last accepted call (history only).
ReplyRejected(w) ==
    /\ Waiting(w)
    /\ proc[w].reply \in {"rejected", "malformed"}
    /\ proc' = [proc EXCEPT ![w].phase = "backoff", ![w].reply = "none",
                            ![w].refusals = IF proc[w].reply = "rejected" THEN @ + 1 ELSE @]
    /\ UNCHANGED <<now, workers, calls, views, faults, heard>>

\* The connection breaks under a call.  The request is lost, or is handled all
\* the same; a response that was under way is lost.
CallBroken(w) ==
    /\ Waiting(w)
    /\ faults < MaxFaults
    /\ faults' = faults + 1
    /\ \E lost \in BOOLEAN :
           calls' = {c \in calls : ~ (lost /\ c.worker = w /\ c.from = proc[w].incarnation
                                           /\ c.version = proc[w].version /\ c.stage = "sent")}
    /\ Retreat(w)
    /\ UNCHANGED <<now, workers, views, heard>>

\* The process ends, by Stop or without it; what it sent stays on its way.
WorkerStops(w) ==
    /\ proc[w].phase # "down"
    /\ proc[w].incarnation < MaxIncarnation
    /\ proc' = [proc EXCEPT ![w].phase = "down", ![w].reply = "none"]
    /\ UNCHANGED <<now, workers, calls, views, faults, heard>>

WorkerStarts(w) ==
    /\ proc[w].phase = "down"
    /\ proc[w].incarnation < MaxIncarnation
    /\ proc' = [proc EXCEPT ![w] = [incarnation |-> @.incarnation + 1, version |-> 0,
                                    refusals |-> 0, reply |-> "none", phase |-> "dialing"]]
    /\ UNCHANGED <<now, workers, calls, views, faults, heard>>

-----------------------------------------------------------------------------
(* The router: Server.RegisterWorker and Server.Heartbeat.                   *)

\* The response reaches the caller if it still waits for this very call.
Answered(c, reply) ==
    [proc EXCEPT ![c.worker].reply =
        IF /\ Waiting(c.worker)
           /\ proc[c.worker].incarnation = c.from
           /\ proc[c.worker].version = c.version
        THEN reply ELSE @]

Finish(c, reply) ==
    /\ calls' = calls \ {c}
    /\ proc' = Answered(c, reply)
    /\ UNCHANGED <<now, views, faults>>

Hear(c) == heard' = [heard EXCEPT ![c.worker] = now]

\* protocol.StateFromProto, with the version and timestamp checks before it.
StateFromProto(c) == c.status # Undecodable

\* registry.validate and validateState.
Validate(c) == c.status # Malformed

\* The RPC returns a gRPC error.
CallUndecodable(c) ==
    /\ c.stage = "sent"
    /\ ~ StateFromProto(c)
    /\ Finish(c, "malformed")
    /\ Hear(c)
    /\ UNCHANGED workers

\* The registry refuses the state; the response has Accepted false.
CallInvalid(c) ==
    /\ c.stage = "sent"
    /\ StateFromProto(c)
    /\ ~ Validate(c)
    /\ Finish(c, "malformed")
    /\ Hear(c)
    /\ UNCHANGED workers

\* Mutant of RegisterTimed: the state is not validated.
RegisterTimedUnchecked(c) ==
    /\ c.kind = "register"
    /\ c.stage = "sent"
    /\ StateFromProto(c)
    /\ calls' = (calls \ {c}) \union {[c EXCEPT !.stage = "timed", !.at = now]}
    /\ Hear(c)
    /\ UNCHANGED <<now, workers, proc, views, faults>>

\* Register up to the clock reading in front of the lock.
RegisterTimed(c) ==
    /\ c.kind = "register"
    /\ c.stage = "sent"
    /\ StateFromProto(c) /\ Validate(c)
    /\ calls' = (calls \ {c}) \union {[c EXCEPT !.stage = "timed", !.at = now]}
    /\ Hear(c)
    /\ UNCHANGED <<now, workers, proc, views, faults>>

Entry(c, last) == [address |-> c.from, from |-> c.from, version |-> c.version,
                   status |-> c.status, last |-> last]

\* Register's critical section: the entry is replaced whatever it holds.
RegisterStored(c) ==
    /\ c.stage = "timed"
    /\ workers' = [workers EXCEPT ![c.worker] = Entry(c, c.at)]
    /\ Finish(c, "accepted")
    /\ UNCHANGED heard

Newer(c) ==
    /\ workers[c.worker] # NoWorker
    /\ c.version > workers[c.worker].version

HeartbeatAccepted(c) ==
    /\ c.kind = "heartbeat"
    /\ c.stage = "sent"
    /\ StateFromProto(c) /\ Validate(c)
    /\ Newer(c)
    /\ workers' = [workers EXCEPT ![c.worker] =
                       [@ EXCEPT !.from = c.from, !.version = c.version,
                                 !.status = c.status, !.last = now]]
    /\ Finish(c, "accepted")
    /\ Hear(c)

\* ErrUnknownWorker or ErrStateVersionRegression.
HeartbeatRejected(c) ==
    /\ c.kind = "heartbeat"
    /\ c.stage = "sent"
    /\ StateFromProto(c) /\ Validate(c)
    /\ ~ Newer(c)
    /\ Finish(c, "rejected")
    /\ Hear(c)
    /\ UNCHANGED workers

\* The process is replaced: registry and handlers are gone, calls break.
RouterRestart ==
    /\ faults < MaxFaults
    /\ faults' = faults + 1
    /\ workers' = [w \in Workers |-> NoWorker]
    /\ calls' = {}
    /\ proc' = [w \in Workers |-> IF Waiting(w)
                                  THEN [proc[w] EXCEPT !.phase = "backoff", !.reply = "none"]
                                  ELSE proc[w]]
    /\ views' = [k \in Readers |-> [views[k] EXCEPT !.stage = "idle"]]
    /\ UNCHANGED <<now, heard>>

-----------------------------------------------------------------------------
(* Snapshot as HealthyCount and the selection use it.                        *)

\* Mutant of Stale: the operands of Sub are swapped.
StaleSwapped(entry, at) == entry.last > at + StaleAfter

Stale(entry, at) == at > entry.last + StaleAfter

HealthyAt(at) ==
    {w \in Workers : /\ workers[w] # NoWorker
                     /\ ~ Stale(workers[w], at)
                     /\ workers[w].status = Healthy}

SnapshotTimed(k) ==
    /\ views[k].stage # "timed"
    /\ views' = [views EXCEPT ![k] = [stage |-> "timed", at |-> now, healthy |-> {}]]
    /\ UNCHANGED <<now, workers, calls, proc, faults, heard>>

SnapshotCopied(k) ==
    /\ views[k].stage = "timed"
    /\ views' = [views EXCEPT ![k].stage = "done", ![k].healthy = HealthyAt(views[k].at)]
    /\ UNCHANGED <<now, workers, calls, proc, faults, heard>>

-----------------------------------------------------------------------------
Tick ==
    /\ now < MaxClock
    /\ now' = now + 1
    /\ UNCHANGED <<workers, calls, proc, views, faults, heard>>

WorkerStep(w) ==
    \/ SendRegister(w)
    \/ SendHeartbeat(w)
    \/ BackoffOver(w)
    \/ ReplyAccepted(w)
    \/ ReplyRejected(w)

HandlerStep(c) ==
    \/ CallUndecodable(c)
    \/ CallInvalid(c)
    \/ RegisterTimed(c)
    \/ RegisterStored(c)
    \/ HeartbeatAccepted(c)
    \/ HeartbeatRejected(c)

Next ==
    \/ \E w \in Workers : \/ WorkerStep(w)
                          \/ DialFailed(w)
                          \/ CallBroken(w)
                          \/ WorkerStops(w)
                          \/ WorkerStarts(w)
    \/ \E c \in calls : HandlerStep(c)
    \/ \E k \in Readers : SnapshotTimed(k) \/ SnapshotCopied(k)
    \/ RouterRestart
    \/ Tick

Spec == Init /\ [][Next]_vars

(* The worker's and the router's goroutines run; the router answers a dial   *)
(* some time, so dialling again and again succeeds.  A stopped process need   *)
(* not come back, and nothing is assumed of faults, readers and the clock.    *)
FairSpec ==
    /\ Spec
    /\ \A w \in Workers :
           /\ SF_vars(SendRegister(w))
           /\ WF_vars(SendHeartbeat(w))
           /\ WF_vars(BackoffOver(w))
           /\ WF_vars(ReplyAccepted(w) \/ ReplyRejected(w))
    /\ WF_vars(\E c \in calls : HandlerStep(c))

-----------------------------------------------------------------------------
(* A snapshot never offers a worker the router has not heard of within       *)
(* StaleAfter before the snapshot's clock reading, whatever old calls,       *)
(* restarts and overwritten entries did to LastHeartbeat: Registry.Snapshot   *)
(* with the readings of Register and Heartbeat.                              *)
NoGhosts ==
    \A k \in Readers :
        views[k].stage = "done" =>
            \A w \in views[k].healthy : views[k].at <= heard[w] + StaleAfter

(* What NoGhosts rests on: no time stored in the registry or carried by a     *)
(* Register handler is later than the last call of that worker.              *)
HeardInv ==
    /\ \A w \in Workers :
          /\ heard[w] <= now
          /\ workers[w] # NoWorker => workers[w].last <= heard[w]
    /\ \A c \in calls : c.at <= heard[c.worker]
    /\ NoGhosts

(* A refused heartbeat costs a worker one call: the registration that follows *)
(* is accepted whatever the registry holds, a predecessor's higher version    *)
(* included, so no worker is refused twice in a row for a well-formed state.  *)
RefusalsRecover == \A w \in Workers : proc[w].refusals <= 1

(* What RefusalsRecover rests on: calls are told apart by incarnation and     *)
(* version, the one a worker waits for is of the kind it made, and a worker    *)
(* that was refused registers before it beats again.                        *)
RefusalInv ==
    /\ \A c \in calls :
          /\ c.stage = "timed" => c.kind = "register" /\ StateFromProto(c) /\ Validate(c)
          /\ c.from <= proc[c.worker].incarnation
          /\ c.from = proc[c.worker].incarnation =>
                /\ c.version <= proc[c.worker].version
                /\ (Waiting(c.worker) /\ c.version = proc[c.worker].version) =>
                      (c.kind = "register" <=> proc[c.worker].phase = "registering")
    /\ \A w \in Workers :
          /\ proc[w].reply = "rejected" => proc[w].phase = "heartbeating"
          /\ proc[w].phase \in {"beating", "heartbeating"} => proc[w].refusals = 0
    /\ RefusalsRecover

\* Calls a worker may need for one recovery: a heartbeat that is refused and the
\* registration that follows.
RecoveryCalls == 2

\* The bound on versions leaves room for them, and for one call more that each
\* of the faults still possible may cost.
CanRecover(w) == proc[w].version + RecoveryCalls + (MaxFaults - faults) <= MaxVersion

\* The worker was told that the state it reports is not valid.
ToldMalformed(w) == proc[w].reply = "malformed"

(* README, "Workers automatically re-register": a worker that keeps running  *)
(* and reports valid states gets its own state into the registry within      *)
(* RecoveryCalls calls of its loop, not counting broken ones: after a        *)
(* restart of its own, after a restart of the router, and when a late        *)
(* heartbeat of its predecessor has pushed the stored version beyond its own. *)
Reregisters ==
    \A w \in Workers : \A i \in Incarnation :
        (proc[w].incarnation = i /\ CanRecover(w)) ~>
            \/ workers[w] # NoWorker /\ workers[w].from = i
            \/ proc[w].phase = "down" \/ proc[w].incarnation # i
            \/ ToldMalformed(w)
=============================================================================
