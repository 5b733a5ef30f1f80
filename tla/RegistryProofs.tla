--------------------------- MODULE RegistryProofs ---------------------------
(***************************************************************************)
(* Proofs about Registry.tla for any workers, readers, reports and bounds.   *)
(***************************************************************************)
EXTENDS Registry, TLAPS

(* The types are established by Init and kept by every step. *)
LEMMA TypeInit == Init => TypeOK
BY BoundsAssumption DEF Init, TypeOK, EntryType, CallType, ProcType, ViewType, Version, Incarnation, Clock

(* The step gives the process of w this state and leaves the others alone. *)
ProcBecomes(w, incarnation, version, refusals, reply, phase) ==
    /\ proc' \in [Workers -> ProcType]
    /\ \A v \in Workers : v # w => proc'[v] = proc[v]
    /\ proc'[w].incarnation = incarnation
    /\ proc'[w].version = version
    /\ proc'[w].refusals = refusals
    /\ proc'[w].reply = reply
    /\ proc'[w].phase = phase

(* Replacing the state of one process. *)
LEMMA ProcReplaced ==
    ASSUME proc \in [Workers -> ProcType], NEW w \in Workers, NEW new \in ProcType,
           proc' = [proc EXCEPT ![w] = new]
    PROVE  ProcBecomes(w, new.incarnation, new.version, new.refusals, new.reply, new.phase)
<1>1. proc'[w] = new /\ \A v \in Workers : v # w => proc'[v] = proc[v]
  OBVIOUS
<1>2. proc' \in [Workers -> ProcType]
  OBVIOUS
<1> QED
  BY <1>1, <1>2 DEF ProcBecomes

(* A call is sent with the next version. *)
LEMMA SendEffect ==
    ASSUME TypeOK, NEW w \in Workers, NEW kind, NEW phase \in {"registering", "heartbeating"},
           SendCall(w, kind, phase)
    PROVE  ProcBecomes(w, proc[w].incarnation, proc[w].version + 1, proc[w].refusals, "none", phase)
<1> DEFINE new == [proc[w] EXCEPT !.phase = phase, !.version = proc[w].version + 1, !.reply = "none"]
<1>1. proc \in [Workers -> ProcType] /\ proc[w] \in ProcType
  BY DEF TypeOK
<1>2. proc[w].version + 1 \in Version
  BY <1>1, BoundsAssumption DEF SendCall, ProcType, Version
<1>3. /\ new \in ProcType /\ new.incarnation = proc[w].incarnation
      /\ new.version = proc[w].version + 1 /\ new.refusals = proc[w].refusals
      /\ new.reply = "none" /\ new.phase = phase
  BY <1>1, <1>2 DEF ProcType
<1>4. proc' = [proc EXCEPT ![w] = new]
  BY <1>1 DEF SendCall
<1> HIDE DEF new
<1> QED
  BY <1>1, <1>3, <1>4, ProcReplaced

(* What the other steps of the registration loop do to their process. *)
LEMMA LoopEffect ==
    ASSUME TypeOK, NEW w \in Workers
    PROVE  /\ BackoffOver(w) =>
                 ProcBecomes(w, proc[w].incarnation, proc[w].version, proc[w].refusals,
                             proc[w].reply, "dialing")
           /\ ReplyAccepted(w) =>
                 ProcBecomes(w, proc[w].incarnation, proc[w].version, 0, "none", "beating")
           /\ ReplyRejected(w) =>
                 ProcBecomes(w, proc[w].incarnation, proc[w].version,
                             IF proc[w].reply = "rejected" THEN proc[w].refusals + 1
                                                           ELSE proc[w].refusals,
                             "none", "backoff")
           /\ Retreat(w) =>
                 ProcBecomes(w, proc[w].incarnation, proc[w].version, proc[w].refusals,
                             "none", "backoff")
           /\ WorkerStops(w) =>
                 ProcBecomes(w, proc[w].incarnation, proc[w].version, proc[w].refusals,
                             "none", "down")
           /\ WorkerStarts(w) =>
                 ProcBecomes(w, proc[w].incarnation + 1, 0, 0, "none", "dialing")
<1>0. proc \in [Workers -> ProcType] /\ proc[w] \in ProcType
  BY DEF TypeOK
<1>1. ASSUME BackoffOver(w)
      PROVE  ProcBecomes(w, proc[w].incarnation, proc[w].version, proc[w].refusals,
                         proc[w].reply, "dialing")
  <2> DEFINE new == [proc[w] EXCEPT !.phase = "dialing"]
  <2>1. /\ new \in ProcType /\ new.incarnation = proc[w].incarnation
        /\ new.version = proc[w].version /\ new.refusals = proc[w].refusals
        /\ new.reply = proc[w].reply /\ new.phase = "dialing"
    BY <1>0 DEF ProcType
  <2>2. proc' = [proc EXCEPT ![w] = new]
    BY <1>0, <1>1 DEF BackoffOver
  <2> HIDE DEF new
  <2> QED
    BY <1>0, <2>1, <2>2, ProcReplaced
<1>2. ASSUME ReplyAccepted(w)
      PROVE  ProcBecomes(w, proc[w].incarnation, proc[w].version, 0, "none", "beating")
  <2> DEFINE new == [proc[w] EXCEPT !.phase = "beating", !.reply = "none", !.refusals = 0]
  <2>1. /\ new \in ProcType /\ new.incarnation = proc[w].incarnation
        /\ new.version = proc[w].version /\ new.refusals = 0
        /\ new.reply = "none" /\ new.phase = "beating"
    BY <1>0 DEF ProcType
  <2>2. proc' = [proc EXCEPT ![w] = new]
    BY <1>0, <1>2 DEF ReplyAccepted
  <2> HIDE DEF new
  <2> QED
    BY <1>0, <2>1, <2>2, ProcReplaced
<1>3. ASSUME ReplyRejected(w)
      PROVE  ProcBecomes(w, proc[w].incarnation, proc[w].version,
                         IF proc[w].reply = "rejected" THEN proc[w].refusals + 1
                                                       ELSE proc[w].refusals,
                         "none", "backoff")
  <2> DEFINE n == IF proc[w].reply = "rejected" THEN proc[w].refusals + 1 ELSE proc[w].refusals
             new == [proc[w] EXCEPT !.phase = "backoff", !.reply = "none", !.refusals = n]
  <2>1. n \in Nat
    BY <1>0 DEF ProcType
  <2>2. proc' = [proc EXCEPT ![w] = new]
    BY <1>0, <1>3 DEF ReplyRejected
  <2> HIDE DEF n
  <2>3. /\ new \in ProcType /\ new.incarnation = proc[w].incarnation
        /\ new.version = proc[w].version /\ new.refusals = n
        /\ new.reply = "none" /\ new.phase = "backoff"
    BY <1>0, <2>1 DEF ProcType
  <2> HIDE DEF new
  <2>4. ProcBecomes(w, proc[w].incarnation, proc[w].version, n, "none", "backoff")
    BY <1>0, <2>2, <2>3, ProcReplaced
  <2> QED
    BY <2>4 DEF n
<1>4. ASSUME Retreat(w)
      PROVE  ProcBecomes(w, proc[w].incarnation, proc[w].version, proc[w].refusals,
                         "none", "backoff")
  <2> DEFINE new == [proc[w] EXCEPT !.phase = "backoff", !.reply = "none"]
  <2>1. /\ new \in ProcType /\ new.incarnation = proc[w].incarnation
        /\ new.version = proc[w].version /\ new.refusals = proc[w].refusals
        /\ new.reply = "none" /\ new.phase = "backoff"
    BY <1>0 DEF ProcType
  <2>2. proc' = [proc EXCEPT ![w] = new]
    BY <1>0, <1>4 DEF Retreat
  <2> HIDE DEF new
  <2> QED
    BY <1>0, <2>1, <2>2, ProcReplaced
<1>5. ASSUME WorkerStops(w)
      PROVE  ProcBecomes(w, proc[w].incarnation, proc[w].version, proc[w].refusals,
                         "none", "down")
  <2> DEFINE new == [proc[w] EXCEPT !.phase = "down", !.reply = "none"]
  <2>1. /\ new \in ProcType /\ new.incarnation = proc[w].incarnation
        /\ new.version = proc[w].version /\ new.refusals = proc[w].refusals
        /\ new.reply = "none" /\ new.phase = "down"
    BY <1>0 DEF ProcType
  <2>2. proc' = [proc EXCEPT ![w] = new]
    BY <1>0, <1>5 DEF WorkerStops
  <2> HIDE DEF new
  <2> QED
    BY <1>0, <2>1, <2>2, ProcReplaced
<1>6. ASSUME WorkerStarts(w)
      PROVE  ProcBecomes(w, proc[w].incarnation + 1, 0, 0, "none", "dialing")
  <2> DEFINE new == [incarnation |-> proc[w].incarnation + 1, version |-> 0,
                     refusals |-> 0, reply |-> "none", phase |-> "dialing"]
  <2>1. proc[w].incarnation + 1 \in Incarnation /\ 0 \in Version
    BY <1>0, <1>6, BoundsAssumption DEF WorkerStarts, ProcType, Incarnation, Version
  <2>2. new \in ProcType
    BY <2>1 DEF ProcType
  <2>3. /\ new.incarnation = proc[w].incarnation + 1 /\ new.version = 0 /\ new.refusals = 0
        /\ new.reply = "none" /\ new.phase = "dialing"
    OBVIOUS
  <2>4. proc' = [proc EXCEPT ![w] = new]
    BY <1>0, <1>6 DEF WorkerStarts
  <2> HIDE DEF new
  <2> QED
    BY <1>0, <2>2, <2>3, <2>4, ProcReplaced
<1> QED
  BY <1>1, <1>2, <1>3, <1>4, <1>5, <1>6

(* An answer changes only the reply of the caller, if it still waits for this *)
(* call.                                                                     *)
LEMMA FinishEffect ==
    ASSUME TypeOK, NEW c \in calls, NEW reply \in {"accepted", "rejected", "malformed"},
           Finish(c, reply)
    PROVE  /\ c.worker \in Workers /\ calls' \subseteq calls
           /\ UNCHANGED <<now, views, faults>>
           /\ ProcBecomes(c.worker, proc[c.worker].incarnation, proc[c.worker].version,
                          proc[c.worker].refusals,
                          IF /\ Waiting(c.worker)
                             /\ proc[c.worker].incarnation = c.from
                             /\ proc[c.worker].version = c.version
                          THEN reply ELSE proc[c.worker].reply,
                          proc[c.worker].phase)
<1> DEFINE w == c.worker
           a == IF /\ Waiting(w) /\ proc[w].incarnation = c.from /\ proc[w].version = c.version
                THEN reply ELSE proc[w].reply
           new == [proc[w] EXCEPT !.reply = a]
<1>1. w \in Workers
  BY DEF TypeOK, CallType
<1>2. proc \in [Workers -> ProcType] /\ proc[w] \in ProcType
  BY <1>1 DEF TypeOK
<1>3. a \in {"none", "accepted", "rejected", "malformed"}
  BY <1>2 DEF ProcType
<1>4. proc' = [proc EXCEPT ![w] = new]
  BY <1>1, <1>2 DEF Finish, Answered
<1>5. calls' \subseteq calls /\ UNCHANGED <<now, views, faults>>
  BY DEF Finish
<1> HIDE DEF a
<1>6. /\ new \in ProcType /\ new.incarnation = proc[w].incarnation
      /\ new.version = proc[w].version /\ new.refusals = proc[w].refusals
      /\ new.reply = a /\ new.phase = proc[w].phase
  BY <1>2, <1>3 DEF ProcType
<1> HIDE DEF new
<1>7. ProcBecomes(w, proc[w].incarnation, proc[w].version, proc[w].refusals, a, proc[w].phase)
  BY <1>1, <1>2, <1>4, <1>6, ProcReplaced
<1> QED
  BY <1>1, <1>5, <1>7 DEF a

-----------------------------------------------------------------------------
(* The types of what a step changes are enough. *)
LEMMA TypeKept ==
    ASSUME TypeOK, proc' \in [Workers -> ProcType], calls' \subseteq CallType,
           UNCHANGED <<now, workers, views>>, faults' \in 0 .. MaxFaults,
           heard' \in [Workers -> Clock]
    PROVE  TypeOK'
BY DEF TypeOK

(* A call is heard at the present time. *)
LEMMA HearTyped ==
    ASSUME TypeOK, NEW c \in calls, Hear(c)
    PROVE  heard' \in [Workers -> Clock]
<1>1. c.worker \in Workers
  BY DEF TypeOK, CallType
<1> QED
  BY <1>1 DEF Hear, TypeOK

(* One step keeps the types. *)
LEMMA TypeStep ==
    ASSUME TypeOK, RefusalInv, [Next]_vars
    PROVE  TypeOK'
<1>0. /\ calls \subseteq CallType /\ faults \in 0 .. MaxFaults /\ heard \in [Workers -> Clock]
      /\ proc \in [Workers -> ProcType] /\ now \in Clock /\ views \in [Readers -> ViewType]
  BY DEF TypeOK
<1>1. ASSUME NEW w \in Workers, SendRegister(w) \/ SendHeartbeat(w)
      PROVE  TypeOK'
  <2>1. PICK kind \in {"register", "heartbeat"}, phase \in {"registering", "heartbeating"} :
            SendCall(w, kind, phase)
    BY <1>1 DEF SendRegister, SendHeartbeat
  <2>2. proc' \in [Workers -> ProcType]
    BY <2>1, SendEffect DEF ProcBecomes
  <2>3. PICK status \in Reports : calls' = calls \union {NextCall(w, kind, status)}
    BY <2>1 DEF SendCall
  <2>4. NextCall(w, kind, status) \in CallType
    <3>1. proc[w].incarnation \in Incarnation /\ proc[w].version + 1 \in Version /\ 0 \in Clock
      BY <1>0, <2>1, BoundsAssumption DEF SendCall, ProcType, Version, Clock
    <3> QED
      BY <3>1 DEF NextCall, CallType
  <2>5. UNCHANGED <<now, workers, views, faults, heard>>
    BY <2>1 DEF SendCall
  <2> QED
    BY <1>0, <2>2, <2>3, <2>4, <2>5, TypeKept
<1>2. ASSUME NEW w \in Workers,
             \/ BackoffOver(w) \/ ReplyAccepted(w) \/ ReplyRejected(w) \/ DialFailed(w)
             \/ WorkerStops(w) \/ WorkerStarts(w)
      PROVE  TypeOK'
  <2>1. proc' \in [Workers -> ProcType]
    BY <1>2, LoopEffect DEF ProcBecomes, DialFailed
  <2>2. UNCHANGED <<now, workers, calls, views, faults, heard>>
    BY <1>2 DEF BackoffOver, ReplyAccepted, ReplyRejected, DialFailed, WorkerStops, WorkerStarts
  <2> QED
    BY <1>0, <2>1, <2>2, TypeKept
<1>3. ASSUME NEW w \in Workers, CallBroken(w)
      PROVE  TypeOK'
  <2>1. proc' \in [Workers -> ProcType]
    BY <1>3, LoopEffect DEF ProcBecomes, CallBroken
  <2>2. calls' \subseteq CallType
    BY <1>0, <1>3 DEF CallBroken
  <2>3. faults' \in 0 .. MaxFaults
    BY <1>0, <1>3, BoundsAssumption DEF CallBroken
  <2>4. UNCHANGED <<now, workers, views, heard>>
    BY <1>3 DEF CallBroken
  <2> QED
    BY <1>0, <2>1, <2>2, <2>3, <2>4, TypeKept
<1>4. ASSUME NEW c \in calls, CallUndecodable(c) \/ CallInvalid(c) \/ HeartbeatRejected(c)
      PROVE  TypeOK'
  <2>1. PICK reply \in {"accepted", "rejected", "malformed"} : Finish(c, reply)
    BY <1>4 DEF CallUndecodable, CallInvalid, HeartbeatRejected
  <2>2. /\ proc' \in [Workers -> ProcType] /\ calls' \subseteq calls
        /\ UNCHANGED <<now, views, faults>>
    BY <2>1, FinishEffect DEF ProcBecomes
  <2>3. Hear(c) /\ UNCHANGED workers
    BY <1>4 DEF CallUndecodable, CallInvalid, HeartbeatRejected
  <2> QED
    BY <1>0, <2>2, <2>3, HearTyped, TypeKept
<1>5. ASSUME NEW c \in calls, RegisterTimed(c)
      PROVE  TypeOK'
  <2>1. [c EXCEPT !.stage = "timed", !.at = now] \in CallType
    BY <1>0 DEF CallType
  <2>2. /\ calls' = (calls \ {c}) \union {[c EXCEPT !.stage = "timed", !.at = now]}
        /\ Hear(c) /\ UNCHANGED <<now, workers, proc, views, faults>>
    BY <1>5 DEF RegisterTimed
  <2>3. calls' \subseteq CallType
    BY <1>0, <2>1, <2>2
  <2> QED
    BY <1>0, <2>2, <2>3, HearTyped, TypeKept
<1>6. ASSUME NEW c \in calls, NEW entry \in EntryType,
             entry.status \notin {Undecodable, Malformed},
             workers' = [workers EXCEPT ![c.worker] = entry], Finish(c, "accepted"),
             heard' \in [Workers -> Clock]
      PROVE  TypeOK'
  <2>1. /\ c.worker \in Workers
        /\ proc' \in [Workers -> ProcType] /\ calls' \subseteq calls
        /\ UNCHANGED <<now, views, faults>>
    BY <1>6, FinishEffect DEF ProcBecomes
  <2>2. /\ workers' \in [Workers -> EntryType \union {NoWorker}]
        /\ \A w \in Workers : workers'[w] # NoWorker => workers'[w].status \notin {Undecodable, Malformed}
    BY <1>6, <2>1 DEF TypeOK
  <2> QED
    BY <1>0, <1>6, <2>1, <2>2 DEF TypeOK
<1>7. ASSUME NEW c \in calls, RegisterStored(c)
      PROVE  TypeOK'
  <2>1. Entry(c, c.at) \in EntryType
    BY <1>0 DEF Entry, CallType, EntryType
  <2>2. Entry(c, c.at).status \notin {Undecodable, Malformed}
    BY <1>7 DEF RegisterStored, Entry, RefusalInv, StateFromProto, Validate
  <2>3. workers' = [workers EXCEPT ![c.worker] = Entry(c, c.at)] /\ Finish(c, "accepted")
    BY <1>7 DEF RegisterStored
  <2>4. heard' \in [Workers -> Clock]
    BY <1>0, <1>7 DEF RegisterStored
  <2> QED
    BY <1>6, <2>1, <2>2, <2>3, <2>4
<1>8. ASSUME NEW c \in calls, HeartbeatAccepted(c)
      PROVE  TypeOK'
  <2> DEFINE old == workers[c.worker]
             entry == [old EXCEPT !.from = c.from, !.version = c.version,
                                  !.status = c.status, !.last = now]
  <2>1. c \in CallType /\ old \in EntryType
    BY <1>0, <1>8 DEF HeartbeatAccepted, Newer, TypeOK, CallType
  <2>2. workers' = [workers EXCEPT ![c.worker] = entry] /\ Finish(c, "accepted")
    BY <1>8 DEF HeartbeatAccepted
  <2>3. c.status \notin {Undecodable, Malformed}
    BY <1>8 DEF HeartbeatAccepted, StateFromProto, Validate
  <2> HIDE DEF old
  <2>4. entry \in EntryType /\ entry.status = c.status
    BY <1>0, <2>1 DEF CallType, EntryType
  <2>5. heard' \in [Workers -> Clock]
    BY <1>8, HearTyped DEF HeartbeatAccepted
  <2> HIDE DEF entry
  <2> QED
    BY <1>6, <2>2, <2>3, <2>4, <2>5
<1>9. ASSUME NEW k \in Readers, SnapshotTimed(k) \/ SnapshotCopied(k)
      PROVE  TypeOK'
  <2>1. views' \in [Readers -> ViewType]
    <3>1. CASE SnapshotTimed(k)
      <4>1. [stage |-> "timed", at |-> now, healthy |-> {}] \in ViewType
        BY <1>0 DEF ViewType
      <4> QED
        BY <1>0, <3>1, <4>1 DEF SnapshotTimed
    <3>2. CASE SnapshotCopied(k)
      <4> DEFINE healthy == HealthyAt(views[k].at)
                 new == [views[k] EXCEPT !.stage = "done", !.healthy = healthy]
      <4>1. healthy \in SUBSET Workers
        BY DEF HealthyAt
      <4>2. views' = [views EXCEPT ![k] = new]
        BY <1>0, <3>2 DEF SnapshotCopied
      <4> HIDE DEF healthy
      <4>3. new \in ViewType
        BY <1>0, <4>1 DEF ViewType
      <4> HIDE DEF new
      <4> QED
        BY <1>0, <4>2, <4>3
    <3> QED
      BY <1>9, <3>1, <3>2
  <2>2. UNCHANGED <<now, workers, calls, proc, faults, heard>>
    BY <1>9 DEF SnapshotTimed, SnapshotCopied
  <2> QED
    BY <2>1, <2>2 DEF TypeOK
<1>10. ASSUME RouterRestart
      PROVE  TypeOK'
  <2>1. proc' \in [Workers -> ProcType]
    <3>1. \A w \in Workers : [proc[w] EXCEPT !.phase = "backoff", !.reply = "none"] \in ProcType
      BY <1>0 DEF ProcType
    <3> DEFINE broken(w) == [proc[w] EXCEPT !.phase = "backoff", !.reply = "none"]
    <3>2. proc' = [w \in Workers |-> IF Waiting(w) THEN broken(w) ELSE proc[w]]
      BY <1>10 DEF RouterRestart
    <3>3. \A w \in Workers : broken(w) \in ProcType /\ proc[w] \in ProcType
      BY <1>0, <3>1
    <3> HIDE DEF broken
    <3> QED
      BY <3>2, <3>3
  <2>2. views' \in [Readers -> ViewType]
    <3>1. \A k \in Readers : [views[k] EXCEPT !.stage = "idle"] \in ViewType
      BY <1>0 DEF ViewType
    <3> QED
      BY <1>10, <3>1 DEF RouterRestart
  <2>3. faults' \in 0 .. MaxFaults
    <3>1. faults < MaxFaults /\ faults' = faults + 1
      BY <1>10 DEF RouterRestart
    <3> QED
      BY <1>0, <3>1, BoundsAssumption
  <2>4. /\ workers' \in [Workers -> EntryType \union {NoWorker}]
        /\ \A w \in Workers : workers'[w] = NoWorker
    BY <1>10 DEF RouterRestart
  <2>5. calls' = {} /\ UNCHANGED <<now, heard>>
    BY <1>10 DEF RouterRestart
  <2> QED
    BY <1>0, <2>1, <2>2, <2>3, <2>4, <2>5 DEF TypeOK
<1>11. ASSUME Tick
      PROVE  TypeOK'
  <2>1. now' \in Clock
    BY <1>0, <1>11, BoundsAssumption DEF Tick, Clock
  <2> QED
    BY <1>11, <2>1 DEF Tick, TypeOK
<1>12. CASE UNCHANGED vars
  BY <1>12 DEF vars, TypeOK
<1> QED
  BY <1>1, <1>2, <1>3, <1>4, <1>5, <1>7, <1>8, <1>9, <1>10, <1>11, <1>12
  DEF Next, WorkerStep, HandlerStep

(* Every call after the step was there before or is of w and carries this time. *)
CallsFrom(w, time) == \A d \in calls' : d \in calls \/ (d.worker = w /\ d.at = time)

(* Every entry after the step was there before or is of w and stored just now. *)
EntriesFrom(w) ==
    \A v \in Workers : workers'[v] = workers[v] \/ (v = w /\ workers'[v].last = now)

(* A step that hears of no worker keeps the recorded times in order, if the    *)
(* call it may send has not read the clock.                                  *)
LEMMA HeardKept ==
    ASSUME TypeOK, HeardInv, now' = now, workers' = workers, views' = views, heard' = heard,
           NEW w \in Workers, CallsFrom(w, 0)
    PROVE  HeardInv'
<1>1. 0 <= heard[w]
  BY DEF TypeOK, Clock
<1>2. \A d \in calls' : d.at <= heard'[d.worker]
  BY <1>1 DEF HeardInv, CallsFrom
<1>3. NoGhosts'
  BY DEF HeardInv, NoGhosts
<1> QED
  BY <1>2, <1>3 DEF HeardInv

(* A handler that begins at the present time and stores no later one keeps the *)
(* recorded times in order.                                                  *)
LEMMA HeardNow ==
    ASSUME TypeOK, HeardInv, NEW c \in calls, Hear(c), now' = now, views' = views,
           CallsFrom(c.worker, now), EntriesFrom(c.worker)
    PROVE  HeardInv'
<1>0. /\ c.worker \in Workers /\ heard \in [Workers -> Clock] /\ now \in Clock
      /\ \A d \in calls : d.worker \in Workers /\ d.at \in Clock
  BY DEF TypeOK, CallType
<1>1. /\ heard'[c.worker] = now
      /\ \A w \in Workers : w # c.worker => heard'[w] = heard[w]
  BY <1>0 DEF Hear
<1>2. \A w \in Workers : heard[w] <= now
  BY DEF HeardInv
<1>3. \A w \in Workers : heard'[w] \in Clock /\ heard[w] \in Clock
  BY <1>0, <1>1
<1>4. \A w \in Workers : heard'[w] <= now /\ heard[w] <= heard'[w]
  BY <1>0, <1>1, <1>2, <1>3 DEF Clock
<1>5. ASSUME NEW d \in calls' PROVE d.at <= heard'[d.worker]
  <2>1. CASE d \in calls
    <3>1. d.at <= heard[d.worker] /\ d.worker \in Workers /\ d.at \in Clock
      BY <1>0, <2>1 DEF HeardInv
    <3> QED
      BY <1>3, <1>4, <3>1 DEF Clock
  <2>2. CASE d.worker = c.worker /\ d.at = now
    BY <1>0, <1>1, <2>2 DEF Clock
  <2> QED
    BY <2>1, <2>2 DEF CallsFrom
<1>6. ASSUME NEW w \in Workers, workers'[w] # NoWorker PROVE workers'[w].last <= heard'[w]
  <2>1. CASE workers'[w] = workers[w]
    <3>1. workers[w].last <= heard[w] /\ workers[w].last \in Clock
      BY <1>6, <2>1 DEF HeardInv, TypeOK, EntryType
    <3> QED
      BY <1>3, <1>4, <2>1, <3>1 DEF Clock
  <2>2. CASE w = c.worker /\ workers'[w].last = now
    BY <1>0, <1>1, <2>2 DEF Clock
  <2> QED
    BY <2>1, <2>2 DEF EntriesFrom
<1>7. NoGhosts'
  <2> SUFFICES ASSUME NEW k \in Readers, views[k].stage = "done", NEW w \in views[k].healthy
               PROVE  views[k].at <= heard'[w] + StaleAfter
    BY DEF NoGhosts
  <2>1. w \in Workers /\ views[k].at \in Clock
    BY DEF TypeOK, ViewType
  <2>2. views[k].at <= heard[w] + StaleAfter
    BY DEF HeardInv, NoGhosts
  <2> QED
    BY <1>3, <1>4, <2>1, <2>2, StaleAssumption DEF Clock
<1> QED
  BY <1>4, <1>5, <1>6, <1>7 DEF HeardInv

(* One step keeps every recorded time at or before the last call heard. *)
LEMMA HeardStep ==
    ASSUME TypeOK, TypeOK', HeardInv, [Next]_vars
    PROVE  HeardInv'
<1>1. ASSUME NEW w \in Workers, SendRegister(w) \/ SendHeartbeat(w)
      PROVE  HeardInv'
  <2>1. PICK kind, phase : SendCall(w, kind, phase)
    BY <1>1 DEF SendRegister, SendHeartbeat
  <2>2. PICK status \in Reports : calls' = calls \union {NextCall(w, kind, status)}
    BY <2>1 DEF SendCall
  <2>3. NextCall(w, kind, status).worker = w /\ NextCall(w, kind, status).at = 0
    BY DEF NextCall
  <2>4. now' = now /\ workers' = workers /\ views' = views /\ heard' = heard
    BY <2>1 DEF SendCall
  <2>5. CallsFrom(w, 0)
    BY <2>2, <2>3 DEF CallsFrom
  <2> QED
    BY <2>4, <2>5, HeardKept
<1>2. ASSUME NEW w \in Workers,
             \/ BackoffOver(w) \/ ReplyAccepted(w) \/ ReplyRejected(w) \/ DialFailed(w)
             \/ CallBroken(w) \/ WorkerStops(w) \/ WorkerStarts(w)
      PROVE  HeardInv'
  <2>1. /\ calls' \subseteq calls
        /\ now' = now /\ workers' = workers /\ views' = views /\ heard' = heard
    BY <1>2 DEF BackoffOver, ReplyAccepted, ReplyRejected, DialFailed, CallBroken, WorkerStops,
                WorkerStarts
  <2>2. CallsFrom(w, 0)
    BY <2>1 DEF CallsFrom
  <2> QED
    BY <2>1, <2>2, HeardKept
<1>3. ASSUME NEW c \in calls, CallUndecodable(c) \/ CallInvalid(c) \/ HeartbeatRejected(c)
      PROVE  HeardInv'
  <2>1. /\ Hear(c) /\ calls' \subseteq calls
        /\ now' = now /\ views' = views /\ workers' = workers
    BY <1>3 DEF CallUndecodable, CallInvalid, HeartbeatRejected, Finish
  <2>2. CallsFrom(c.worker, now) /\ EntriesFrom(c.worker)
    BY <2>1 DEF CallsFrom, EntriesFrom
  <2> QED
    BY <2>1, <2>2, HeardNow
<1>4. ASSUME NEW c \in calls, RegisterTimed(c)
      PROVE  HeardInv'
  <2> DEFINE timed == [c EXCEPT !.stage = "timed", !.at = now]
  <2>1. timed.worker = c.worker /\ timed.at = now
    BY DEF TypeOK, CallType
  <2>2. /\ calls' = (calls \ {c}) \union {timed} /\ Hear(c)
        /\ now' = now /\ views' = views /\ workers' = workers
    BY <1>4 DEF RegisterTimed
  <2> HIDE DEF timed
  <2>3. CallsFrom(c.worker, now) /\ EntriesFrom(c.worker)
    BY <2>1, <2>2 DEF CallsFrom, EntriesFrom
  <2> QED
    BY <2>2, <2>3, HeardNow
<1>5. ASSUME NEW c \in calls, RegisterStored(c)
      PROVE  HeardInv'
  <2>1. /\ workers' = [workers EXCEPT ![c.worker] = Entry(c, c.at)]
        /\ calls' \subseteq calls /\ UNCHANGED <<now, views, heard>>
    BY <1>5 DEF RegisterStored, Finish
  <2>2. Entry(c, c.at).last = c.at /\ c.at <= heard[c.worker]
    BY DEF Entry, HeardInv
  <2>3. ASSUME NEW w \in Workers, workers'[w] # NoWorker PROVE workers'[w].last <= heard[w]
    <3>1. CASE w = c.worker
      BY <2>1, <2>2, <3>1 DEF TypeOK
    <3>2. CASE w # c.worker
      BY <2>1, <2>3, <3>2 DEF TypeOK, HeardInv
    <3> QED
      BY <3>1, <3>2
  <2>4. NoGhosts'
    BY <2>1 DEF HeardInv, NoGhosts
  <2> QED
    BY <2>1, <2>3, <2>4 DEF HeardInv
<1>6. ASSUME NEW c \in calls, HeartbeatAccepted(c)
      PROVE  HeardInv'
  <2> DEFINE entry == [workers[c.worker] EXCEPT !.from = c.from, !.version = c.version,
                                                !.status = c.status, !.last = now]
  <2>1. /\ workers' = [workers EXCEPT ![c.worker] = entry]
        /\ Hear(c) /\ calls' \subseteq calls /\ now' = now /\ views' = views
    BY <1>6 DEF HeartbeatAccepted, Finish
  <2>2. workers[c.worker] \in EntryType
    BY <1>6 DEF HeartbeatAccepted, Newer, TypeOK, CallType
  <2>3. entry.last = now
    BY <2>2 DEF EntryType
  <2> HIDE DEF entry
  <2>4. DOMAIN workers = Workers
    BY DEF TypeOK
  <2>5. EntriesFrom(c.worker)
    <3> SUFFICES ASSUME NEW v \in Workers
                 PROVE  workers'[v] = workers[v] \/ (v = c.worker /\ workers'[v].last = now)
      BY DEF EntriesFrom
    <3> QED
      BY <2>1, <2>3, <2>4
  <2>6. CallsFrom(c.worker, now)
    BY <2>1 DEF CallsFrom
  <2> QED
    BY <2>1, <2>5, <2>6, HeardNow
<1>7. ASSUME NEW k \in Readers, SnapshotTimed(k)
      PROVE  HeardInv'
  <2>1. views'[k].stage = "timed" /\ \A j \in Readers : j # k => views'[j] = views[j]
    BY <1>7 DEF SnapshotTimed, TypeOK
  <2>2. UNCHANGED <<now, workers, calls, heard>>
    BY <1>7 DEF SnapshotTimed
  <2>3. NoGhosts'
    BY <2>1, <2>2 DEF NoGhosts, HeardInv
  <2> QED
    BY <2>2, <2>3 DEF HeardInv
<1>8. ASSUME NEW k \in Readers, SnapshotCopied(k)
      PROVE  HeardInv'
  <2>1. views' = [views EXCEPT ![k].stage = "done", ![k].healthy = HealthyAt(views[k].at)]
    BY <1>8 DEF SnapshotCopied
  <2>2. views'[k].healthy = HealthyAt(views[k].at) /\ views'[k].at = views[k].at
    BY <2>1 DEF TypeOK, ViewType
  <2>3. ASSUME NEW w \in HealthyAt(views[k].at) PROVE views[k].at <= heard[w] + StaleAfter
    <3>1. /\ w \in Workers /\ workers[w] # NoWorker
          /\ ~ (views[k].at > workers[w].last + StaleAfter)
      BY DEF HealthyAt, Stale
    <3>2. workers[w].last <= heard[w]
      BY <3>1 DEF HeardInv
    <3>3. workers[w].last \in Clock /\ heard[w] \in Clock /\ views[k].at \in Clock
      BY <3>1 DEF TypeOK, EntryType, ViewType
    <3> QED
      BY <3>1, <3>2, <3>3, StaleAssumption DEF Clock
  <2>4. \A j \in Readers : j # k => views'[j] = views[j]
    BY <2>1 DEF TypeOK
  <2>5. UNCHANGED <<now, workers, calls, heard>>
    BY <1>8 DEF SnapshotCopied
  <2>6. NoGhosts'
    BY <2>2, <2>3, <2>4, <2>5 DEF NoGhosts, HeardInv
  <2> QED
    BY <2>5, <2>6 DEF HeardInv
<1>9. ASSUME RouterRestart
      PROVE  HeardInv'
  <2>1. ASSUME NEW k \in Readers PROVE views'[k].stage # "done"
    <3>1. views'[k] = [views[k] EXCEPT !.stage = "idle"]
      BY <1>9 DEF RouterRestart
    <3>2. views[k] \in ViewType
      BY DEF TypeOK
    <3>3. [views[k] EXCEPT !.stage = "idle"].stage = "idle"
      BY <3>2 DEF ViewType
    <3> QED
      BY <3>1, <3>3
  <2> QED
    BY <1>9, <2>1 DEF RouterRestart, HeardInv, NoGhosts
<1>10. ASSUME Tick
      PROVE  HeardInv'
  <2>1. UNCHANGED <<workers, calls, views, heard>> /\ now' = now + 1
    BY <1>10 DEF Tick
  <2>2. \A w \in Workers : heard[w] <= now /\ heard[w] \in Clock /\ now \in Clock
    BY DEF HeardInv, TypeOK
  <2>3. \A w \in Workers : heard[w] <= now'
    BY <2>1, <2>2 DEF Clock
  <2>4. NoGhosts'
    BY <2>1 DEF HeardInv, NoGhosts
  <2> QED
    BY <2>1, <2>3, <2>4 DEF HeardInv
<1>11. CASE UNCHANGED vars
  BY <1>11 DEF vars, HeardInv, NoGhosts
<1> QED
  BY <1>1, <1>2, <1>3, <1>4, <1>5, <1>6, <1>7, <1>8, <1>9, <1>10, <1>11
  DEF Next, WorkerStep, HandlerStep

-----------------------------------------------------------------------------
(* What RefusalInv says of one call and of one process. *)
CallIdentified(c) ==
    /\ c.stage = "timed" => c.kind = "register" /\ StateFromProto(c) /\ Validate(c)
    /\ c.from <= proc[c.worker].incarnation
    /\ c.from = proc[c.worker].incarnation =>
          /\ c.version <= proc[c.worker].version
          /\ (Waiting(c.worker) /\ c.version = proc[c.worker].version) =>
                (c.kind = "register" <=> proc[c.worker].phase = "registering")

RefusedOnce(w) ==
    /\ proc[w].reply = "rejected" => proc[w].phase = "heartbeating"
    /\ proc[w].phase \in {"beating", "heartbeating"} => proc[w].refusals = 0
    /\ proc[w].refusals <= 1

(* RefusalInv is about each call and each process by itself. *)
LEMMA RefusalParts ==
    /\ RefusalInv <=> (\A c \in calls : CallIdentified(c)) /\ (\A w \in Workers : RefusedOnce(w))
    /\ RefusalInv' <=> (\A c \in calls' : CallIdentified(c)') /\ (\A w \in Workers : RefusedOnce(w)')
<1>1. RefusalInv <=> (\A c \in calls : CallIdentified(c)) /\ (\A w \in Workers : RefusedOnce(w))
  BY Zenon DEF RefusalInv, RefusalsRecover, CallIdentified, RefusedOnce
<1>2. RefusalInv' <=> (\A c \in calls' : CallIdentified(c)') /\ (\A w \in Workers : RefusedOnce(w)')
  BY Zenon DEF RefusalInv, RefusalsRecover, CallIdentified, RefusedOnce
<1> QED
  BY <1>1, <1>2

(* A process state that waits for no answer and follows that of w. *)
Idles(w, incarnation, version, refusals, reply, phase) ==
    /\ \/ incarnation > proc[w].incarnation
       \/ incarnation = proc[w].incarnation /\ version = proc[w].version
    /\ phase \notin {"registering", "heartbeating"} /\ reply # "rejected"
    /\ phase = "beating" => refusals = 0
    /\ refusals <= 1

(* A step of the registration loop that does not wait afterwards. *)
LEMMA LoopKeepsRefusals ==
    ASSUME TypeOK, RefusalInv, NEW w \in Workers, calls' \subseteq calls,
           NEW incarnation, NEW version, NEW refusals, NEW reply, NEW phase,
           ProcBecomes(w, incarnation, version, refusals, reply, phase),
           Idles(w, incarnation, version, refusals, reply, phase)
    PROVE  RefusalInv'
<1>1. /\ \A v \in Workers : v # w => proc'[v] = proc[v]
      /\ proc'[w].incarnation = incarnation /\ proc'[w].version = version
      /\ proc'[w].refusals = refusals /\ proc'[w].reply = reply /\ proc'[w].phase = phase
  BY DEF ProcBecomes
<1>2. ASSUME NEW c \in calls' PROVE CallIdentified(c)'
  <2>1. CallIdentified(c) /\ c.worker \in Workers
    BY RefusalParts DEF TypeOK, CallType
  <2>2. CASE c.worker # w
    <3>1. proc'[c.worker] = proc[c.worker]
      BY <1>1, <2>1, <2>2
    <3> QED
      BY <2>1, <3>1 DEF CallIdentified, Waiting, StateFromProto, Validate
  <2>3. CASE c.worker = w
    <3>1. c.from \in Nat /\ proc[w].incarnation \in Nat /\ proc'[w].incarnation \in Nat
      <4>1. \A n \in Incarnation : n \in Nat
        BY BoundsAssumption DEF Incarnation
      <4>2. c.from \in Incarnation /\ proc[w].incarnation \in Incarnation
        BY DEF TypeOK, CallType, ProcType
      <4>3. proc'[w].incarnation \in Incarnation
        BY DEF ProcBecomes, ProcType
      <4> QED
        BY <4>1, <4>2, <4>3
    <3>2. ~ Waiting(w)'
      BY <1>1 DEF Waiting, Idles
    <3>3. c.stage = "timed" => c.kind = "register" /\ StateFromProto(c) /\ Validate(c)
      BY <2>1 DEF CallIdentified
    <3>4. /\ c.from <= proc[w].incarnation
          /\ c.from = proc[w].incarnation => c.version <= proc[w].version
      BY <2>1, <2>3 DEF CallIdentified
    <3>5. /\ c.from <= proc'[w].incarnation
          /\ c.from = proc'[w].incarnation => c.version <= proc'[w].version
      BY <1>1, <3>1, <3>4 DEF Idles
    <3> QED
      BY <2>3, <3>2, <3>3, <3>5 DEF CallIdentified, StateFromProto, Validate
  <2> QED
    BY <2>2, <2>3
<1>3. ASSUME NEW v \in Workers PROVE RefusedOnce(v)'
  <2>1. CASE v # w
    <3>1. RefusedOnce(v) /\ proc'[v] = proc[v]
      BY <1>1, <2>1, RefusalParts
    <3> QED
      BY <3>1 DEF RefusedOnce
  <2>2. CASE v = w
    BY <1>1, <2>2 DEF RefusedOnce, Idles
  <2> QED
    BY <2>1, <2>2
<1> QED
  BY <1>2, <1>3, RefusalParts

(* A call that is sent carries a version no earlier call of the process has. *)
LEMMA SendKeepsRefusals ==
    ASSUME TypeOK, RefusalInv, NEW w \in Workers, NEW kind,
           NEW phase \in {"registering", "heartbeating"}, SendCall(w, kind, phase),
           kind = "register" <=> phase = "registering",
           phase = "heartbeating" => proc[w].phase = "beating"
    PROVE  RefusalInv'
<1>0. ProcBecomes(w, proc[w].incarnation, proc[w].version + 1, proc[w].refusals, "none", phase)
  BY SendEffect
<1>1. /\ \A v \in Workers : v # w => proc'[v] = proc[v]
      /\ proc'[w].incarnation = proc[w].incarnation /\ proc'[w].version = proc[w].version + 1
      /\ proc'[w].refusals = proc[w].refusals /\ proc'[w].reply = "none" /\ proc'[w].phase = phase
  BY <1>0 DEF ProcBecomes
<1>2. PICK status \in Reports : calls' = calls \union {NextCall(w, kind, status)}
  BY DEF SendCall
<1>3. proc[w].incarnation \in Nat /\ proc[w].version \in Nat
  <2>1. proc[w].incarnation \in Incarnation /\ proc[w].version \in Version
    BY DEF TypeOK, ProcType
  <2> QED
    BY <2>1, BoundsAssumption DEF Incarnation, Version
<1>4. ASSUME NEW c \in calls PROVE CallIdentified(c)'
  <2>1. CallIdentified(c) /\ c.worker \in Workers /\ c.version \in Version
    BY RefusalParts DEF TypeOK, CallType
  <2>2. CASE c.worker # w
    <3>1. proc'[c.worker] = proc[c.worker]
      BY <1>1, <2>1, <2>2
    <3> QED
      BY <2>1, <3>1 DEF CallIdentified, Waiting, StateFromProto, Validate
  <2>3. CASE c.worker = w
    <3>1. c.stage = "timed" => c.kind = "register" /\ StateFromProto(c) /\ Validate(c)
      BY <2>1 DEF CallIdentified
    <3>2. /\ c.from <= proc[w].incarnation
          /\ c.from = proc[w].incarnation => c.version <= proc[w].version
      BY <2>1, <2>3 DEF CallIdentified
    <3>3. c.version \in Nat
      BY <2>1, BoundsAssumption DEF Version
    <3>4. c.from = proc[w].incarnation =>
              c.version <= proc[w].version + 1 /\ c.version # proc[w].version + 1
      BY <1>3, <3>2, <3>3
    <3> QED
      BY <1>1, <2>3, <3>1, <3>2, <3>4 DEF CallIdentified, StateFromProto, Validate
  <2> QED
    BY <2>2, <2>3
<1>5. ASSUME NEW c, c = NextCall(w, kind, status) PROVE CallIdentified(c)'
  <2>1. /\ c.worker = w /\ c.kind = kind /\ c.from = proc[w].incarnation
        /\ c.version = proc[w].version + 1 /\ c.stage = "sent"
    BY <1>5 DEF NextCall
  <2>2. c.from <= proc'[w].incarnation /\ c.version <= proc'[w].version
    BY <1>1, <1>3, <2>1
  <2> QED
    BY <1>1, <2>1, <2>2 DEF CallIdentified
<1>6. ASSUME NEW v \in Workers PROVE RefusedOnce(v)'
  <2>0. RefusedOnce(v)
    BY RefusalParts
  <2>1. CASE v # w
    BY <1>1, <2>0, <2>1 DEF RefusedOnce
  <2>2. CASE v = w
    BY <1>1, <2>0, <2>2 DEF RefusedOnce
  <2> QED
    BY <2>1, <2>2
<1>7. ASSUME NEW c \in calls' PROVE CallIdentified(c)'
  BY <1>2, <1>4, <1>5
<1> QED
  BY <1>6, <1>7, RefusalParts

(* A handler's answer reaches the worker only if it waits for this call, and  *)
(* only heartbeats are refused.                                              *)
LEMMA FinishKeepsRefusals ==
    ASSUME TypeOK, RefusalInv, NEW c \in calls,
           NEW reply \in {"accepted", "rejected", "malformed"},
           Finish(c, reply), reply = "rejected" => c.kind = "heartbeat"
    PROVE  RefusalInv'
<1> DEFINE w == c.worker
           awaited == Waiting(w) /\ proc[w].incarnation = c.from /\ proc[w].version = c.version
<1>1. /\ w \in Workers /\ calls' \subseteq calls
      /\ ProcBecomes(w, proc[w].incarnation, proc[w].version, proc[w].refusals,
                     IF awaited THEN reply ELSE proc[w].reply, proc[w].phase)
  BY FinishEffect
<1>2. awaited /\ reply = "rejected" => proc[w].phase = "heartbeating"
  <2>1. CallIdentified(c)
    BY RefusalParts
  <2> QED
    BY <2>1 DEF CallIdentified, Waiting
<1> HIDE DEF awaited
<1>3. /\ \A v \in Workers : v # w => proc'[v] = proc[v]
      /\ proc'[w].incarnation = proc[w].incarnation /\ proc'[w].version = proc[w].version
      /\ proc'[w].refusals = proc[w].refusals /\ proc'[w].phase = proc[w].phase
      /\ proc'[w].reply = IF awaited THEN reply ELSE proc[w].reply
  BY <1>1 DEF ProcBecomes
<1>4. \A v \in Workers : /\ proc'[v].incarnation = proc[v].incarnation
                          /\ proc'[v].version = proc[v].version
                          /\ proc'[v].phase = proc[v].phase
                          /\ proc'[v].refusals = proc[v].refusals
  BY <1>3
<1> HIDE DEF w
<1>5. ASSUME NEW d \in calls' PROVE CallIdentified(d)'
  <2>1. CallIdentified(d) /\ d.worker \in Workers
    BY <1>1, RefusalParts DEF TypeOK, CallType
  <2> QED
    BY <1>4, <2>1 DEF CallIdentified, Waiting, StateFromProto, Validate
<1>6. ASSUME NEW v \in Workers PROVE RefusedOnce(v)'
  <2>0. RefusedOnce(v)
    BY RefusalParts
  <2>1. proc'[v].reply = "rejected" => proc[v].phase = "heartbeating"
    BY <1>2, <1>3, <2>0 DEF RefusedOnce
  <2> QED
    BY <1>4, <2>0, <2>1 DEF RefusedOnce
<1> QED
  BY <1>5, <1>6, RefusalParts

(* One step keeps calls identified and refusals rare. *)
LEMMA RefusalStep ==
    ASSUME TypeOK, TypeOK', RefusalInv, [Next]_vars
    PROVE  RefusalInv'
<1>0. ASSUME NEW w \in Workers
      PROVE  /\ RefusedOnce(w) /\ proc[w].incarnation \in Nat /\ proc[w].refusals \in Nat
  <2>1. proc[w].incarnation \in Incarnation /\ proc[w].refusals \in Nat
    BY DEF TypeOK, ProcType
  <2> QED
    BY <2>1, RefusalParts, BoundsAssumption DEF Incarnation
<1>1. ASSUME NEW w \in Workers, SendRegister(w)
      PROVE  RefusalInv'
  BY <1>1, SendKeepsRefusals DEF SendRegister
<1>2. ASSUME NEW w \in Workers, SendHeartbeat(w)
      PROVE  RefusalInv'
  BY <1>2, SendKeepsRefusals DEF SendHeartbeat
<1>3. ASSUME NEW w \in Workers, BackoffOver(w)
      PROVE  RefusalInv'
  <2>1. ProcBecomes(w, proc[w].incarnation, proc[w].version, proc[w].refusals, proc[w].reply, "dialing")
    BY <1>3, LoopEffect
  <2>2. proc[w].reply # "rejected" /\ proc[w].refusals <= 1 /\ calls' = calls
    BY <1>0, <1>3 DEF BackoffOver, RefusedOnce
  <2>3. Idles(w, proc[w].incarnation, proc[w].version, proc[w].refusals, proc[w].reply, "dialing")
    BY <2>2 DEF Idles
  <2> QED
    BY <2>1, <2>2, <2>3, LoopKeepsRefusals
<1>4. ASSUME NEW w \in Workers, ReplyAccepted(w)
      PROVE  RefusalInv'
  <2>1. ProcBecomes(w, proc[w].incarnation, proc[w].version, 0, "none", "beating")
    BY <1>4, LoopEffect
  <2>2. calls' = calls
    BY <1>4 DEF ReplyAccepted
  <2>3. Idles(w, proc[w].incarnation, proc[w].version, 0, "none", "beating")
    BY <2>2 DEF Idles
  <2> QED
    BY <2>1, <2>2, <2>3, LoopKeepsRefusals
<1>5. ASSUME NEW w \in Workers, ReplyRejected(w)
      PROVE  RefusalInv'
  <2> DEFINE n == IF proc[w].reply = "rejected" THEN proc[w].refusals + 1 ELSE proc[w].refusals
  <2>1. ProcBecomes(w, proc[w].incarnation, proc[w].version, n, "none", "backoff")
    BY <1>5, LoopEffect
  <2>2. n <= 1
    BY <1>0 DEF RefusedOnce
  <2>3. calls' = calls
    BY <1>5 DEF ReplyRejected
  <2> HIDE DEF n
  <2>4. Idles(w, proc[w].incarnation, proc[w].version, n, "none", "backoff")
    BY <2>2, <2>3 DEF Idles
  <2> QED
    BY <2>1, <2>2, <2>3, <2>4, LoopKeepsRefusals
<1>6. ASSUME NEW w \in Workers, DialFailed(w) \/ CallBroken(w)
      PROVE  RefusalInv'
  <2>1. ProcBecomes(w, proc[w].incarnation, proc[w].version, proc[w].refusals, "none", "backoff")
    BY <1>6, LoopEffect DEF DialFailed, CallBroken
  <2>2. calls' \subseteq calls
    BY <1>6 DEF DialFailed, CallBroken
  <2>3. proc[w].refusals <= 1
    BY <1>0 DEF RefusedOnce
  <2>4. Idles(w, proc[w].incarnation, proc[w].version, proc[w].refusals, "none", "backoff")
    BY <2>2, <2>3 DEF Idles
  <2> QED
    BY <2>1, <2>2, <2>3, <2>4, LoopKeepsRefusals
<1>7. ASSUME NEW w \in Workers, WorkerStops(w)
      PROVE  RefusalInv'
  <2>1. ProcBecomes(w, proc[w].incarnation, proc[w].version, proc[w].refusals, "none", "down")
    BY <1>7, LoopEffect
  <2>2. calls' = calls /\ proc[w].refusals <= 1
    BY <1>0, <1>7 DEF WorkerStops, RefusedOnce
  <2>3. Idles(w, proc[w].incarnation, proc[w].version, proc[w].refusals, "none", "down")
    BY <2>2 DEF Idles
  <2> QED
    BY <2>1, <2>2, <2>3, LoopKeepsRefusals
<1>8. ASSUME NEW w \in Workers, WorkerStarts(w)
      PROVE  RefusalInv'
  <2>1. ProcBecomes(w, proc[w].incarnation + 1, 0, 0, "none", "dialing")
    BY <1>8, LoopEffect
  <2>2. calls' = calls
    BY <1>8 DEF WorkerStarts
  <2>3. proc[w].incarnation + 1 > proc[w].incarnation
    BY <1>0
  <2>4. Idles(w, proc[w].incarnation + 1, 0, 0, "none", "dialing")
    BY <2>2, <2>3 DEF Idles
  <2> QED
    BY <2>1, <2>2, <2>3, <2>4, LoopKeepsRefusals
<1>9. ASSUME NEW c \in calls, CallUndecodable(c) \/ CallInvalid(c)
      PROVE  RefusalInv'
  BY <1>9, FinishKeepsRefusals DEF CallUndecodable, CallInvalid
<1>10. ASSUME NEW c \in calls, RegisterTimed(c)
      PROVE  RefusalInv'
  <2> DEFINE timed == [c EXCEPT !.stage = "timed", !.at = now]
  <2>1. /\ timed.worker = c.worker /\ timed.from = c.from /\ timed.version = c.version
        /\ timed.kind = c.kind /\ timed.status = c.status
    BY DEF TypeOK, CallType
  <2>2. calls' = (calls \ {c}) \union {timed} /\ proc' = proc
    BY <1>10 DEF RegisterTimed
  <2>3. c.kind = "register" /\ StateFromProto(c) /\ Validate(c)
    BY <1>10 DEF RegisterTimed
  <2> HIDE DEF timed
  <2>4. ASSUME NEW d \in calls PROVE CallIdentified(d)'
    <3>1. CallIdentified(d)
      BY RefusalParts
    <3> QED
      BY <2>2, <3>1 DEF CallIdentified, Waiting, StateFromProto, Validate
  <2>5. ASSUME NEW d, d = timed PROVE CallIdentified(d)'
    <3>1. CallIdentified(c)
      BY RefusalParts
    <3> QED
      BY <2>1, <2>2, <2>3, <2>5, <3>1 DEF CallIdentified, Waiting, StateFromProto, Validate
  <2>6. ASSUME NEW d \in calls' PROVE CallIdentified(d)'
    BY <2>2, <2>4, <2>5
  <2>7. ASSUME NEW v \in Workers PROVE RefusedOnce(v)'
    BY <1>0, <2>2 DEF RefusedOnce
  <2> QED
    BY <2>6, <2>7, RefusalParts
<1>11. ASSUME NEW c \in calls, RegisterStored(c)
      PROVE  RefusalInv'
  BY <1>11, FinishKeepsRefusals DEF RegisterStored
<1>12. ASSUME NEW c \in calls, HeartbeatAccepted(c)
      PROVE  RefusalInv'
  BY <1>12, FinishKeepsRefusals DEF HeartbeatAccepted
<1>13. ASSUME NEW c \in calls, HeartbeatRejected(c)
      PROVE  RefusalInv'
  BY <1>13, FinishKeepsRefusals DEF HeartbeatRejected
<1>14. ASSUME UNCHANGED <<calls, proc>>
      PROVE  RefusalInv'
  BY <1>14 DEF RefusalInv, RefusalsRecover, Waiting, StateFromProto, Validate
<1>15. ASSUME RouterRestart
      PROVE  RefusalInv'
  <2>1. ASSUME NEW w \in Workers PROVE RefusedOnce(w)'
    <3>0. proc[w] \in ProcType /\ RefusedOnce(w)
      BY <1>0 DEF TypeOK
    <3>1. CASE Waiting(w)
      <4> DEFINE broken == [proc[w] EXCEPT !.phase = "backoff", !.reply = "none"]
      <4>1. proc'[w] = broken
        BY <1>15, <3>1 DEF RouterRestart
      <4>2. broken.refusals = proc[w].refusals /\ broken.phase = "backoff" /\ broken.reply = "none"
        BY <3>0 DEF ProcType
      <4> HIDE DEF broken
      <4> QED
        BY <3>0, <4>1, <4>2 DEF RefusedOnce
    <3>2. CASE ~ Waiting(w)
      <4>1. proc'[w] = proc[w]
        BY <1>15, <3>2 DEF RouterRestart
      <4> QED
        BY <3>0, <4>1 DEF RefusedOnce
    <3> QED
      BY <3>1, <3>2
  <2>2. calls' = {}
    BY <1>15 DEF RouterRestart
  <2> QED
    BY <2>1, <2>2, RefusalParts
<1>16. (\E k \in Readers : SnapshotTimed(k) \/ SnapshotCopied(k)) \/ Tick \/ UNCHANGED vars
         => UNCHANGED <<calls, proc>>
  BY DEF SnapshotTimed, SnapshotCopied, Tick, vars
<1> QED
  BY <1>1, <1>2, <1>3, <1>4, <1>5, <1>6, <1>7, <1>8, <1>9, <1>10, <1>11, <1>12, <1>13, <1>14,
     <1>15, <1>16 DEF Next, WorkerStep, HandlerStep

-----------------------------------------------------------------------------
(* The inductive invariant: types, recorded times and calls hold together;    *)
(* a timed Register carries a valid state, which the types need.             *)
RegistryInv == TypeOK /\ HeardInv /\ RefusalInv

(* Every behaviour keeps the inductive invariant. *)
LEMMA Invariance == Spec => []RegistryInv
<1>1. Init => RegistryInv
  <2> SUFFICES ASSUME Init PROVE RegistryInv
    OBVIOUS
  <2>1. TypeOK
    BY TypeInit
  <2>2. HeardInv
    BY DEF Init, HeardInv, NoGhosts
  <2>3. RefusalInv
    BY DEF Init, RefusalInv, RefusalsRecover
  <2> QED
    BY <2>1, <2>2, <2>3 DEF RegistryInv
<1>2. RegistryInv /\ [Next]_vars => RegistryInv'
  <2> SUFFICES ASSUME RegistryInv, [Next]_vars PROVE RegistryInv'
    OBVIOUS
  <2>1. TypeOK'
    BY TypeStep DEF RegistryInv
  <2>2. HeardInv' /\ RefusalInv'
    BY <2>1, HeardStep, RefusalStep DEF RegistryInv
  <2> QED
    BY <2>1, <2>2 DEF RegistryInv
<1> QED
  BY <1>1, <1>2, PTL DEF Spec

(* The variables of the registry, its handlers and the registration loops keep *)
(* their types; a state that validate refuses is never stored.                *)
THEOREM TypeCorrectness == Spec => []TypeOK
<1>1. RegistryInv => TypeOK
  BY DEF RegistryInv
<1> QED
  BY <1>1, Invariance, PTL

(* No snapshot offers a worker the router has not heard of within StaleAfter. *)
THEOREM GhostsExpire == Spec => []NoGhosts
<1>1. RegistryInv => NoGhosts
  BY DEF RegistryInv, HeardInv
<1> QED
  BY <1>1, Invariance, PTL

(* No worker is refused twice in a row for a well-formed state. *)
THEOREM RefusalsAreSingle == Spec => []RefusalsRecover
<1>1. RegistryInv => RefusalsRecover
  BY DEF RegistryInv, RefusalInv
<1> QED
  BY <1>1, Invariance, PTL
=============================================================================
