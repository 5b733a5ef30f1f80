--------------------------- MODULE MockWorkerProofs ---------------------------
(***************************************************************************)
(* Proofs about MockWorker.tla for any number of calls, any requests and any *)
(* configuration: the load counters are the load, what a client receives is  *)
(* one generation in order, and the prefix cache stays in step and within    *)
(* its limits.                                                              *)
(***************************************************************************)
EXTENDS MockWorker, SequenceTheorems

(* The number of tokens runJob produces for a request. *)
Limit(request) == IF request.outputs > OutputCap THEN OutputCap ELSE request.outputs

(* Nothing has been produced for call c. *)
Fresh(c) == call[c].sent = <<>> /\ call[c].results = NoResult

(* The chunks sent so far are the first ones of the call's generation; its    *)
(* result channel holds the next one, or an error at a place where runJob     *)
(* raises one; the status tells a whole generation from a part.              *)
GenerationInv(c) ==
    LET n == Len(call[c].sent)
        limit == Limit(call[c].request)
    IN  /\ n <= limit + 1
        /\ \A i \in 1 .. n : /\ i <= limit => call[c].sent[i] = i - 1
                             /\ i > limit => call[c].sent[i] = Final
        /\ call[c].status = "ok" <=> n = limit + 1
        /\ call[c].status = "injected" => n \in {0, failAfter}
        /\ call[c].pc # "ended" => call[c].status = "none"
        /\ call[c].pc \in {"idle", "enqueue"} => Fresh(c)
        /\ call[c].pc \in {"enqueue", "stream"} => call[c].request \in Requests
        /\ call[c].pc = "idle" => call[c].request = NoRequest
        /\ call[c].results \in Nat => call[c].results = n /\ n < limit
        /\ call[c].results = Final => n = limit
        /\ call[c].results = Failure => n \in {0, failAfter} /\ n <= limit

(* A queued job has its handler behind the send to the queue and no output. *)
QueuedInv(c) ==
    c \in ToSet(queue) => /\ call[c].pc \in {"stream", "ended"}
                          /\ call[c].request \in Requests
                          /\ Fresh(c)

(* The token loop has not reached the injected failure. *)
Unfailed == failAfter = 0 \/ disp.index < failAfter

(* Inside the token loop the handler has received, or finds in the channel,    *)
(* exactly the tokens before the loop's index.                               *)
LoopInv(c) ==
    /\ disp.index <= Limit(call[c].request)
    /\ \/ call[c].results = NoResult /\ Len(call[c].sent) = disp.index
       \/ call[c].results \in Nat /\ call[c].results + 1 = disp.index

(* What runJob is about to send is what the loop has come to. *)
SendInv(c) ==
    /\ disp.out # NoResult
    /\ disp.out \in Nat => /\ disp.out = disp.index
                           /\ disp.index < Limit(call[c].request)
                           /\ Unfailed
    /\ disp.out = Final => disp.index = Limit(call[c].request)
    /\ disp.out = Failure => disp.index \in {0, failAfter}

(* The dispatcher's job is out of the queue, and its position in runJob tells  *)
(* what its handler has got.                                                *)
JobInv(c) ==
    c = disp.job => /\ call[c].pc \in {"stream", "ended"}
                    /\ call[c].request \in Requests
                    /\ c \notin ToSet(queue)
                    /\ disp.at \in {"taken", "prefill"} => Fresh(c) /\ disp.index = 0
                    /\ disp.at \in {"decode", "cache", "send"} => LoopInv(c)
                    /\ disp.at = "decode" => /\ disp.index < Limit(call[c].request)
                                             /\ Unfailed
                    /\ disp.at = "cache" => disp.index = Limit(call[c].request)
                    /\ disp.at = "send" => SendInv(c)

(* No two places of the queue hold the same job. *)
QueueDistinct == \A i, j \in 1 .. Len(queue) : queue[i] = queue[j] => i = j

(* The dispatcher has a job exactly while it is in runJob. *)
IdleInv ==
    /\ disp.job = NoCall <=> disp.at \in {"idle", "exited"}
    /\ disp.at = "idle" => disp.index = 0

(* The types of what handlers and dispatcher share. *)
Typed ==
    /\ call \in [Calls -> CallType]
    /\ queue \in Seq(Calls)
    /\ disp \in DispType
    /\ failBefore \in Nat
    /\ failAfter \in Nat

CallInv(c) == GenerationInv(c) /\ QueuedInv(c) /\ JobInv(c)

(* The inductive invariant without the counters. *)
JobsInv ==
    /\ Typed
    /\ QueueDistinct
    /\ IdleInv
    /\ \A c \in Calls : CallInv(c)

-----------------------------------------------------------------------------
(* The step leaves call c as it is but for its context. *)
SameCall(c) ==
    /\ call'[c].pc = call[c].pc
    /\ call'[c].request = call[c].request
    /\ call'[c].results = call[c].results
    /\ call'[c].sent = call[c].sent
    /\ call'[c].status = call[c].status

(* The step gives call c these fields and leaves every other call alone. *)
CallBecomes(c, pc, request, results, sent, status) ==
    /\ call' \in [Calls -> CallType]
    /\ \A d \in Calls : d # c => call'[d] = call[d]
    /\ call'[c].pc = pc
    /\ call'[c].request = request
    /\ call'[c].results = results
    /\ call'[c].sent = sent
    /\ call'[c].status = status

(* Replacing one call by another of the same type. *)
LEMMA CallReplaced ==
    ASSUME call \in [Calls -> CallType], NEW c \in Calls, NEW new \in CallType,
           call' = [call EXCEPT ![c] = new]
    PROVE  CallBecomes(c, new.pc, new.request, new.results, new.sent, new.status)
<1>1. call'[c] = new /\ call' \in [Calls -> CallType]
  OBVIOUS
<1>2. \A d \in Calls : d # c => call'[d] = call[d]
  OBVIOUS
<1> QED
  BY <1>1, <1>2 DEF CallBecomes

(* The handler's return. *)
LEMMA EndEffect ==
    ASSUME call \in [Calls -> CallType], NEW c \in Calls,
           NEW status \in {"invalid", "exhausted", "canceled", "unavailable", "injected"},
           End(c, status)
    PROVE  CallBecomes(c, "ended", call[c].request, call[c].results, call[c].sent, status)
<1> DEFINE new == [call[c] EXCEPT !.pc = "ended", !.status = status, !.done = TRUE]
<1>1. call' = [call EXCEPT ![c] = new]
  BY Zenon DEF End
<1>2. ASSUME NEW k \in CallType
      PROVE  LET r == [k EXCEPT !.pc = "ended", !.status = status, !.done = TRUE]
             IN  /\ r \in CallType /\ r.pc = "ended" /\ r.request = k.request
                 /\ r.results = k.results /\ r.sent = k.sent /\ r.status = status
  BY DEF CallType
<1>3. call[c] \in CallType
  OBVIOUS
<1>4. /\ new \in CallType /\ new.pc = "ended" /\ new.request = call[c].request
      /\ new.results = call[c].results /\ new.sent = call[c].sent /\ new.status = status
  BY <1>2, <1>3
<1> HIDE DEF new
<1> QED
  BY <1>1, <1>4, CallReplaced

(* addWaiting. *)
LEMMA AddWaitingEffect ==
    ASSUME call \in [Calls -> CallType], NEW c \in Calls, NEW request \in Requests,
           AddWaiting(c, request)
    PROVE  CallBecomes(c, "enqueue", request, call[c].results, call[c].sent, call[c].status)
<1> DEFINE new == [call[c] EXCEPT !.pc = "enqueue", !.request = request]
<1>1. call' = [call EXCEPT ![c] = new]
  BY Zenon DEF AddWaiting
<1>2. ASSUME NEW k \in CallType
      PROVE  LET r == [k EXCEPT !.pc = "enqueue", !.request = request]
             IN  /\ r \in CallType /\ r.pc = "enqueue" /\ r.request = request
                 /\ r.results = k.results /\ r.sent = k.sent /\ r.status = k.status
  BY DEF CallType
<1>3. call[c] \in CallType
  OBVIOUS
<1>4. /\ new \in CallType /\ new.pc = "enqueue" /\ new.request = request
      /\ new.results = call[c].results /\ new.sent = call[c].sent
      /\ new.status = call[c].status
  BY <1>2, <1>3
<1> HIDE DEF new
<1> QED
  BY <1>1, <1>4, CallReplaced

(* The send to the queue. *)
LEMMA EnqueueEffect ==
    ASSUME call \in [Calls -> CallType], NEW c \in Calls, Enqueue(c)
    PROVE  CallBecomes(c, "stream", call[c].request, call[c].results, call[c].sent,
                       call[c].status)
<1> DEFINE new == [call[c] EXCEPT !.pc = "stream"]
<1>1. call' = [call EXCEPT ![c] = new]
  BY Zenon DEF Enqueue
<1>2. ASSUME NEW k \in CallType
      PROVE  LET r == [k EXCEPT !.pc = "stream"]
             IN  /\ r \in CallType /\ r.pc = "stream" /\ r.request = k.request
                 /\ r.results = k.results /\ r.sent = k.sent /\ r.status = k.status
  BY DEF CallType
<1>3. call[c] \in CallType
  OBVIOUS
<1>4. /\ new \in CallType /\ new.pc = "stream" /\ new.request = call[c].request
      /\ new.results = call[c].results /\ new.sent = call[c].sent
      /\ new.status = call[c].status
  BY <1>2, <1>3
<1> HIDE DEF new
<1> QED
  BY <1>1, <1>4, CallReplaced

(* A chunk goes from the channel to the stream; the final one ends the call. *)
LEMMA ReceiveEffect ==
    ASSUME call \in [Calls -> CallType], NEW c \in Calls, ReceiveChunk(c)
    PROVE  CallBecomes(c, IF call[c].results = Final THEN "ended" ELSE "stream",
                       call[c].request, NoResult, Append(call[c].sent, call[c].results),
                       IF call[c].results = Final THEN "ok" ELSE call[c].status)
<1> DEFINE result == call[c].results
           new == [call[c] EXCEPT !.results = NoResult, !.sent = Append(@, result),
                                  !.pc = IF result = Final THEN "ended" ELSE @,
                                  !.status = IF result = Final THEN "ok" ELSE @,
                                  !.done = @ \/ result = Final]
<1>1. call' = [call EXCEPT ![c] = new]
  BY Zenon DEF ReceiveChunk
<1>2. call[c] \in CallType /\ call[c].pc = "stream"
  BY DEF ReceiveChunk
<1>3. Append(call[c].sent, result) \in Seq(Result) /\ NoResult \in Result
  BY <1>2, AppendProperties DEF CallType, Result
<1>4. CASE result = Final
  <2>1. new = [call[c] EXCEPT !.results = NoResult, !.sent = Append(call[c].sent, result),
                              !.pc = "ended", !.status = "ok", !.done = TRUE]
    BY <1>4, Zenon
  <2> DEFINE old == call[c]
             sent == Append(call[c].sent, result)
  <2>2. /\ old \in CallType /\ sent \in Seq(Result)
        /\ new = [old EXCEPT !.results = NoResult, !.sent = sent,
                             !.pc = "ended", !.status = "ok", !.done = TRUE]
    BY <1>2, <1>3, <2>1, Zenon
  <2> HIDE DEF new, result, old, sent
  <2>3. /\ new \in CallType /\ new.pc = "ended" /\ new.request = old.request
        /\ new.results = NoResult /\ new.sent = sent /\ new.status = "ok"
    BY <1>3, <2>2 DEF CallType
  <2>4. CallBecomes(c, "ended", call[c].request, NoResult, Append(call[c].sent, result), "ok")
    BY <1>1, <2>3, CallReplaced DEF old, sent
  <2> QED
    BY <1>4, <2>4, Zenon DEF result
<1>5. CASE result # Final
  <2>1. new = [call[c] EXCEPT !.results = NoResult, !.sent = Append(call[c].sent, result)]
    <3>1. ASSUME NEW k \in CallType, NEW sent, k.pc = "stream"
          PROVE  [k EXCEPT !.results = NoResult, !.sent = sent, !.pc = k.pc,
                           !.status = k.status, !.done = k.done \/ FALSE]
                 = [k EXCEPT !.results = NoResult, !.sent = sent]
      BY <3>1 DEF CallType
    <3>2. new = [call[c] EXCEPT !.results = NoResult, !.sent = Append(call[c].sent, result),
                                !.pc = call[c].pc, !.status = call[c].status,
                                !.done = call[c].done \/ FALSE]
      BY <1>5, Zenon
    <3> QED
      BY <1>2, <3>1, <3>2, Zenon
  <2>2. ASSUME NEW k \in CallType, NEW sent \in Seq(Result)
        PROVE  LET r == [k EXCEPT !.results = NoResult, !.sent = sent]
               IN  /\ r \in CallType /\ r.pc = k.pc /\ r.request = k.request
                   /\ r.results = NoResult /\ r.sent = sent /\ r.status = k.status
    BY <1>3 DEF CallType
  <2>3. /\ new \in CallType /\ new.pc = "stream" /\ new.request = call[c].request
        /\ new.results = NoResult /\ new.sent = Append(call[c].sent, result)
        /\ new.status = call[c].status
    <3> HIDE DEF new, result
    <3> QED
      BY <1>2, <1>3, <2>1, <2>2, Zenon
  <2> HIDE DEF new
  <2>4. CallBecomes(c, "stream", call[c].request, NoResult, Append(call[c].sent, result),
                    call[c].status)
    BY <1>1, <2>3, CallReplaced
  <2> QED
    BY <1>5, <2>4, Zenon
<1> QED
  BY <1>4, <1>5

(* The dispatcher's send to the result channel. *)
LEMMA SendEffect ==
    ASSUME call \in [Calls -> CallType], NEW c \in Calls, NEW out \in Result,
           call' = [call EXCEPT ![c].results = out]
    PROVE  CallBecomes(c, call[c].pc, call[c].request, out, call[c].sent, call[c].status)
<1> DEFINE new == [call[c] EXCEPT !.results = out]
<1>1. call' = [call EXCEPT ![c] = new]
  BY Zenon
<1>2. ASSUME NEW k \in CallType
      PROVE  LET r == [k EXCEPT !.results = out]
             IN  /\ r \in CallType /\ r.pc = k.pc /\ r.request = k.request
                 /\ r.results = out /\ r.sent = k.sent /\ r.status = k.status
  BY DEF CallType
<1>3. call[c] \in CallType
  OBVIOUS
<1>4. /\ new \in CallType /\ new.pc = call[c].pc /\ new.request = call[c].request
      /\ new.results = out /\ new.sent = call[c].sent /\ new.status = call[c].status
  BY <1>2, <1>3
<1> HIDE DEF new
<1> QED
  BY <1>1, <1>4, CallReplaced

(* Cancelling a context changes nothing else of any call. *)
LEMMA CancelEffect ==
    ASSUME call \in [Calls -> CallType],
           StopServer \/ \E c \in Calls : CallerCancels(c)
    PROVE  /\ call' \in [Calls -> CallType]
           /\ \A d \in Calls : SameCall(d)
<1>1. ASSUME NEW k \in CallType, NEW b \in BOOLEAN
      PROVE  LET r == [k EXCEPT !.done = b]
             IN  /\ r \in CallType /\ r.pc = k.pc /\ r.request = k.request
                 /\ r.results = k.results /\ r.sent = k.sent /\ r.status = k.status
  BY DEF CallType
<1>2. CASE StopServer
  <2>1. call' = [c \in Calls |->
                   [call[c] EXCEPT !.done = call[c].done \/ call[c].pc \in {"enqueue", "stream"}]]
    BY <1>2, Zenon DEF StopServer
  <2>2. ASSUME NEW d \in Calls
        PROVE  call'[d] \in CallType /\ SameCall(d)
    <3>1. /\ call[d] \in CallType
          /\ (call[d].done \/ call[d].pc \in {"enqueue", "stream"}) \in BOOLEAN
      BY DEF CallType
    <3>2. call'[d] = [call[d] EXCEPT !.done = call[d].done
                                              \/ call[d].pc \in {"enqueue", "stream"}]
      BY <2>1, Zenon
    <3> DEFINE ended == call[d].done \/ call[d].pc \in {"enqueue", "stream"}
               new == [call[d] EXCEPT !.done = ended]
    <3>3. ended \in BOOLEAN /\ call'[d] = new
      BY <3>1, <3>2, Zenon
    <3> HIDE DEF ended
    <3>4. /\ new \in CallType /\ new.pc = call[d].pc /\ new.request = call[d].request
          /\ new.results = call[d].results /\ new.sent = call[d].sent
          /\ new.status = call[d].status
      BY <1>1, <3>1, <3>3
    <3> HIDE DEF new
    <3> QED
      BY <3>3, <3>4, Zenon DEF SameCall
  <2> QED
    BY <2>1, <2>2
<1>3. ASSUME NEW c \in Calls, CallerCancels(c)
      PROVE  call' \in [Calls -> CallType] /\ \A d \in Calls : SameCall(d)
  <2> DEFINE new == [call[c] EXCEPT !.done = TRUE]
  <2>1. call' = [call EXCEPT ![c] = new]
    BY <1>3, Zenon DEF CallerCancels
  <2>2. /\ new \in CallType /\ new.pc = call[c].pc /\ new.request = call[c].request
        /\ new.results = call[c].results /\ new.sent = call[c].sent
        /\ new.status = call[c].status
    BY <1>1
  <2> HIDE DEF new
  <2>3. CallBecomes(c, call[c].pc, call[c].request, call[c].results, call[c].sent,
                    call[c].status)
    BY <2>1, <2>2, CallReplaced
  <2> QED
    BY <2>3 DEF CallBecomes, SameCall
<1> QED
  BY <1>2, <1>3

-----------------------------------------------------------------------------
(* What a request asks for is positive and its work bounded. *)
LEMMA RequestTyped ==
    ASSUME NEW request \in Requests \union {NoRequest}
    PROVE  /\ Limit(request) \in Nat
           /\ request.work \in 0 .. MaxWork
           /\ request \in Requests => Limit(request) > 0
<1>1. CASE request \in Requests
  BY <1>1, RequestsAssumption, ConfigAssumption DEF Limit
<1>2. CASE request = NoRequest
  <2>1. request.work = 0 /\ request.outputs = 0
    BY <1>2 DEF NoRequest
  <2>2. request \in Requests => request.outputs # 0
    BY RequestsAssumption
  <2> QED
    BY <2>1, <2>2, RequestsAssumption, ConfigAssumption DEF Limit
<1> QED
  BY <1>1, <1>2

(* The fields of a call. *)
LEMMA CallTyped ==
    ASSUME Typed, NEW c \in Calls
    PROVE  /\ call[c].request \in Requests \union {NoRequest}
           /\ call[c].results \in Result
           /\ call[c].sent \in Seq(Result)
           /\ Len(call[c].sent) \in Nat
           /\ Limit(call[c].request) \in Nat
           /\ disp.index \in Nat
           /\ failAfter \in Nat
<1>1. call[c] \in CallType
  BY DEF Typed
<1>2. /\ call[c].request \in Requests \union {NoRequest}
      /\ call[c].results \in Result
      /\ call[c].sent \in Seq(Result)
  BY <1>1 DEF CallType
<1>3. Limit(call[c].request) \in Nat
  BY <1>2, RequestTyped
<1>4. Len(call[c].sent) \in Nat
  BY <1>2, LenProperties
<1> QED
  BY <1>2, <1>3, <1>4 DEF Typed, DispType

(* A call that a step leaves alone keeps its invariant. *)
LEMMA CallKept ==
    ASSUME NEW c \in Calls, CallInv(c), SameCall(c), UNCHANGED <<queue, disp, failAfter>>
    PROVE  CallInv(c)'
BY DEF CallInv, SameCall, GenerationInv, QueuedInv, JobInv, Fresh, LoopInv, SendInv, Unfailed

(* A step of one handler that leaves queue and dispatcher alone. *)
LEMMA HandlerKeeps ==
    ASSUME JobsInv, NEW c \in Calls, UNCHANGED <<queue, disp, failAfter, failBefore>>,
           call' \in [Calls -> CallType], \A d \in Calls : d # c => call'[d] = call[d],
           CallInv(c)'
    PROVE  JobsInv'
<1>1. ASSUME NEW d \in Calls, d # c
      PROVE  CallInv(d)'
  <2>1. SameCall(d)
    BY <1>1 DEF SameCall
  <2> QED
    BY <2>1, CallKept DEF JobsInv
<1> QED
  BY <1>1 DEF JobsInv, Typed, QueueDistinct, IdleInv

(* Every return of Generate but the one after the final chunk. *)
LEMMA EndStep ==
    ASSUME JobsInv, NEW c \in Calls, UNCHANGED <<queue, disp, failAfter, failBefore>>,
           NEW status \in {"invalid", "exhausted", "canceled", "unavailable", "injected"},
           call[c].pc # "ended", status = "injected" => call[c].results = Failure,
           End(c, status)
    PROVE  JobsInv'
<1>1. CallBecomes(c, "ended", call[c].request, call[c].results, call[c].sent, status)
  BY EndEffect DEF JobsInv, Typed
<1>2. CallInv(c)
  BY DEF JobsInv
<1>3. GenerationInv(c)'
  BY <1>1, <1>2 DEF CallBecomes, CallInv, GenerationInv, Fresh
<1>4. QueuedInv(c)'
  BY <1>1, <1>2 DEF CallBecomes, CallInv, QueuedInv, Fresh
<1>5. JobInv(c)'
  BY <1>1, <1>2 DEF CallBecomes, CallInv, JobInv, Fresh, LoopInv, SendInv, Unfailed
<1> QED
  BY <1>1, <1>3, <1>4, <1>5, HandlerKeeps DEF CallBecomes, CallInv

(* addWaiting starts the call with its request. *)
LEMMA AddWaitingStep ==
    ASSUME JobsInv, NEW c \in Calls, NEW request \in Requests, AddWaiting(c, request)
    PROVE  JobsInv'
<1>1. CallBecomes(c, "enqueue", request, call[c].results, call[c].sent, call[c].status)
  BY AddWaitingEffect DEF JobsInv, Typed
<1>2. CallInv(c) /\ call[c].pc = "idle"
  BY DEF JobsInv, AddWaiting
<1>3. UNCHANGED <<queue, disp, failAfter, failBefore>>
  BY DEF AddWaiting, faults
<1>4. Limit(request) \in Nat
  BY RequestTyped
<1>5. call[c].sent = <<>> /\ call[c].results = NoResult /\ call[c].status = "none"
  BY <1>2 DEF CallInv, GenerationInv, Fresh
<1>6. GenerationInv(c)'
  BY <1>1, <1>4, <1>5 DEF CallBecomes, GenerationInv, Fresh, NoResult, Final, Failure
<1>7. QueuedInv(c)' /\ JobInv(c)'
  BY <1>2, <1>3 DEF CallInv, QueuedInv, JobInv
<1> QED
  BY <1>1, <1>3, <1>6, <1>7, HandlerKeeps DEF CallBecomes, CallInv

(* The elements of a queue after a send. *)
LEMMA ToSetAppend ==
    ASSUME NEW s \in Seq(Calls), NEW x \in Calls
    PROVE  ToSet(Append(s, x)) = ToSet(s) \union {x}
<1>1. ASSUME NEW y \in ToSet(s) PROVE y \in ToSet(Append(s, x))
  BY DEF ToSet
<1>2. x \in ToSet(Append(s, x))
  BY DEF ToSet
<1>3. ASSUME NEW y \in ToSet(Append(s, x)) PROVE y \in ToSet(s) \union {x}
  BY DEF ToSet
<1> QED
  BY <1>1, <1>2, <1>3

(* The elements of a queue without duplicates after a receive. *)
LEMMA ToSetTail ==
    ASSUME NEW s \in Seq(Calls), s # <<>>,
           \A i, j \in 1 .. Len(s) : s[i] = s[j] => i = j
    PROVE  /\ Head(s) \in Calls /\ Head(s) \in ToSet(s)
           /\ Tail(s) \in Seq(Calls)
           /\ ToSet(Tail(s)) = ToSet(s) \ {Head(s)}
           /\ \A i, j \in 1 .. Len(Tail(s)) : Tail(s)[i] = Tail(s)[j] => i = j
<1>1. Head(s) \in Calls /\ Head(s) \in ToSet(s) /\ Tail(s) \in Seq(Calls)
  BY DEF ToSet
<1>2. ToSet(Tail(s)) = ToSet(s) \ {Head(s)}
  <2>1. /\ Len(s) \in Nat /\ Len(s) >= 1 /\ Head(s) = s[1]
        /\ Len(Tail(s)) = Len(s) - 1
        /\ \A i \in 1 .. Len(s) - 1 : Tail(s)[i] = s[i + 1]
        /\ DOMAIN s = 1 .. Len(s) /\ DOMAIN Tail(s) = 1 .. Len(s) - 1
    OBVIOUS
  <2>2. ASSUME NEW y \in ToSet(Tail(s)) PROVE y \in ToSet(s) \ {Head(s)}
    <3>1. PICK i \in 1 .. Len(s) - 1 : y = Tail(s)[i]
      BY <2>1 DEF ToSet
    <3>2. y = s[i + 1] /\ i + 1 \in 1 .. Len(s) /\ i + 1 # 1 /\ 1 \in 1 .. Len(s)
      BY <2>1, <3>1
    <3> QED
      BY <2>1, <3>2 DEF ToSet
  <2>3. ASSUME NEW y \in ToSet(s), y # Head(s) PROVE y \in ToSet(Tail(s))
    <3>1. PICK i \in 1 .. Len(s) : y = s[i]
      BY <2>1 DEF ToSet
    <3>2. i - 1 \in 1 .. Len(s) - 1 /\ y = Tail(s)[i - 1]
      BY <2>1, <2>3, <3>1
    <3> QED
      BY <2>1, <3>2 DEF ToSet
  <2> QED
    BY <2>2, <2>3
<1>3. \A i, j \in 1 .. Len(Tail(s)) : Tail(s)[i] = Tail(s)[j] => i = j
  OBVIOUS
<1> QED
  BY <1>1, <1>2, <1>3

(* The send to the queue: a job enters it once, with nothing produced. *)
LEMMA EnqueueStep ==
    ASSUME JobsInv, NEW c \in Calls, Enqueue(c)
    PROVE  JobsInv'
<1>1. CallBecomes(c, "stream", call[c].request, call[c].results, call[c].sent, call[c].status)
  BY EnqueueEffect DEF JobsInv, Typed
<1>2. CallInv(c) /\ call[c].pc = "enqueue"
  BY DEF JobsInv, Enqueue
<1>3. UNCHANGED <<disp, failAfter, failBefore>> /\ queue' = Append(queue, c)
  BY DEF Enqueue, faults
<1>4. queue \in Seq(Calls) /\ ToSet(queue') = ToSet(queue) \union {c} /\ queue' \in Seq(Calls)
  BY <1>3, ToSetAppend, AppendProperties DEF JobsInv, Typed
<1>5. c \notin ToSet(queue) /\ c # disp.job
  BY <1>2 DEF CallInv, QueuedInv, JobInv
<1>6. CallInv(c)'
  <2>1. GenerationInv(c)'
    BY <1>1, <1>2, <1>3 DEF CallBecomes, CallInv, GenerationInv, Fresh
  <2>2. QueuedInv(c)'
    BY <1>1, <1>2 DEF CallBecomes, CallInv, GenerationInv, QueuedInv, Fresh
  <2>3. JobInv(c)'
    BY <1>3, <1>5 DEF JobInv
  <2> QED
    BY <2>1, <2>2, <2>3 DEF CallInv
<1>7. ASSUME NEW d \in Calls, d # c
      PROVE  CallInv(d)'
  <2>1. CallInv(d) /\ call'[d] = call[d] /\ (d \in ToSet(queue') <=> d \in ToSet(queue))
    BY <1>1, <1>4, <1>7 DEF JobsInv, CallBecomes
  <2> QED
    BY <1>3, <2>1
       DEF CallInv, GenerationInv, QueuedInv, JobInv, Fresh, LoopInv, SendInv, Unfailed
<1>8. QueueDistinct'
  <2>1. \A i \in 1 .. Len(queue) : queue[i] # c
    BY <1>4, <1>5 DEF ToSet
  <2>2. \A i, j \in 1 .. Len(queue) : queue[i] = queue[j] => i = j
    BY DEF JobsInv, QueueDistinct
  <2>3. Len(queue') = Len(queue) + 1 /\ queue'[Len(queue) + 1] = c /\ Len(queue) \in Nat
        /\ \A i \in 1 .. Len(queue) : queue'[i] = queue[i]
    BY <1>3, <1>4, AppendProperties, LenProperties
  <2> QED
    BY <2>1, <2>2, <2>3 DEF QueueDistinct
<1> QED
  BY <1>1, <1>3, <1>4, <1>6, <1>7, <1>8 DEF JobsInv, Typed, IdleInv, CallBecomes

(* A received chunk is the next one of the generation. *)
LEMMA ReceiveStep ==
    ASSUME JobsInv, NEW c \in Calls, ReceiveChunk(c)
    PROVE  JobsInv'
<1> DEFINE result == call[c].results
           sent == call[c].sent
           n == Len(sent)
           limit == Limit(call[c].request)
<1>1. CallBecomes(c, IF result = Final THEN "ended" ELSE "stream", call[c].request, NoResult,
                  Append(sent, result), IF result = Final THEN "ok" ELSE call[c].status)
  BY ReceiveEffect DEF JobsInv, Typed
<1>2. CallInv(c) /\ call[c].pc = "stream" /\ result \notin {NoResult, Failure}
  BY DEF JobsInv, ReceiveChunk
<1>3. UNCHANGED <<queue, disp, failAfter, failBefore>>
  BY DEF ReceiveChunk, faults
<1>4. result \in Result /\ sent \in Seq(Result) /\ n \in Nat /\ limit \in Nat /\ failAfter \in Nat
      /\ disp.index \in Nat
  BY CallTyped DEF JobsInv
<1>5. /\ Len(Append(sent, result)) = n + 1
      /\ Append(sent, result)[n + 1] = result
      /\ \A i \in 1 .. n : Append(sent, result)[i] = sent[i]
  BY <1>4, AppendProperties
<1>6. /\ n <= limit
      /\ result \in Nat => result = n /\ n < limit
      /\ result = Final => n = limit
      /\ result \in Nat \/ result = Final
      /\ call[c].status = "none"
  BY <1>2, <1>4 DEF CallInv, GenerationInv, Result
<1>7. GenerationInv(c)'
  <2>1. /\ call'[c].sent = Append(sent, result) /\ call'[c].request = call[c].request
        /\ call'[c].results = NoResult
        /\ call'[c].pc = (IF result = Final THEN "ended" ELSE "stream")
        /\ call'[c].status = (IF result = Final THEN "ok" ELSE "none")
    BY <1>1, <1>6 DEF CallBecomes
  <2>2. /\ \A i \in 1 .. n : /\ i <= limit => sent[i] = i - 1
                             /\ i > limit => sent[i] = Final
        /\ call[c].request \in Requests
    BY <1>2 DEF CallInv, GenerationInv
  <2>3. Len(call'[c].sent) = n + 1 /\ Limit(call'[c].request) = limit
    BY <1>5, <2>1
  <2>4. \A i \in 1 .. n + 1 : /\ i <= limit => call'[c].sent[i] = i - 1
                              /\ i > limit => call'[c].sent[i] = Final
    BY <1>4, <1>5, <1>6, <2>1, <2>2
  <2>5. result = Final <=> n + 1 = limit + 1
    BY <1>4, <1>6 DEF Final
  <2> HIDE DEF n, limit, result, sent
  <2>6. call'[c].results \notin Nat /\ call'[c].results # Final /\ call'[c].results # Failure
    BY <2>1 DEF NoResult, Final, Failure
  <2>7. /\ call'[c].pc # "idle" /\ call'[c].pc # "enqueue" /\ call'[c].status # "injected"
        /\ call'[c].pc # "ended" => call'[c].status = "none"
        /\ call'[c].status = "ok" <=> result = Final
    BY <2>1
  <2> QED
    BY <1>4, <1>6, <2>1, <2>2, <2>3, <2>4, <2>5, <2>6, <2>7 DEF GenerationInv
<1>8. QueuedInv(c)'
  BY <1>2, <1>3 DEF CallInv, QueuedInv, Fresh
<1>9. JobInv(c)'
  <2>1. /\ call'[c].pc \in {"ended", "stream"} /\ call'[c].request = call[c].request
        /\ call'[c].results = NoResult /\ call'[c].sent = Append(sent, result)
    BY <1>1 DEF CallBecomes
  <2>2. CASE c # disp.job
    BY <2>2, <1>3 DEF JobInv
  <2>3. CASE c = disp.job
    <3>1. JobInv(c)
      BY <1>2 DEF CallInv
    <3>2. disp.at \notin {"taken", "prefill"}
      BY <1>2, <2>3, <3>1 DEF JobInv, Fresh
    <3>3. disp.at \in {"decode", "cache", "send"} => LoopInv(c)'
      <4>1. SUFFICES ASSUME disp.at \in {"decode", "cache", "send"} PROVE LoopInv(c)'
        OBVIOUS
      <4>2. result \in Nat /\ result + 1 = disp.index /\ disp.index <= limit
        BY <1>2, <2>3, <3>1, <4>1 DEF JobInv, LoopInv
      <4>3. Len(call'[c].sent) = disp.index
        BY <1>5, <1>6, <2>1, <4>2
      <4> QED
        BY <1>3, <2>1, <4>2, <4>3 DEF LoopInv
    <3> QED
      BY <1>3, <2>1, <2>3, <3>1, <3>2, <3>3 DEF JobInv, SendInv, Unfailed
  <2> QED
    BY <2>2, <2>3
<1> QED
  BY <1>1, <1>3, <1>7, <1>8, <1>9, HandlerKeeps DEF CallBecomes, CallInv

(* Cancelled contexts touch nothing of this. *)
LEMMA CancelStep ==
    ASSUME JobsInv, StopServer \/ \E c \in Calls : CallerCancels(c)
    PROVE  JobsInv'
<1>1. call' \in [Calls -> CallType] /\ \A d \in Calls : SameCall(d)
  BY CancelEffect DEF JobsInv, Typed
<1>2. UNCHANGED <<queue, disp, failAfter, failBefore>>
  BY DEF StopServer, CallerCancels, faults
<1>3. \A d \in Calls : CallInv(d)'
  BY <1>1, <1>2, CallKept DEF JobsInv
<1> QED
  BY <1>1, <1>2, <1>3 DEF JobsInv, Typed, QueueDistinct, IdleInv

-----------------------------------------------------------------------------
(* A step of the dispatcher within runJob that leaves calls and queue alone. *)
LEMMA DispatcherKeeps ==
    ASSUME JobsInv, NEW c \in Calls, c = disp.job, UNCHANGED <<call, queue, failAfter>>,
           failBefore' \in Nat, disp' \in DispType, disp'.job = c,
           disp'.at \notin {"idle", "exited"}, JobInv(c)'
    PROVE  JobsInv'
<1>1. ASSUME NEW d \in Calls
      PROVE  CallInv(d)'
  <2>1. CallInv(d)
    BY DEF JobsInv
  <2>2. GenerationInv(d)' /\ QueuedInv(d)'
    BY <2>1 DEF CallInv, GenerationInv, QueuedInv, Fresh
  <2>3. JobInv(d)'
    <3>1. CASE d = c
      BY <3>1
    <3>2. CASE d # c
      BY <3>2 DEF JobInv
    <3> QED
      BY <3>1, <3>2
  <2> QED
    BY <2>2, <2>3 DEF CallInv
<1>2. IdleInv'
  BY CallsAssumption DEF IdleInv
<1> QED
  BY <1>1, <1>2 DEF JobsInv, Typed, QueueDistinct

(* Inside runJob the dispatcher has a job. *)
LEMMA JobAtHand ==
    ASSUME JobsInv, disp.at \notin {"idle", "exited"}
    PROVE  disp.job \in Calls /\ CallInv(disp.job)
<1>1. disp.job # NoCall /\ disp.job \in Calls \union {NoCall}
  BY DEF JobsInv, IdleInv, Typed, DispType
<1> QED
  BY <1>1 DEF JobsInv

(* Taking a job from the queue. *)
LEMMA DequeueStep ==
    ASSUME JobsInv, Dequeue
    PROVE  JobsInv'
<1>1. /\ UNCHANGED <<call, failAfter, failBefore>> /\ disp.at = "idle" /\ queue # <<>>
      /\ disp' = [disp EXCEPT !.at = "taken", !.job = Head(queue)] /\ queue' = Tail(queue)
  BY DEF Dequeue, faults
<1>2. /\ Head(queue) \in Calls /\ Head(queue) \in ToSet(queue)
      /\ queue' \in Seq(Calls)
      /\ ToSet(queue') = ToSet(queue) \ {Head(queue)}
      /\ QueueDistinct'
  BY <1>1, ToSetTail DEF JobsInv, Typed, QueueDistinct
<1>3. /\ disp \in DispType /\ disp.job = NoCall /\ disp.index = 0
  BY <1>1 DEF JobsInv, Typed, IdleInv
<1>4. /\ disp' \in DispType /\ disp'.at = "taken" /\ disp'.job = Head(queue)
      /\ disp'.index = 0
  BY <1>1, <1>2, <1>3 DEF DispType
<1>5. IdleInv'
  BY <1>2, <1>4, CallsAssumption DEF IdleInv
<1>6. ASSUME NEW d \in Calls
      PROVE  CallInv(d)'
  <2>1. CallInv(d)
    BY DEF JobsInv
  <2>2. GenerationInv(d)'
    BY <1>1, <2>1 DEF CallInv, GenerationInv, Fresh
  <2>3. QueuedInv(d)'
    BY <1>1, <1>2, <2>1 DEF CallInv, QueuedInv, Fresh
  <2>4. JobInv(d)'
    BY <1>1, <1>2, <1>4, <2>1 DEF CallInv, QueuedInv, JobInv, Fresh
  <2> QED
    BY <2>2, <2>3, <2>4 DEF CallInv
<1> QED
  BY <1>1, <1>2, <1>4, <1>5, <1>6 DEF JobsInv, Typed

(* moveToRunning, the end of a decode wait, addPrefixes and every wait or send *)
(* that is given up.                                                        *)
LEMMA RunJobStep ==
    ASSUME JobsInv,
           MoveToRunning \/ DecodeOver \/ AddPrefixes \/ WaitInterrupted \/ SendInterrupted
    PROVE  JobsInv'
<1>1. disp.at \notin {"idle", "exited"}
  BY DEF MoveToRunning, DecodeOver, AddPrefixes, WaitInterrupted, SendInterrupted
<1>2. PICK c \in Calls : c = disp.job /\ CallInv(c)
  BY <1>1, JobAtHand
<1>3. JobInv(c) /\ disp \in DispType /\ failBefore \in Nat
  BY <1>2 DEF CallInv, JobsInv, Typed
<1>4. UNCHANGED <<call, queue, failAfter, failBefore>>
  BY DEF MoveToRunning, DecodeOver, AddPrefixes, WaitInterrupted, SendInterrupted, faults
<1>5. CASE MoveToRunning
  <2>1. disp.at = "taken" /\ disp' = [disp EXCEPT !.at = "prefill"]
    BY <1>5 DEF MoveToRunning
  <2>2. /\ disp' \in DispType /\ disp'.at = "prefill" /\ disp'.job = disp.job
        /\ disp'.index = disp.index
    BY <1>3, <2>1 DEF DispType
  <2>3. JobInv(c)'
    BY <1>2, <1>3, <1>4, <2>1, <2>2 DEF JobInv, Fresh
  <2> QED
    BY <1>2, <1>3, <1>4, <2>2, <2>3, DispatcherKeeps
<1>6. CASE DecodeOver
  <2>1. disp.at = "decode" /\ disp' = [disp EXCEPT !.at = "send", !.out = disp.index]
    BY <1>6 DEF DecodeOver
  <2>2. disp.index \in Nat /\ disp.index \in Result
    BY <1>3 DEF DispType, Result
  <2>3. /\ disp' \in DispType /\ disp'.at = "send" /\ disp'.job = disp.job
        /\ disp'.index = disp.index /\ disp'.out = disp.index
    BY <1>3, <2>1, <2>2 DEF DispType
  <2>4. /\ LoopInv(c) /\ disp.index < Limit(call[c].request) /\ Unfailed
    BY <1>2, <1>3, <2>1 DEF JobInv
  <2>5. LoopInv(c)' /\ SendInv(c)'
    BY <1>4, <2>2, <2>3, <2>4 DEF LoopInv, SendInv, Unfailed, NoResult, Final, Failure
  <2>6. JobInv(c)'
    BY <1>2, <1>3, <1>4, <2>3, <2>5 DEF JobInv
  <2> QED
    BY <1>2, <1>3, <1>4, <2>3, <2>6, DispatcherKeeps
<1>7. CASE AddPrefixes
  <2>1. disp.at = "cache" /\ disp' = [disp EXCEPT !.at = "send", !.out = Final]
    BY <1>7 DEF AddPrefixes
  <2>2. /\ disp' \in DispType /\ disp'.at = "send" /\ disp'.job = disp.job
        /\ disp'.index = disp.index /\ disp'.out = Final
    BY <1>3, <2>1 DEF DispType, Result
  <2>3. LoopInv(c) /\ disp.index = Limit(call[c].request)
    BY <1>2, <1>3, <2>1 DEF JobInv
  <2>4. LoopInv(c)' /\ SendInv(c)'
    BY <1>4, <2>2, <2>3 DEF LoopInv, SendInv, NoResult, Final, Failure
  <2>5. JobInv(c)'
    BY <1>2, <1>3, <1>4, <2>2, <2>4 DEF JobInv
  <2> QED
    BY <1>2, <1>3, <1>4, <2>2, <2>5, DispatcherKeeps
<1>8. CASE WaitInterrupted \/ SendInterrupted
  <2>1. disp' = [disp EXCEPT !.at = "finish"]
    BY <1>8 DEF WaitInterrupted, SendInterrupted
  <2>2. disp' \in DispType /\ disp'.at = "finish" /\ disp'.job = disp.job
    BY <1>3, <2>1 DEF DispType
  <2>3. JobInv(c)'
    BY <1>2, <1>3, <1>4, <2>2 DEF JobInv
  <2> QED
    BY <1>2, <1>3, <1>4, <2>2, <2>3, DispatcherKeeps
<1> QED
  BY <1>5, <1>6, <1>7, <1>8

(* Where the head of the token loop leads. *)
LEMMA LoopHead ==
    ASSUME Typed, NEW c \in Calls, c = disp.job, NEW i \in Nat, i <= Limit(call[c].request),
           failAfter = 0 \/ i <= failAfter, disp' = LoopAt(i)
    PROVE  /\ disp' \in DispType /\ disp'.job = c /\ disp'.index = i
           /\ \/ disp'.at = "cache" /\ i = Limit(call[c].request)
              \/ disp'.at = "send" /\ disp'.out = Failure /\ i = failAfter
              \/ /\ disp'.at = "decode" /\ i < Limit(call[c].request)
                 /\ failAfter = 0 \/ i < failAfter
<1>1. disp \in DispType /\ failAfter \in Nat /\ Limit(call[c].request) \in Nat
  BY CallTyped DEF Typed
<1>2. Outputs = Limit(call[c].request)
  BY DEF Outputs, Job, Limit
<1>3. CASE i = Outputs
  <2>1. disp' = [disp EXCEPT !.at = "cache", !.index = i]
    BY <1>3 DEF LoopAt
  <2> QED
    BY <1>1, <1>2, <1>3, <2>1 DEF DispType
<1>4. CASE i # Outputs /\ failAfter > 0 /\ i >= failAfter
  <2>1. disp' = [disp EXCEPT !.at = "send", !.index = i, !.out = Failure]
    BY <1>4 DEF LoopAt
  <2>2. /\ disp' \in DispType /\ disp'.job = c /\ disp'.index = i
        /\ disp'.at = "send" /\ disp'.out = Failure
    BY <1>1, <2>1 DEF DispType, Result
  <2> QED
    BY <1>1, <1>4, <2>2
<1>5. CASE i # Outputs /\ ~ (failAfter > 0 /\ i >= failAfter)
  <2>1. disp' = [disp EXCEPT !.at = "decode", !.index = i]
    BY <1>5 DEF LoopAt
  <2>2. disp' \in DispType /\ disp'.job = c /\ disp'.index = i /\ disp'.at = "decode"
    BY <1>1, <2>1 DEF DispType
  <2> QED
    BY <1>1, <1>2, <1>5, <2>2
<1> QED
  BY <1>3, <1>4, <1>5

(* The end of the prefill wait: an injected failure, or the first round of     *)
(* the token loop.                                                          *)
LEMMA PrefillStep ==
    ASSUME JobsInv, PrefillOver
    PROVE  JobsInv'
<1>1. disp.at = "prefill" /\ UNCHANGED <<call, queue, failAfter>>
  BY DEF PrefillOver
<1>2. PICK c \in Calls : c = disp.job /\ CallInv(c)
  BY <1>1, JobAtHand
<1>3. /\ JobInv(c) /\ Typed /\ disp \in DispType /\ failBefore \in Nat /\ failAfter \in Nat
      /\ Limit(call[c].request) \in Nat
  BY <1>2, CallTyped DEF CallInv, JobsInv, Typed
<1>4. Fresh(c) /\ disp.index = 0 /\ Len(call[c].sent) = 0
  BY <1>1, <1>2, <1>3 DEF JobInv, Fresh
<1>5. CASE failBefore > 0 /\ failBefore' = failBefore - 1
           /\ disp' = [disp EXCEPT !.at = "send", !.out = Failure]
  <2>1. failBefore' \in Nat
    BY <1>3, <1>5
  <2>2. /\ disp' \in DispType /\ disp'.at = "send" /\ disp'.job = disp.job
        /\ disp'.index = 0 /\ disp'.out = Failure
    BY <1>3, <1>4, <1>5 DEF DispType, Result
  <2>3. LoopInv(c)' /\ SendInv(c)'
    BY <1>1, <1>3, <1>4, <2>2 DEF Fresh, LoopInv, SendInv, NoResult, Final, Failure
  <2>4. JobInv(c)'
    BY <1>1, <1>2, <1>3, <2>2, <2>3 DEF JobInv
  <2> QED
    BY <1>1, <1>2, <2>1, <2>2, <2>4, DispatcherKeeps
<1>6. CASE failBefore = 0 /\ failBefore' = failBefore /\ disp' = LoopAt(0)
  <2>1. /\ disp' \in DispType /\ disp'.job = c /\ disp'.index = 0
        /\ \/ disp'.at = "cache" /\ 0 = Limit(call[c].request)
           \/ disp'.at = "send" /\ disp'.out = Failure /\ 0 = failAfter
           \/ /\ disp'.at = "decode" /\ 0 < Limit(call[c].request)
              /\ failAfter = 0 \/ 0 < failAfter
    BY <1>2, <1>3, <1>6, LoopHead
  <2>2. LoopInv(c)'
    BY <1>1, <1>3, <1>4, <2>1 DEF Fresh, LoopInv
  <2>3. disp'.at = "send" => SendInv(c)'
    BY <1>1, <2>1 DEF SendInv, NoResult, Final, Failure
  <2>4. JobInv(c)'
    BY <1>1, <1>2, <1>3, <2>1, <2>2, <2>3 DEF JobInv, Unfailed
  <2> QED
    BY <1>1, <1>2, <1>3, <1>6, <2>1, <2>4, DispatcherKeeps
<1> QED
  BY <1>5, <1>6 DEF PrefillOver

(* The send to the result channel, which is empty: the token, error or final   *)
(* chunk is the one the loop has come to, and the loop goes on after a token.  *)
LEMMA SendStep ==
    ASSUME JobsInv, Send
    PROVE  JobsInv'
<1>1. /\ disp.at = "send" /\ Job.results = NoResult
      /\ UNCHANGED <<queue, failAfter, failBefore>>
  BY DEF Send, faults
<1>2. PICK c \in Calls : c = disp.job /\ CallInv(c)
  BY <1>1, JobAtHand
<1> DEFINE n == Len(call[c].sent)
           limit == Limit(call[c].request)
<1>3. /\ GenerationInv(c) /\ JobInv(c) /\ Typed /\ disp \in DispType /\ failBefore \in Nat
      /\ failAfter \in Nat /\ limit \in Nat /\ n \in Nat /\ disp.index \in Nat
      /\ disp.out \in Result
  BY <1>2, CallTyped DEF CallInv, JobsInv, Typed, DispType
<1>4. call[c].results = NoResult /\ SendInv(c) /\ LoopInv(c)
  BY <1>1, <1>2, <1>3 DEF JobInv, Job
<1>5. n = disp.index /\ n <= limit
  BY <1>4 DEF LoopInv, NoResult
<1>6. CallBecomes(c, call[c].pc, call[c].request, disp.out, call[c].sent, call[c].status)
  BY <1>2, <1>3, SendEffect DEF Send, Typed
<1>7. GenerationInv(c)'
  <2>1. /\ disp.out \in Nat => disp.out = n /\ n < limit
        /\ disp.out = Final => n = limit
        /\ disp.out = Failure => n \in {0, failAfter}
        /\ disp.out # NoResult
    BY <1>4, <1>5 DEF SendInv
  <2>2. call[c].pc \in {"stream", "ended"}
    BY <1>2, <1>3 DEF JobInv
  <2> QED
    BY <1>1, <1>3, <1>5, <1>6, <2>1, <2>2 DEF CallBecomes, GenerationInv
<1>8. QueuedInv(c)'
  BY <1>1, <1>2, <1>3 DEF JobInv, QueuedInv
<1>9. disp' \in DispType /\ disp'.job = c /\ disp'.at \notin {"idle", "exited"} /\ JobInv(c)'
  <2>1. /\ call'[c].pc \in {"stream", "ended"} /\ call'[c].request \in Requests
        /\ c \notin ToSet(queue') /\ call'[c].request = call[c].request
        /\ call'[c].results = disp.out /\ call'[c].sent = call[c].sent
    BY <1>1, <1>2, <1>3, <1>6 DEF JobInv, CallBecomes
  <2>2. CASE disp.out \in Nat
    <3>1. disp' = LoopAt(disp.index + 1)
      BY <2>2 DEF Send
    <3>2. disp.out = disp.index /\ disp.index < limit /\ Unfailed
      BY <1>4, <2>2 DEF SendInv
    <3>3. /\ disp.index + 1 \in Nat /\ disp.index + 1 <= limit
          /\ failAfter = 0 \/ disp.index + 1 <= failAfter
      BY <1>3, <3>2 DEF Unfailed
    <3>4. /\ disp' \in DispType /\ disp'.job = c /\ disp'.index = disp.index + 1
          /\ \/ disp'.at = "cache" /\ disp.index + 1 = limit
             \/ disp'.at = "send" /\ disp'.out = Failure /\ disp.index + 1 = failAfter
             \/ /\ disp'.at = "decode" /\ disp.index + 1 < limit
                /\ failAfter = 0 \/ disp.index + 1 < failAfter
      BY <1>2, <1>3, <3>1, <3>3, LoopHead
    <3>5. LoopInv(c)'
      BY <2>1, <2>2, <3>2, <3>3, <3>4 DEF LoopInv
    <3>6. disp'.at = "send" => SendInv(c)'
      BY <1>1, <3>4 DEF SendInv, NoResult, Final, Failure
    <3>7. disp'.at = "decode" => disp'.index < Limit(call'[c].request) /\ Unfailed'
      BY <1>1, <2>1, <3>4 DEF Unfailed
    <3>8. disp'.at = "cache" => disp'.index = Limit(call'[c].request)
      BY <2>1, <3>4
    <3>9. disp'.at \in {"cache", "send", "decode"}
      BY <3>4
    <3> QED
      BY <2>1, <3>4, <3>5, <3>6, <3>7, <3>8, <3>9 DEF JobInv
  <2>3. CASE disp.out \notin Nat
    <3>1. disp' = [disp EXCEPT !.at = "finish"]
      BY <2>3 DEF Send
    <3>2. disp' \in DispType /\ disp'.job = c /\ disp'.at = "finish"
      BY <1>2, <1>3, <3>1 DEF DispType
    <3> QED
      BY <2>1, <3>2 DEF JobInv
  <2> QED
    BY <2>2, <2>3
<1>10. ASSUME NEW d \in Calls, d # c
       PROVE  CallInv(d)'
  <2>1. CallInv(d) /\ call'[d] = call[d]
    BY <1>6, <1>10 DEF JobsInv, CallBecomes
  <2>2. GenerationInv(d)' /\ QueuedInv(d)'
    BY <1>1, <2>1 DEF CallInv, GenerationInv, QueuedInv, Fresh
  <2>3. JobInv(d)'
    BY <1>9, <1>10 DEF JobInv
  <2> QED
    BY <2>2, <2>3 DEF CallInv
<1>11. IdleInv'
  BY <1>9, CallsAssumption DEF IdleInv
<1>12. Typed' /\ QueueDistinct'
  BY <1>1, <1>6, <1>9 DEF JobsInv, Typed, QueueDistinct, CallBecomes
<1> QED
  BY <1>7, <1>8, <1>9, <1>10, <1>11, <1>12 DEF JobsInv, CallInv

(* finishRunning and the dispatcher's return. *)
LEMMA LeaveStep ==
    ASSUME JobsInv, FinishRunning \/ DispatchExit
    PROVE  JobsInv'
<1>1. UNCHANGED <<call, queue, failAfter, failBefore>>
  BY DEF FinishRunning, DispatchExit, faults
<1>2. disp \in DispType /\ IdleInv
  BY DEF JobsInv, Typed
<1>3. disp' \in DispType /\ disp'.job = NoCall /\ IdleInv'
  <2>1. CASE FinishRunning
    <3>1. disp' = [job |-> NoCall, index |-> 0, out |-> NoResult, at |-> "idle"]
      BY <2>1 DEF FinishRunning
    <3> QED
      BY <3>1 DEF DispType, Result, IdleInv
  <2>2. CASE DispatchExit
    <3>1. disp.at = "idle" /\ disp' = [disp EXCEPT !.at = "exited"]
      BY <2>2 DEF DispatchExit
    <3> QED
      BY <1>2, <3>1 DEF DispType, IdleInv
  <2> QED
    BY <2>1, <2>2
<1>4. ASSUME NEW d \in Calls
      PROVE  CallInv(d)'
  <2>1. CallInv(d) /\ d # NoCall
    BY CallsAssumption DEF JobsInv
  <2>2. GenerationInv(d)' /\ QueuedInv(d)'
    BY <1>1, <2>1 DEF CallInv, GenerationInv, QueuedInv, Fresh
  <2>3. JobInv(d)'
    BY <1>3, <2>1 DEF JobInv
  <2> QED
    BY <2>2, <2>3 DEF CallInv
<1> QED
  BY <1>1, <1>3, <1>4 DEF JobsInv, Typed, QueueDistinct

-----------------------------------------------------------------------------
(* A worker starts with idle calls, an empty queue and no job. *)
LEMMA JobsInit == Init => JobsInv
<1>1. SUFFICES ASSUME Init PROVE JobsInv
  OBVIOUS
<1>2. ASSUME NEW c \in Calls
      PROVE  /\ call[c] = NewCall /\ NewCall \in CallType
             /\ call[c].pc = "idle" /\ call[c].request = NoRequest
             /\ call[c].results = NoResult /\ call[c].sent = <<>> /\ call[c].status = "none"
  BY <1>1 DEF Init, NewCall, CallType, Result
<1>3. /\ queue = <<>> /\ disp.job = NoCall /\ disp.index = 0 /\ disp.at = "idle"
      /\ disp \in DispType /\ ToSet(queue) = {}
  BY <1>1 DEF Init, DispType, Result, ToSet
<1>4. Typed
  <2>1. call \in [Calls -> CallType]
    BY <1>1, <1>2 DEF Init
  <2> QED
    BY <1>1, <1>3, <2>1, ConfigAssumption DEF Init, Typed
<1>5. ASSUME NEW c \in Calls
      PROVE  CallInv(c)
  <2>1. Limit(call[c].request) \in Nat
    BY <1>4, CallTyped
  <2>2. Len(call[c].sent) = 0
    BY <1>2
  <2>3. GenerationInv(c)
    BY <1>2, <2>1, <2>2 DEF GenerationInv, Fresh, NoResult, Final, Failure
  <2>4. QueuedInv(c) /\ JobInv(c)
    BY <1>3, CallsAssumption DEF QueuedInv, JobInv
  <2> QED
    BY <2>3, <2>4 DEF CallInv
<1>6. QueueDistinct /\ IdleInv
  BY <1>3 DEF QueueDistinct, IdleInv
<1> QED
  BY <1>4, <1>5, <1>6 DEF JobsInv

(* Every step keeps it. *)
LEMMA JobsNext == JobsInv /\ [Next]_vars => JobsInv'
<1>1. SUFFICES ASSUME JobsInv, [Next]_vars PROVE JobsInv'
  OBVIOUS
<1>2. ASSUME UNCHANGED <<call, queue, disp, failAfter, failBefore>>
      PROVE  JobsInv'
  <2>1. \A c \in Calls : CallInv(c)'
    BY <1>1, <1>2, CallKept DEF JobsInv, SameCall
  <2> QED
    BY <1>1, <1>2, <2>1 DEF JobsInv, Typed, QueueDistinct, IdleInv
<1>3. CASE UNCHANGED vars
  BY <1>2, <1>3 DEF vars
<1>4. ASSUME NEW c \in Calls, InvalidCall(c)
      PROVE  JobsInv'
  BY <1>1, <1>4, EndStep DEF InvalidCall, faults
<1>5. ASSUME NEW c \in Calls, NEW request \in Requests, AddWaiting(c, request)
      PROVE  JobsInv'
  BY <1>1, <1>5, AddWaitingStep
<1>6. ASSUME NEW c \in Calls, HandlerStep(c)
      PROVE  JobsInv'
  <2>1. CASE Enqueue(c)
    BY <1>1, <2>1, EnqueueStep
  <2>2. CASE ReceiveChunk(c)
    BY <1>1, <2>2, ReceiveStep
  <2>3. CASE EnqueueCanceled(c)
    BY <1>1, <2>3, EndStep DEF EnqueueCanceled, faults
  <2>4. CASE QueueFull(c)
    BY <1>1, <2>4, EndStep DEF QueueFull, faults
  <2>5. CASE SendFailed(c)
    BY <1>1, <2>5, EndStep DEF SendFailed, faults
  <2>6. CASE ReceiveFailure(c)
    BY <1>1, <2>6, EndStep DEF ReceiveFailure, faults
  <2>7. CASE CallCanceled(c)
    BY <1>1, <2>7, EndStep DEF CallCanceled, faults
  <2>8. CASE CallStopped(c)
    BY <1>1, <2>8, EndStep DEF CallStopped, faults
  <2> QED
    BY <1>6, <2>1, <2>2, <2>3, <2>4, <2>5, <2>6, <2>7, <2>8 DEF HandlerStep
<1>7. CASE DispatcherStep
  BY <1>1, <1>7, DequeueStep, RunJobStep, PrefillStep, SendStep, LeaveStep DEF DispatcherStep
<1>8. CASE StopServer \/ \E c \in Calls : CallerCancels(c)
  BY <1>1, <1>8, CancelStep
<1>9. CASE StopCancel \/ ServeReturns \/ LoopReturns \/ StopReturns \/ AllOver
  BY <1>2, <1>9 DEF StopCancel, ServeReturns, LoopReturns, OtherReturns, StopReturns, AllOver,
       faults, vars
<1> QED
  BY <1>1, <1>3, <1>4, <1>5, <1>6, <1>7, <1>8, <1>9 DEF Next

\* Every reachable state satisfies the invariant of the calls and their jobs.
LEMMA JobsInvariant == Spec => []JobsInv
BY JobsInit, JobsNext, PTL DEF Spec

(* For any number of calls, any requests and any injected failures, what a     *)
(* client of Generate receives is one generation in order: tokens from 0       *)
(* without gaps, the final chunk exactly when the call returned OK, an         *)
(* injected error before the first token or after exactly FailAfterTokens.    *)
(* Handler and dispatcher meet in the result channel only, so the invariant    *)
(* relates the loop index of runJob to what the handler has sent and to what   *)
(* is still in the channel.                                                 *)
THEOREM GenerationsAreWhole == Spec => []WholeGenerations
<1>1. JobsInv => WholeGenerations
  <2>1. SUFFICES ASSUME JobsInv, NEW c \in Calls
                 PROVE  LET sent == call[c].sent
                            limit == Limit(call[c].request)
                            finished == Len(sent) > 0 /\ sent[Len(sent)] = Final
                        IN  /\ \A i \in 1 .. Len(sent) :
                                  sent[i] = i - 1 \/ (sent[i] = Final /\ i = limit + 1)
                            /\ call[c].status = "ok" <=> finished
                            /\ call[c].status = "injected" => Len(sent) \in {0, failAfter}
    BY DEF WholeGenerations, Limit
  <2> DEFINE sent == call[c].sent
             n == Len(call[c].sent)
             limit == Limit(call[c].request)
  <2>2. n \in Nat /\ limit \in Nat
    BY <2>1, CallTyped DEF JobsInv
  <2>3. /\ n <= limit + 1
        /\ \A i \in 1 .. n : /\ i <= limit => sent[i] = i - 1
                             /\ i > limit => sent[i] = Final
        /\ call[c].status = "ok" <=> n = limit + 1
        /\ call[c].status = "injected" => n \in {0, failAfter}
    BY <2>1 DEF JobsInv, CallInv, GenerationInv
  <2> HIDE DEF sent, n, limit
  <2>4. \A i \in 1 .. n : sent[i] = i - 1 \/ (sent[i] = Final /\ i = limit + 1)
    BY <2>2, <2>3
  <2>5. n = limit + 1 <=> n > 0 /\ sent[n] = Final
    BY <2>2, <2>3 DEF Final
  <2> QED
    BY <2>3, <2>4, <2>5 DEF sent, n, limit
<1> QED
  BY <1>1, JobsInvariant, PTL

-----------------------------------------------------------------------------
(* The number and the work of a set of jobs, for work f[c] of call c. *)
Load(f, jobs) ==
    [count |-> Cardinality(jobs),
     work |-> Total([c \in Calls |-> IF c \in jobs THEN f[c] ELSE 0], MaxWork)]

Works == [c \in Calls |-> Work(c)]

(* The counters as loads of the two sets of jobs. *)
CountersInv == waiting = Load(Works, WaitingJobs) /\ running = Load(Works, RunningJobs)

(* The two statements of the counters agree. *)
LEMMA CountersAgree == CountersInv <=> CountersMatchJobs
<1>1. ASSUME NEW jobs
      PROVE  WorkOf(jobs) = Total([c \in Calls |-> IF c \in jobs THEN Works[c] ELSE 0], MaxWork)
  <2>1. [c \in Calls |-> IF c \in jobs THEN Work(c) ELSE 0]
        = [c \in Calls |-> IF c \in jobs THEN Works[c] ELSE 0]
    BY DEF Works
  <2> QED
    BY <2>1 DEF WorkOf
<1> QED
  BY <1>1, Zenon DEF CountersInv, CountersMatchJobs, Load

(* A set of jobs is finite, and its load is a pair of natural numbers. *)
LEMMA LoadTyped ==
    ASSUME NEW f \in [Calls -> 0 .. MaxWork], NEW jobs \in SUBSET Calls
    PROVE  /\ IsFiniteSet(jobs) /\ Cardinality(jobs) \in Nat
           /\ [c \in Calls |-> IF c \in jobs THEN f[c] ELSE 0] \in [Calls -> 0 .. MaxWork]
           /\ Total([c \in Calls |-> IF c \in jobs THEN f[c] ELSE 0], MaxWork) \in Nat
<1>1. IsFiniteSet(jobs) /\ Cardinality(jobs) \in Nat
  BY CallsAssumption, FS_Subset, FS_CardinalityType
<1>2. MaxWork \in Nat
  BY RequestsAssumption
<1>3. [c \in Calls |-> IF c \in jobs THEN f[c] ELSE 0] \in [Calls -> 0 .. MaxWork]
  BY <1>2
<1> QED
  BY <1>1, <1>2, <1>3, UnitsFinite, CallsAssumption

(* The load depends on the work of its own jobs only. *)
LEMMA LoadKept ==
    ASSUME NEW f, NEW g, NEW jobs, \A c \in jobs : g[c] = f[c]
    PROVE  Load(g, jobs) = Load(f, jobs)
<1>1. [c \in Calls |-> IF c \in jobs THEN g[c] ELSE 0]
      = [c \in Calls |-> IF c \in jobs THEN f[c] ELSE 0]
  OBVIOUS
<1> QED
  BY <1>1, Zenon DEF Load

(* Works that differ in one call have sums that differ by as much. *)
LEMMA WorkSum ==
    ASSUME NEW f \in [Calls -> 0 .. MaxWork], NEW g \in [Calls -> 0 .. MaxWork],
           NEW x \in Calls, \A y \in Calls \ {x} : g[y] = f[y]
    PROVE  /\ Total(g, MaxWork) = Total(f, MaxWork) - f[x] + g[x]
           /\ f[x] <= Total(f, MaxWork)
<1>1. IsFiniteSet(Calls) /\ MaxWork \in Nat
  BY CallsAssumption, RequestsAssumption
<1>2. Total(g, MaxWork) = Total(f, MaxWork) - f[x] + g[x]
  BY <1>1, TotalUpdate
<1>3. f[x] <= Total(f, MaxWork)
  BY <1>1, TotalBoundsValue
<1> QED
  BY <1>2, <1>3

(* One job more. *)
LEMMA LoadRaised ==
    ASSUME NEW f \in [Calls -> 0 .. MaxWork], NEW g \in [Calls -> 0 .. MaxWork],
           NEW jobs \in SUBSET Calls, NEW x \in Calls, x \notin jobs,
           \A c \in jobs : g[c] = f[c]
    PROVE  Load(g, jobs \union {x}) = Raised(Load(f, jobs), g[x])
<1> DEFINE F == [c \in Calls |-> IF c \in jobs THEN f[c] ELSE 0]
           G == [c \in Calls |-> IF c \in jobs \union {x} THEN g[c] ELSE 0]
<1>1. jobs \union {x} \in SUBSET Calls
  OBVIOUS
<1>2. F \in [Calls -> 0 .. MaxWork] /\ Total(F, MaxWork) \in Nat /\ IsFiniteSet(jobs)
  BY LoadTyped
<1>3. G \in [Calls -> 0 .. MaxWork]
  BY <1>1, LoadTyped
<1>4. F[x] = 0 /\ G[x] = g[x] /\ \A y \in Calls \ {x} : G[y] = F[y]
  OBVIOUS
<1>5. Cardinality(jobs \union {x}) = Cardinality(jobs) + 1
  BY <1>2, FS_AddElement
<1> HIDE DEF F, G
<1>6. Total(G, MaxWork) = Total(F, MaxWork) - F[x] + G[x]
  BY <1>2, <1>3, <1>4, WorkSum
<1>7. Total(G, MaxWork) = Total(F, MaxWork) + g[x]
  <2>1. g[x] \in 0 .. MaxWork /\ MaxWork \in Nat
    BY RequestsAssumption
  <2> DEFINE v == g[x]
  <2> HIDE DEF v
  <2> QED
    BY <1>2, <1>4, <1>6, <2>1 DEF v
<1> QED
  BY <1>5, <1>7 DEF Load, Raised, F, G

(* One job less: the clamps of Lowered do not act. *)
LEMMA LoadLowered ==
    ASSUME NEW f \in [Calls -> 0 .. MaxWork], NEW g \in [Calls -> 0 .. MaxWork],
           NEW jobs \in SUBSET Calls, NEW x \in jobs,
           \A c \in jobs \ {x} : g[c] = f[c]
    PROVE  Load(g, jobs \ {x}) = Lowered(Load(f, jobs), f[x])
<1> DEFINE F == [c \in Calls |-> IF c \in jobs THEN f[c] ELSE 0]
           G == [c \in Calls |-> IF c \in jobs \ {x} THEN g[c] ELSE 0]
           N == Cardinality(jobs)
<1>1. jobs \ {x} \in SUBSET Calls /\ x \in Calls
  OBVIOUS
<1>2. /\ F \in [Calls -> 0 .. MaxWork] /\ Total(F, MaxWork) \in Nat
      /\ IsFiniteSet(jobs) /\ N \in Nat
  BY LoadTyped
<1>3. G \in [Calls -> 0 .. MaxWork] /\ Cardinality(jobs \ {x}) \in Nat
  BY <1>1, LoadTyped
<1>4. F[x] = f[x] /\ G[x] = 0 /\ \A y \in Calls \ {x} : G[y] = F[y]
  BY <1>1
<1>5. Cardinality(jobs \ {x}) = N - 1
  BY <1>2, FS_RemoveElement
<1>6. N > 0
  BY <1>2, <1>3, <1>5
<1> HIDE DEF F, G
<1>7. Total(G, MaxWork) = Total(F, MaxWork) - F[x] + G[x] /\ F[x] <= Total(F, MaxWork)
  BY <1>1, <1>2, <1>3, <1>4, WorkSum
<1>8. Total(G, MaxWork) = Total(F, MaxWork) - f[x] /\ Total(F, MaxWork) >= f[x]
  <2>1. f[x] \in 0 .. MaxWork /\ MaxWork \in Nat
    BY <1>1, RequestsAssumption
  <2> DEFINE v == f[x]
  <2> HIDE DEF v
  <2> QED
    BY <1>2, <1>4, <1>7, <2>1 DEF v
<1>9. Load(f, jobs) = [count |-> N, work |-> Total(F, MaxWork)]
  BY DEF Load, F
<1>10. Lowered(Load(f, jobs), f[x]) = [count |-> N - 1, work |-> Total(F, MaxWork) - f[x]]
  <2> HIDE DEF N
  <2> QED
    BY <1>6, <1>8, <1>9 DEF Lowered
<1>11. Load(g, jobs \ {x}) = [count |-> Cardinality(jobs \ {x}), work |-> Total(G, MaxWork)]
  BY DEF Load, G
<1> QED
  BY <1>5, <1>8, <1>10, <1>11

(* The work of every call is bounded. *)
LEMMA WorksTyped ==
    ASSUME Typed
    PROVE  Works \in [Calls -> 0 .. MaxWork]
<1>1. ASSUME NEW c \in Calls PROVE Work(c) \in 0 .. MaxWork
  BY CallTyped, RequestTyped DEF Work
<1> QED
  BY <1>1 DEF Works

(* A step that keeps both sets of jobs, the requests of their members and the  *)
(* counters.                                                                *)
LEMMA CountersKept ==
    ASSUME CountersInv, UNCHANGED <<waiting, running>>,
           WaitingJobs' = WaitingJobs, RunningJobs' = RunningJobs,
           \A c \in WaitingJobs \union RunningJobs : call'[c].request = call[c].request
    PROVE  CountersInv'
<1>1. \A c \in WaitingJobs \union RunningJobs : c \in Calls /\ Works'[c] = Works[c]
  BY DEF Works, Work, WaitingJobs, RunningJobs
<1>2. Load(Works', WaitingJobs) = Load(Works, WaitingJobs)
  BY <1>1, LoadKept
<1>3. Load(Works', RunningJobs) = Load(Works, RunningJobs)
  BY <1>1, LoadKept
<1> QED
  BY <1>2, <1>3 DEF CountersInv

(* A waiting call is at the queue, in it, or just taken from it. *)
LEMMA JobSets ==
    /\ WaitingJobs \in SUBSET Calls /\ RunningJobs \in SUBSET Calls
    /\ \A c \in Calls : c \in WaitingJobs <=> \/ call[c].pc = "enqueue"
                                              \/ c \in ToSet(queue)
                                              \/ disp.at = "taken" /\ disp.job = c
    /\ \A c \in Calls : c \in RunningJobs <=> disp.job = c /\ disp.at # "taken"
BY DEF WaitingJobs, RunningJobs

(* A step after which the waiting calls are others by one call, and the       *)
(* running ones the same.                                                   *)
LEMMA WaitingChanges ==
    ASSUME CountersInv, JobsInv, JobsInv', NEW c \in Calls, running' = running,
           UNCHANGED <<queue, disp>>, \A d \in Calls : d # c => call'[d] = call[d],
           \/ /\ call[c].pc = "idle" /\ call'[c].pc = "enqueue"
              /\ waiting' = Raised(waiting, Work(c)')
           \/ /\ call[c].pc = "enqueue" /\ call'[c].pc = "ended"
              /\ waiting' = Lowered(waiting, Work(c))
    PROVE  CountersInv'
<1>1. /\ WaitingJobs \in SUBSET Calls /\ RunningJobs \in SUBSET Calls
      /\ \A d \in Calls : d \in WaitingJobs <=> \/ call[d].pc = "enqueue"
                                                \/ d \in ToSet(queue)
                                                \/ disp.at = "taken" /\ disp.job = d
      /\ \A d \in Calls : d \in RunningJobs <=> disp.job = d /\ disp.at # "taken"
  BY JobSets
<1>2. /\ WaitingJobs' \in SUBSET Calls /\ RunningJobs' = RunningJobs
      /\ \A d \in Calls : d \in WaitingJobs' <=> \/ call'[d].pc = "enqueue"
                                                 \/ d \in ToSet(queue)
                                                 \/ disp.at = "taken" /\ disp.job = d
  BY DEF WaitingJobs, RunningJobs
<1>3. c \notin ToSet(queue) /\ disp.job # c /\ c \notin RunningJobs
  BY <1>1 DEF JobsInv, CallInv, QueuedInv, JobInv
<1>4. Works \in [Calls -> 0 .. MaxWork] /\ Works' \in [Calls -> 0 .. MaxWork]
  <2>1. Typed'
    BY DEF JobsInv
  <2>2. ASSUME NEW d \in Calls PROVE Work(d)' \in 0 .. MaxWork
    <3>1. call'[d] \in CallType
      BY <2>1 DEF Typed
    <3>2. call'[d].request \in Requests \union {NoRequest}
      BY <3>1 DEF CallType
    <3> QED
      BY <3>2, RequestTyped DEF Work
  <2>3. Works' \in [Calls -> 0 .. MaxWork]
    BY <2>2 DEF Works
  <2> QED
    BY <2>3, WorksTyped DEF JobsInv
<1>5. /\ \A d \in Calls : d # c => Works'[d] = Works[d]
      /\ Works[c] = Work(c) /\ Works'[c] = Work(c)'
  BY DEF Works, Work
<1>6. Load(Works', RunningJobs) = Load(Works, RunningJobs)
  BY <1>1, <1>3, <1>5, LoadKept
<1>7. Load(Works', WaitingJobs') = waiting'
  <2>1. CASE call[c].pc = "idle" /\ call'[c].pc = "enqueue" /\ waiting' = Raised(waiting, Work(c)')
    <3>1. c \notin WaitingJobs /\ WaitingJobs' = WaitingJobs \union {c}
      BY <1>1, <1>2, <1>3, <2>1
    <3>2. Load(Works', WaitingJobs \union {c}) = Raised(Load(Works, WaitingJobs), Works'[c])
      BY <1>1, <1>4, <1>5, <3>1, LoadRaised
    <3> QED
      BY <1>5, <2>1, <3>1, <3>2 DEF CountersInv
  <2>2. CASE call[c].pc = "enqueue" /\ call'[c].pc = "ended" /\ waiting' = Lowered(waiting, Work(c))
    <3>1. c \in WaitingJobs /\ WaitingJobs' = WaitingJobs \ {c}
      BY <1>1, <1>2, <1>3, <2>2
    <3>2. Load(Works', WaitingJobs \ {c}) = Lowered(Load(Works, WaitingJobs), Works[c])
      BY <1>1, <1>4, <1>5, <3>1, LoadLowered
    <3> QED
      BY <1>5, <2>2, <3>1, <3>2 DEF CountersInv
  <2> QED
    BY <2>1, <2>2
<1> QED
  BY <1>2, <1>6, <1>7 DEF CountersInv

(* A step that leaves every job where it is. *)
LEMMA CountersUntouched ==
    ASSUME CountersInv, UNCHANGED <<waiting, running, queue>>,
           \A c \in Calls : /\ call'[c].pc = "enqueue" <=> call[c].pc = "enqueue"
                            /\ call'[c].request = call[c].request,
           disp'.job = disp.job, disp'.at = "taken" <=> disp.at = "taken"
    PROVE  CountersInv'
<1>1. WaitingJobs' = WaitingJobs /\ RunningJobs' = RunningJobs
  BY DEF WaitingJobs, RunningJobs
<1> QED
  BY <1>1, CountersKept, JobSets

(* A return of a handler that was not waiting at the queue. *)
LEMMA CountersEnd ==
    ASSUME CountersInv, JobsInv, NEW c \in Calls, NEW status,
           status \in {"invalid", "exhausted", "canceled", "unavailable", "injected"},
           call[c].pc \in {"idle", "stream"}, End(c, status),
           UNCHANGED <<waiting, running, queue, disp>>
    PROVE  CountersInv'
<1>1. CallBecomes(c, "ended", call[c].request, call[c].results, call[c].sent, status)
  BY EndEffect DEF JobsInv, Typed
<1>2. \A d \in Calls : /\ call'[d].pc = "enqueue" <=> call[d].pc = "enqueue"
                       /\ call'[d].request = call[d].request
  BY <1>1 DEF CallBecomes
<1> QED
  BY <1>2, CountersUntouched

(* The handlers. *)
LEMMA CountersHandler ==
    ASSUME CountersInv, JobsInv, JobsInv', NEW c \in Calls,
           \/ InvalidCall(c)
           \/ \E request \in Requests : AddWaiting(c, request)
           \/ HandlerStep(c)
    PROVE  CountersInv'
<1>1. CASE InvalidCall(c)
  BY <1>1, CountersEnd DEF InvalidCall, load
<1>2. ASSUME NEW request \in Requests, AddWaiting(c, request)
      PROVE  CountersInv'
  <2>1. CallBecomes(c, "enqueue", request, call[c].results, call[c].sent, call[c].status)
    BY <1>2, AddWaitingEffect DEF JobsInv, Typed
  <2>2. /\ call[c].pc = "idle" /\ call'[c].pc = "enqueue" /\ running' = running
        /\ UNCHANGED <<queue, disp>> /\ waiting' = Raised(waiting, Work(c)')
        /\ \A d \in Calls : d # c => call'[d] = call[d]
    BY <1>2, <2>1 DEF AddWaiting, CallBecomes, Work
  <2> QED
    BY <2>2, WaitingChanges
<1>3. CASE EnqueueCanceled(c) \/ QueueFull(c)
  <2>1. PICK status \in {"exhausted", "canceled"} : End(c, status)
    BY <1>3 DEF EnqueueCanceled, QueueFull
  <2>2. CallBecomes(c, "ended", call[c].request, call[c].results, call[c].sent, status)
    BY <2>1, EndEffect DEF JobsInv, Typed
  <2>3. /\ call[c].pc = "enqueue" /\ call'[c].pc = "ended" /\ running' = running
        /\ UNCHANGED <<queue, disp>> /\ waiting' = Lowered(waiting, Work(c))
        /\ \A d \in Calls : d # c => call'[d] = call[d]
    BY <1>3, <2>2 DEF EnqueueCanceled, QueueFull, CallBecomes
  <2> QED
    BY <2>3, WaitingChanges
<1>4. CASE Enqueue(c)
  <2>1. CallBecomes(c, "stream", call[c].request, call[c].results, call[c].sent,
                    call[c].status)
    BY <1>4, EnqueueEffect DEF JobsInv, Typed
  <2>2. /\ call[c].pc = "enqueue" /\ UNCHANGED <<waiting, running, disp>>
        /\ queue' = Append(queue, c)
    BY <1>4 DEF Enqueue, load
  <2>3. ToSet(queue') = ToSet(queue) \union {c}
    BY <2>2, ToSetAppend DEF JobsInv, Typed
  <2>4. RunningJobs' = RunningJobs
    BY <2>2 DEF RunningJobs
  <2>5. WaitingJobs' = WaitingJobs
    BY <2>1, <2>2, <2>3 DEF WaitingJobs, CallBecomes
  <2>6. \A d \in Calls : call'[d].request = call[d].request
    BY <2>1 DEF CallBecomes
  <2> QED
    BY <2>2, <2>4, <2>5, <2>6, JobSets, CountersKept
<1>5. CASE ReceiveChunk(c)
  <2>1. CallBecomes(c, IF call[c].results = Final THEN "ended" ELSE "stream",
                    call[c].request, NoResult, Append(call[c].sent, call[c].results),
                    IF call[c].results = Final THEN "ok" ELSE call[c].status)
    BY <1>5, ReceiveEffect DEF JobsInv, Typed
  <2>2. call[c].pc = "stream" /\ UNCHANGED <<waiting, running, queue, disp>>
    BY <1>5 DEF ReceiveChunk, load
  <2>3. \A d \in Calls : /\ call'[d].pc = "enqueue" <=> call[d].pc = "enqueue"
                         /\ call'[d].request = call[d].request
    BY <2>1, <2>2 DEF CallBecomes
  <2> QED
    BY <2>2, <2>3, CountersUntouched
<1>6. CASE SendFailed(c)
  BY <1>6, CountersEnd DEF SendFailed, load
<1>7. CASE ReceiveFailure(c)
  BY <1>7, CountersEnd DEF ReceiveFailure, load
<1>8. CASE CallCanceled(c)
  BY <1>8, CountersEnd DEF CallCanceled, load
<1>9. CASE CallStopped(c)
  BY <1>9, CountersEnd DEF CallStopped, load
<1> QED
  BY <1>1, <1>2, <1>3, <1>4, <1>5, <1>6, <1>7, <1>8, <1>9 DEF HandlerStep

(* The dispatcher moves its job from the waiting to the running ones and out   *)
(* of them.                                                                 *)
LEMMA CountersDispatcher ==
    ASSUME CountersInv, JobsInv, DispatcherStep
    PROVE  CountersInv'
<1>1. disp \in DispType /\ Works \in [Calls -> 0 .. MaxWork] /\ IdleInv
  BY WorksTyped DEF JobsInv, Typed
<1>2. CASE Dequeue
  <2>1. /\ disp.at = "idle" /\ queue # <<>> /\ UNCHANGED <<call, waiting, running>>
        /\ disp' = [disp EXCEPT !.at = "taken", !.job = Head(queue)] /\ queue' = Tail(queue)
    BY <1>2 DEF Dequeue, load
  <2>2. /\ Head(queue) \in Calls /\ Head(queue) \in ToSet(queue)
        /\ ToSet(queue') = ToSet(queue) \ {Head(queue)}
    BY <2>1, ToSetTail DEF JobsInv, Typed, QueueDistinct
  <2>3. disp'.at = "taken" /\ disp'.job = Head(queue) /\ disp.job = NoCall
    BY <1>1, <2>1 DEF DispType, IdleInv
  <2>4. WaitingJobs' = WaitingJobs
    BY <2>1, <2>2, <2>3 DEF WaitingJobs
  <2>5. RunningJobs' = RunningJobs
    BY <2>1, <2>3, CallsAssumption DEF RunningJobs
  <2> QED
    BY <2>1, <2>4, <2>5, CountersKept
<1>3. CASE MoveToRunning
  <2>1. /\ disp.at = "taken" /\ disp' = [disp EXCEPT !.at = "prefill"]
        /\ UNCHANGED <<call, queue>>
        /\ waiting' = Lowered(waiting, Work(disp.job))
        /\ running' = Raised(running, Work(disp.job))
    BY <1>3 DEF MoveToRunning
  <2>2. PICK c \in Calls : c = disp.job /\ CallInv(c)
    BY <2>1, JobAtHand
  <2>3. disp'.at = "prefill" /\ disp'.job = c
    BY <1>1, <2>1, <2>2 DEF DispType
  <2>4. c \notin ToSet(queue) /\ call[c].pc # "enqueue"
    BY <2>2 DEF CallInv, JobInv
  <2>5. c \in WaitingJobs /\ WaitingJobs' = WaitingJobs \ {c}
    BY <2>1, <2>2, <2>3, <2>4 DEF WaitingJobs
  <2>6. c \notin RunningJobs /\ RunningJobs' = RunningJobs \union {c}
    BY <2>1, <2>2, <2>3 DEF RunningJobs
  <2>7. Works' = Works /\ Works[c] = Work(disp.job)
    BY <2>1, <2>2 DEF Works, Work
  <2>8. Load(Works, WaitingJobs \ {c}) = Lowered(Load(Works, WaitingJobs), Works[c])
    BY <1>1, <2>5, JobSets, LoadLowered
  <2>9. Load(Works, RunningJobs \union {c}) = Raised(Load(Works, RunningJobs), Works[c])
    BY <1>1, <2>6, JobSets, LoadRaised
  <2> QED
    BY <2>1, <2>5, <2>6, <2>7, <2>8, <2>9 DEF CountersInv
<1>4. CASE FinishRunning
  <2>1. /\ disp.at = "finish" /\ UNCHANGED <<call, queue, waiting>>
        /\ disp' = [job |-> NoCall, index |-> 0, out |-> NoResult, at |-> "idle"]
        /\ running' = Lowered(running, Work(disp.job))
    BY <1>4 DEF FinishRunning
  <2>2. PICK c \in Calls : c = disp.job
    BY <2>1, JobAtHand
  <2>3. disp'.at = "idle" /\ disp'.job = NoCall
    BY <2>1
  <2>4. WaitingJobs' = WaitingJobs
    BY <2>1, <2>3 DEF WaitingJobs
  <2>5. c \in RunningJobs /\ RunningJobs' = RunningJobs \ {c}
    BY <2>1, <2>2, <2>3, CallsAssumption DEF RunningJobs
  <2>6. Works' = Works /\ Works[c] = Work(disp.job)
    BY <2>1, <2>2 DEF Works, Work
  <2>7. Load(Works, RunningJobs \ {c}) = Lowered(Load(Works, RunningJobs), Works[c])
    BY <1>1, <2>5, JobSets, LoadLowered
  <2> QED
    BY <2>1, <2>4, <2>5, <2>6, <2>7 DEF CountersInv
<1>5. CASE Send
  <2>1. /\ disp.at = "send" /\ UNCHANGED <<queue, waiting, running>>
        /\ call' = [call EXCEPT ![disp.job].results = disp.out]
    BY <1>5 DEF Send, load
  <2>2. PICK c \in Calls : c = disp.job
    BY <2>1, JobAtHand
  <2>3. CallBecomes(c, call[c].pc, call[c].request, disp.out, call[c].sent, call[c].status)
    BY <1>1, <2>1, <2>2, SendEffect DEF JobsInv, Typed, DispType
  <2>4. \A d \in Calls : /\ call'[d].pc = "enqueue" <=> call[d].pc = "enqueue"
                         /\ call'[d].request = call[d].request
    BY <2>3 DEF CallBecomes
  <2>5. disp'.job = disp.job /\ disp'.at # "taken"
    BY <1>1, <1>5 DEF Send, LoopAt, DispType
  <2> QED
    BY <2>1, <2>4, <2>5, CountersUntouched
<1>6. CASE \/ PrefillOver \/ DecodeOver \/ WaitInterrupted \/ AddPrefixes
           \/ SendInterrupted \/ DispatchExit
  <2>1. UNCHANGED <<call, queue, waiting, running>> /\ disp.at # "taken"
    BY <1>6 DEF PrefillOver, DecodeOver, WaitInterrupted, AddPrefixes, SendInterrupted,
                DispatchExit, load
  <2>2. disp'.job = disp.job /\ disp'.at # "taken"
    BY <1>1, <1>6 DEF PrefillOver, DecodeOver, WaitInterrupted, AddPrefixes, SendInterrupted,
                      DispatchExit, LoopAt, DispType
  <2> QED
    BY <2>1, <2>2, CountersUntouched
<1> QED
  BY <1>2, <1>3, <1>4, <1>5, <1>6 DEF DispatcherStep

(* For any number of calls and any queue capacity, the load that heartbeats    *)
(* report is the load there is: the counters of addWaiting, moveToRunning and  *)
(* finishRunning are the number and the work of the calls between these steps  *)
(* on every path out of Generate and runJob, so that their clamps at zero      *)
(* never act.  It rests on every job being in one place only.                *)
THEOREM CountersAreLoad == Spec => []CountersMatchJobs
<1>1. Init => CountersInv
  <2>1. SUFFICES ASSUME Init PROVE CountersInv
    OBVIOUS
  <2>2. WaitingJobs = {} /\ RunningJobs = {}
    BY <2>1, CallsAssumption DEF Init, NewCall, WaitingJobs, RunningJobs, ToSet
  <2>3. [c \in Calls |-> IF c \in {} THEN Works[c] ELSE 0] = [c \in Calls |-> 0]
    OBVIOUS
  <2>4. Total([c \in Calls |-> 0], MaxWork) = 0
    BY TotalZero, RequestsAssumption
  <2>5. Load(Works, {}) = [count |-> 0, work |-> 0]
    BY <2>3, <2>4, FS_EmptySet DEF Load
  <2> QED
    BY <2>1, <2>2, <2>5 DEF Init, CountersInv
<1>2. JobsInv /\ JobsInv' /\ CountersInv /\ [Next]_vars => CountersInv'
  <2>1. SUFFICES ASSUME JobsInv, JobsInv', CountersInv, [Next]_vars PROVE CountersInv'
    OBVIOUS
  <2>2. CASE StopServer \/ \E c \in Calls : CallerCancels(c)
    <3>1. \A d \in Calls : SameCall(d)
      BY <2>1, <2>2, CancelEffect DEF JobsInv, Typed
    <3>2. UNCHANGED <<waiting, running, queue, disp>>
      BY <2>2 DEF StopServer, CallerCancels, load
    <3> QED
      BY <2>1, <3>1, <3>2, CountersUntouched DEF SameCall
  <2>3. CASE UNCHANGED <<call, waiting, running, queue, disp>>
    BY <2>1, <2>3, CountersUntouched
  <2>4. CASE StopCancel \/ ServeReturns \/ LoopReturns \/ StopReturns \/ AllOver \/ UNCHANGED vars
    BY <2>3, <2>4 DEF StopCancel, ServeReturns, LoopReturns, OtherReturns, StopReturns, AllOver,
         vars, load
  <2>5. CASE DispatcherStep
    BY <2>1, <2>5, CountersDispatcher
  <2>6. ASSUME NEW c \in Calls, \/ InvalidCall(c)
                                \/ \E request \in Requests : AddWaiting(c, request)
                                \/ HandlerStep(c)
        PROVE  CountersInv'
    BY <2>1, <2>6, CountersHandler
  <2> QED
    BY <2>1, <2>2, <2>4, <2>5, <2>6 DEF Next
<1>3. CountersInv => CountersMatchJobs
  BY CountersAgree
<1> QED
  BY <1>1, <1>2, <1>3, JobsInvariant, PTL DEF Spec

-----------------------------------------------------------------------------
(* The prefix cache.  Every set of natural numbers has a least element, which  *)
(* carries both inductions below.                                           *)
LEMMA LeastElement ==
    ASSUME NEW T \in SUBSET Nat, T # {}
    PROVE  \E x \in T : \A y \in T : x <= y
<1>1. PICK x \in T : \A y \in T : ~ (<<y, x>> \in OpToRel(<, Nat))
  BY WFMin, NatLessThanWellFounded
<1>2. ASSUME NEW y \in T, y < x PROVE FALSE
  <2>1. <<y, x>> \in Nat \X Nat /\ <<y, x>>[1] = y /\ <<y, x>>[2] = x
    OBVIOUS
  <2>2. <<y, x>>[1] < <<y, x>>[2]
    BY <1>2, <2>1
  <2>3. <<y, x>> \in OpToRel(<, Nat)
    BY <2>1, <2>2, Zenon DEF OpToRel
  <2> QED
    BY <1>1, <2>3
<1>3. \A y \in T : x <= y
  BY <1>2
<1> QED
  BY <1>3

(* The bounds of the cache, and its order, keys and token count in step. *)
InStep(state) ==
    /\ state.order \in Seq(Fingerprints)
    /\ \A i, j \in 1 .. Len(state.order) : state.order[i] = state.order[j] => i = j
    /\ state.keys = ToSet(state.order)
    /\ state.used = TokensOf(state.keys)

WithinLimits(state) ==
    /\ Len(state.order) <= CachePrefixLimit
    /\ state.used <= CacheCapacityTokens

(* The tokens of a set of prefixes are a natural number. *)
LEMMA TokensTyped ==
    ASSUME NEW A \in SUBSET Fingerprints
    PROVE  /\ TokensOf(A) \in Nat
           /\ IsFiniteSet(Units([p \in A |-> TokenCount[p]], MaxTokenCount))
<1>1. IsFiniteSet(A) /\ MaxTokenCount \in Nat
  BY RequestsAssumption, FS_Subset
<1>2. [p \in A |-> TokenCount[p]] \in [A -> 0 .. MaxTokenCount]
  BY RequestsAssumption
<1> QED
  BY <1>1, <1>2, UnitsFinite DEF TokensOf

(* The tokens of two disjoint sets of prefixes add up. *)
LEMMA TokensAdd ==
    ASSUME NEW A \in SUBSET Fingerprints, NEW B \in SUBSET Fingerprints,
           A \intersect B = {}
    PROVE  TokensOf(A \union B) = TokensOf(A) + TokensOf(B)
<1> DEFINE U(S) == Units([p \in S |-> TokenCount[p]], MaxTokenCount)
<1>1. /\ IsFiniteSet(U(A)) /\ IsFiniteSet(U(B))
      /\ TokensOf(A) = Cardinality(U(A)) /\ TokensOf(B) = Cardinality(U(B))
      /\ TokensOf(A \union B) = Cardinality(U(A \union B))
  BY TokensTyped DEF TokensOf, Total
<1>2. ASSUME NEW S
      PROVE  U(S) = {u \in S \X (1 .. MaxTokenCount) : u[2] <= TokenCount[u[1]]}
  BY DEF Units
<1> HIDE DEF U
<1>3. U(A \union B) = U(A) \union U(B)
  BY <1>2
<1>4. U(A) \intersect U(B) = {}
  BY <1>2
<1>5. Cardinality(U(A) \intersect U(B)) = 0
  BY <1>4, FS_EmptySet
<1>6. Cardinality(U(A) \union U(B))
      = Cardinality(U(A)) + Cardinality(U(B)) - Cardinality(U(A) \intersect U(B))
  BY <1>1, FS_Union
<1>7. Cardinality(U(A)) \in Nat /\ Cardinality(U(B)) \in Nat
  BY <1>1, FS_CardinalityType
<1>8. Cardinality(U(A) \union U(B)) = Cardinality(U(A)) + Cardinality(U(B))
  BY <1>5, <1>6, <1>7
<1> QED
  BY <1>1, <1>3, <1>8, Zenon

(* One prefix has its own tokens, none has none. *)
LEMMA TokensOne ==
    ASSUME NEW p \in Fingerprints
    PROVE  TokensOf({p}) = TokenCount[p]
<1> DEFINE f == [q \in {p} |-> TokenCount[q]]
           zero == [q \in {p} |-> 0]
<1>1. IsFiniteSet({p}) /\ MaxTokenCount \in Nat
  BY FS_Singleton, RequestsAssumption
<1>2. f \in [{p} -> 0 .. MaxTokenCount] /\ zero \in [{p} -> 0 .. MaxTokenCount]
  BY <1>1, RequestsAssumption
<1>3. Total(zero, MaxTokenCount) = 0
  BY <1>1, TotalZero
<1>4. zero[p] = 0 /\ f[p] = TokenCount[p] /\ \A y \in {p} \ {p} : f[y] = zero[y]
  OBVIOUS
<1>5. TokenCount[p] \in Nat
  BY RequestsAssumption
<1>6. TokensOf({p}) = Total(f, MaxTokenCount)
  BY DEF TokensOf
<1> HIDE DEF f, zero
<1>7. Total(f, MaxTokenCount) = Total(zero, MaxTokenCount) - zero[p] + f[p]
  BY <1>1, <1>2, <1>4, TotalUpdate
<1> QED
  BY <1>3, <1>4, <1>5, <1>6, <1>7

\* An empty cache holds no tokens.
LEMMA TokensNone == TokensOf({}) = 0
<1>1. [p \in {} |-> TokenCount[p]] = [p \in {} |-> 0]
  OBVIOUS
<1>2. Total([p \in {} |-> 0], MaxTokenCount) = 0
  BY TotalZero, RequestsAssumption
<1> QED
  BY <1>1, <1>2 DEF TokensOf

(* A new prefix at the end of the order. *)
LEMMA PrefixAdded ==
    ASSUME NEW state, InStep(state), NEW p \in Fingerprints, p \notin state.keys
    PROVE  InStep(WithPrefix(state, p))
<1> DEFINE order == state.order
           next == WithPrefix(state, p)
<1>1. /\ next.order = Append(order, p) /\ next.keys = state.keys \union {p}
      /\ next.used = state.used + TokenCount[p]
  BY DEF WithPrefix
<1>2. /\ order \in Seq(Fingerprints) /\ Len(order) \in Nat /\ state.keys = ToSet(order)
      /\ state.used = TokensOf(state.keys)
      /\ \A i, j \in 1 .. Len(order) : order[i] = order[j] => i = j
  BY LenProperties DEF InStep
<1>3. /\ next.order \in Seq(Fingerprints) /\ Len(next.order) = Len(order) + 1
      /\ next.order[Len(order) + 1] = p
      /\ \A i \in 1 .. Len(order) : next.order[i] = order[i]
  BY <1>1, <1>2, AppendProperties
<1>4. DOMAIN order = 1 .. Len(order) /\ DOMAIN next.order = 1 .. Len(order) + 1
  BY <1>2, <1>3, LenProperties
<1> HIDE DEF order, next
<1>5. \A i \in 1 .. Len(order) : order[i] # p
  BY <1>2, <1>4 DEF ToSet
<1>6. \A i, j \in 1 .. Len(next.order) : next.order[i] = next.order[j] => i = j
  BY <1>2, <1>3, <1>5
<1>7. next.keys = ToSet(next.order)
  <2>1. \A i \in DOMAIN order : i \in DOMAIN next.order
    BY <1>2, <1>4
  <2>2. ToSet(next.order) = ToSet(order) \union {p}
    <3>1. \A x \in ToSet(order) \union {p} : x \in ToSet(next.order)
      BY <1>2, <1>3, <1>4, <2>1 DEF ToSet
    <3>2. \A x \in ToSet(next.order) : x \in ToSet(order) \union {p}
      BY <1>2, <1>3, <1>4 DEF ToSet
    <3> QED
      BY <3>1, <3>2
  <2> QED
    BY <1>1, <1>2, <2>2
<1>8. next.used = TokensOf(next.keys)
  <2>1. state.keys \in SUBSET Fingerprints
    BY <1>2, <1>4 DEF ToSet
  <2>2. state.keys \intersect {p} = {}
    OBVIOUS
  <2>3. TokensOf(state.keys \union {p}) = TokensOf(state.keys) + TokensOf({p})
    BY <2>1, <2>2, TokensAdd
  <2> QED
    BY <1>1, <1>2, <2>3, TokensOne
<1> QED
  BY <1>3, <1>6, <1>7, <1>8 DEF InStep, next

(* The n oldest prefixes leave from the front of the order, with their tokens: *)
(* the clamp of the eviction loop does not act.                              *)
LEMMA PrefixesEvicted ==
    ASSUME NEW state, InStep(state), NEW n \in 0 .. Len(state.order)
    PROVE  /\ InStep(Evict(state, n))
           /\ Evict(state, n).used = state.used - TokensOf(Oldest(state, n))
           /\ Len(Evict(state, n).order) = Len(state.order) - n
<1> DEFINE order == state.order
           size == Len(order)
           old == SubSeq(order, 1, n)
           rest == SubSeq(order, n + 1, size)
           next == Evict(state, n)
<1>1. /\ order \in Seq(Fingerprints) /\ size \in Nat /\ state.keys = ToSet(order)
      /\ state.used = TokensOf(state.keys)
      /\ \A i, j \in 1 .. size : order[i] = order[j] => i = j
      /\ DOMAIN order = 1 .. size
  BY LenProperties DEF InStep
<1>2. /\ old \in Seq(Fingerprints) /\ Len(old) = n /\ DOMAIN old = 1 .. n
      /\ \A i \in 1 .. n : old[i] = order[i]
  BY <1>1
<1>3. /\ rest \in Seq(Fingerprints) /\ Len(rest) = size - n /\ DOMAIN rest = 1 .. size - n
      /\ \A i \in 1 .. size - n : rest[i] = order[n + i]
  BY <1>1
<1>4. /\ next.order = rest /\ next.keys = state.keys \ Oldest(state, n)
      /\ next.used = IF state.used >= TokensOf(Oldest(state, n))
                     THEN state.used - TokensOf(Oldest(state, n)) ELSE 0
  BY DEF Evict
<1> HIDE DEF order, size, old, rest, next
<1>5. n \in Nat /\ n <= size
  BY <1>1 DEF size, order
<1>6. ToSet(old) \subseteq ToSet(order) /\ ToSet(rest) \subseteq ToSet(order)
  <2>1. ASSUME NEW x \in ToSet(old) PROVE x \in ToSet(order)
    BY <1>1, <1>2, <1>5 DEF ToSet
  <2>2. ASSUME NEW x \in ToSet(rest) PROVE x \in ToSet(order)
    <3>1. PICK i \in 1 .. size - n : x = rest[i]
      BY <1>3 DEF ToSet
    <3>2. n + i \in 1 .. size /\ x = order[n + i]
      BY <1>1, <1>3, <1>5, <3>1
    <3> QED
      BY <1>1, <3>2 DEF ToSet
  <2> QED
    BY <2>1, <2>2
<1>7. Oldest(state, n) = ToSet(old)
  BY <1>1, <1>6 DEF Oldest, old, order
<1>8. ToSet(old) \intersect ToSet(rest) = {}
  <2>1. ASSUME NEW x \in ToSet(old), x \in ToSet(rest) PROVE FALSE
    <3>1. PICK i \in 1 .. n : x = order[i]
      BY <1>2 DEF ToSet
    <3>2. PICK j \in 1 .. size - n : x = order[n + j]
      BY <1>3, <2>1 DEF ToSet
    <3>3. i \in 1 .. size /\ n + j \in 1 .. size /\ i # n + j
      BY <1>1, <1>5
    <3> QED
      BY <1>1, <3>1, <3>2, <3>3
  <2> QED
    BY <2>1
<1>9. ToSet(order) = ToSet(old) \union ToSet(rest)
  <2>1. ASSUME NEW x \in ToSet(order) PROVE x \in ToSet(old) \union ToSet(rest)
    <3>1. PICK i \in 1 .. size : x = order[i]
      BY <1>1 DEF ToSet
    <3>2. CASE i <= n
      BY <1>2, <1>5, <3>1, <3>2 DEF ToSet
    <3>3. CASE i > n
      <4>1. i - n \in 1 .. size - n /\ x = rest[i - n]
        BY <1>1, <1>3, <1>5, <3>1, <3>3
      <4> QED
        BY <1>3, <4>1 DEF ToSet
    <3> QED
      BY <1>5, <3>2, <3>3
  <2> QED
    BY <1>6, <2>1
<1>10. next.keys = ToSet(rest)
  BY <1>1, <1>4, <1>7, <1>8, <1>9
<1>11. ToSet(old) \in SUBSET Fingerprints /\ ToSet(rest) \in SUBSET Fingerprints
  <2>1. \A i \in 1 .. size : order[i] \in Fingerprints
    BY <1>1, ElementOfSeq DEF size
  <2>2. \A x \in ToSet(order) : x \in Fingerprints
    BY <1>1, <2>1 DEF ToSet
  <2> QED
    BY <1>6, <2>2
<1>12. TokensOf(ToSet(order)) = TokensOf(ToSet(old)) + TokensOf(ToSet(rest))
  BY <1>8, <1>9, <1>11, TokensAdd
<1>13. TokensOf(ToSet(old)) \in Nat /\ TokensOf(ToSet(rest)) \in Nat
  BY <1>11, TokensTyped
<1>14. /\ next.used = state.used - TokensOf(Oldest(state, n))
       /\ next.used = TokensOf(next.keys)
  <2> DEFINE gone == TokensOf(ToSet(old))
             kept == TokensOf(ToSet(rest))
  <2>1. gone \in Nat /\ kept \in Nat /\ state.used = gone + kept
    BY <1>1, <1>12, <1>13
  <2>2. next.used = IF state.used >= gone THEN state.used - gone ELSE 0
    BY <1>4, <1>7
  <2> HIDE DEF gone, kept
  <2>3. next.used = kept /\ state.used - gone = kept
    BY <2>1, <2>2
  <2> QED
    BY <1>7, <1>10, <2>3 DEF gone, kept
<1>15. \A i, j \in 1 .. size - n : rest[i] = rest[j] => i = j
  <2>1. ASSUME NEW i \in 1 .. size - n, NEW j \in 1 .. size - n, rest[i] = rest[j]
        PROVE  i = j
    <3>1. n + i \in 1 .. size /\ n + j \in 1 .. size
      BY <1>1, <1>5
    <3>2. order[n + i] = order[n + j]
      BY <1>3, <2>1
    <3>3. n + i = n + j
      BY <1>1, <3>1, <3>2
    <3> QED
      BY <1>5, <3>3
  <2> QED
    BY <2>1
<1>16. InStep(next)
  BY <1>3, <1>4, <1>10, <1>14, <1>15 DEF InStep
<1> QED
  BY <1>3, <1>4, <1>14, <1>16 DEF next, size, order

(* The eviction loop ends with a cache that is in step and within its limits. *)
LEMMA EvictionFits ==
    ASSUME NEW state, InStep(state)
    PROVE  InStep(Evicted(state)) /\ WithinLimits(Evicted(state))
<1> DEFINE size == Len(state.order)
           T == {n \in 0 .. size : Fits(state, n)}
           N == CHOOSE n \in 0 .. size : Fits(state, n) /\ \A i \in 0 .. n - 1 : ~ Fits(state, i)
<1>1. size \in Nat
  BY LenProperties DEF InStep
<1>2. Fits(state, size)
  BY DEF Fits
<1>3. PICK m \in T : \A y \in T : m <= y
  <2>1. T \in SUBSET Nat /\ size \in T
    BY <1>1, <1>2
  <2> HIDE DEF T
  <2> QED
    BY <2>1, LeastElement
<1>4. m \in 0 .. size /\ Fits(state, m) /\ \A i \in 0 .. m - 1 : ~ Fits(state, i)
  <2>1. ASSUME NEW i \in 0 .. m - 1, Fits(state, i) PROVE FALSE
    <3>1. i \in 0 .. size /\ i < m
      BY <1>1
    <3> QED
      BY <1>1, <1>3, <2>1, <3>1
  <2> QED
    BY <2>1
<1>5. N \in 0 .. size /\ Fits(state, N)
  BY <1>4
<1>6. Evicted(state) = Evict(state, N)
  BY DEF Evicted
<1> HIDE DEF N, T, size
<1>7. /\ InStep(Evict(state, N))
      /\ Evict(state, N).used = state.used - TokensOf(Oldest(state, N))
      /\ Len(Evict(state, N).order) = size - N
  BY <1>5, PrefixesEvicted DEF size
<1>8. WithinLimits(Evict(state, N))
  <2>1. CASE N = size
    <3> DEFINE next == Evict(state, N)
    <3>1. Len(next.order) = 0 /\ next.order \in Seq(Fingerprints)
      BY <1>1, <1>7, <2>1 DEF InStep
    <3>2. ToSet(next.order) = {}
      BY <3>1 DEF ToSet
    <3>3. next.used = 0
      BY <1>7, <3>2, TokensNone DEF InStep
    <3> HIDE DEF next
    <3>4. WithinLimits(next)
      BY <3>1, <3>3, ConfigAssumption DEF WithinLimits
    <3> QED
      BY <3>4 DEF next
  <2>2. CASE N # size
    BY <1>5, <1>7, <2>2 DEF Fits, WithinLimits, size
  <2> QED
    BY <2>1, <2>2
<1> QED
  BY <1>6, <1>7, <1>8

(* One round of the loop over a request's prefixes. *)
LEMMA AddPrefixSound ==
    ASSUME NEW states, NEW p \in Fingerprints,
           \A state \in states : InStep(state) /\ WithinLimits(state)
    PROVE  \A state \in AddPrefix(states, p) : InStep(state) /\ WithinLimits(state)
<1>1. SUFFICES ASSUME NEW next \in AddPrefix(states, p)
               PROVE  InStep(next) /\ WithinLimits(next)
  OBVIOUS
<1>2. PICK state \in states :
          next = IF p \in state.keys THEN state ELSE Evicted(WithPrefix(state, p))
  BY DEF AddPrefix
<1>3. CASE p \in state.keys
  BY <1>2, <1>3
<1>4. CASE p \notin state.keys
  <2>1. InStep(WithPrefix(state, p))
    BY <1>4, PrefixAdded
  <2> QED
    BY <1>2, <1>4, <2>1, EvictionFits
<1> QED
  BY <1>3, <1>4

(* The rounds of the loop up to the m-th, as a function of the round. *)
Rounds(base, prefixes, m, f) ==
    f = [i \in 0 .. m |-> IF i = 0 THEN base ELSE AddPrefix(f[i - 1], prefixes[i])]

(* The loop over the prefixes is well defined: its rounds exist for every      *)
(* number of prefixes, since the first without any would have a predecessor    *)
(* that can be prolonged.                                                   *)
LEMMA RoundsExist ==
    ASSUME NEW base, NEW prefixes, NEW size \in Nat
    PROVE  \E f : Rounds(base, prefixes, size, f)
<1> DEFINE T == {m \in Nat : ~ \E f : Rounds(base, prefixes, m, f)}
<1>1. SUFFICES ASSUME T # {} PROVE FALSE
  OBVIOUS
<1>2. PICK m \in T : \A y \in T : m <= y
  <2>1. T \in SUBSET Nat
    OBVIOUS
  <2> HIDE DEF T
  <2> QED
    BY <1>1, <2>1, LeastElement
<1>3. m # 0
  <2>1. Rounds(base, prefixes, 0, [i \in 0 .. 0 |-> base])
    BY DEF Rounds
  <2> QED
    BY <1>2, <2>1
<1>4. m - 1 \in Nat /\ m - 1 \notin T
  BY <1>2, <1>3
<1>5. PICK f : Rounds(base, prefixes, m - 1, f)
  BY <1>4
<1> DEFINE g == [i \in 0 .. m |-> IF i < m THEN f[i] ELSE AddPrefix(f[m - 1], prefixes[m])]
<1>6. ASSUME NEW i \in 0 .. m
      PROVE  g[i] = IF i = 0 THEN base ELSE AddPrefix(g[i - 1], prefixes[i])
  <2>1. f = [k \in 0 .. m - 1 |-> IF k = 0 THEN base ELSE AddPrefix(f[k - 1], prefixes[k])]
    BY <1>5 DEF Rounds
  <2>2. \A k \in 0 .. m - 1 : f[k] = IF k = 0 THEN base ELSE AddPrefix(f[k - 1], prefixes[k])
    BY <2>1, Zenon
  <2>3. CASE i = m
    <3>1. g[i] = AddPrefix(f[m - 1], prefixes[m]) /\ g[i - 1] = f[m - 1] /\ i # 0
      BY <1>4, <2>3
    <3> QED
      BY <2>3, <3>1
  <2>4. CASE i # m /\ i # 0
    <3>1. g[i] = f[i] /\ g[i - 1] = f[i - 1] /\ i \in 0 .. m - 1
      BY <1>4, <2>4
    <3> QED
      BY <2>2, <2>4, <3>1
  <2>5. CASE i = 0 /\ i # m
    <3>1. g[i] = f[0] /\ 0 \in 0 .. m - 1
      BY <1>4, <2>5
    <3> QED
      BY <2>2, <2>5, <3>1
  <2> QED
    BY <2>3, <2>4, <2>5
<1>7. g = [i \in 0 .. m |-> g[i]]
  OBVIOUS
<1> HIDE DEF g
<1>8. Rounds(base, prefixes, m, g)
  BY <1>6, <1>7 DEF Rounds
<1> QED
  BY <1>2, <1>8

(* addPrefixes as a whole. *)
LEMMA PrefixesSound ==
    ASSUME NEW prefixes \in Seq(Fingerprints), InStep(CacheState), WithinLimits(CacheState),
           NEW next \in CacheAfter(prefixes)
    PROVE  InStep(next) /\ WithinLimits(next)
<1> DEFINE size == Len(prefixes)
           base == {CacheState}
           after[i \in 0 .. size] == IF i = 0 THEN base ELSE AddPrefix(after[i - 1], prefixes[i])
<1>1. size \in Nat
  BY LenProperties
<1>2. next \in after[size]
  BY DEF CacheAfter
<1>3. after = [i \in 0 .. size |-> IF i = 0 THEN base ELSE AddPrefix(after[i - 1], prefixes[i])]
  <2>1. \E f : f = [i \in 0 .. size |-> IF i = 0 THEN base ELSE AddPrefix(f[i - 1], prefixes[i])]
    <3>1. \E f : Rounds(base, prefixes, size, f)
      <4> HIDE DEF base, size
      <4> QED
        BY <1>1, RoundsExist
    <3> QED
      BY <3>1, Zenon DEF Rounds
  <2> QED
    BY <2>1, Zenon
<1> HIDE DEF after
<1>4. \A i \in 0 .. size : after[i] = IF i = 0 THEN base ELSE AddPrefix(after[i - 1], prefixes[i])
  BY <1>3, Zenon
<1> DEFINE T == {m \in 0 .. size : ~ \A state \in after[m] : InStep(state) /\ WithinLimits(state)}
<1>5. T = {}
  <2>1. SUFFICES ASSUME T # {} PROVE FALSE
    OBVIOUS
  <2>2. PICK m \in T : \A y \in T : m <= y
    <3>1. T \in SUBSET Nat
      BY <1>1
    <3> HIDE DEF T
    <3> QED
      BY <2>1, <3>1, LeastElement
  <2>3. m \in 0 .. size
    OBVIOUS
  <2>4. m # 0
    <3>1. after[0] = {CacheState}
      BY <1>1, <1>4
    <3> QED
      BY <2>2, <3>1
  <2>5. m - 1 \in 0 .. size /\ m - 1 \notin T /\ m \in 1 .. size
    BY <1>1, <2>2, <2>3, <2>4
  <2>6. \A state \in after[m - 1] : InStep(state) /\ WithinLimits(state)
    BY <2>5
  <2>7. after[m] = AddPrefix(after[m - 1], prefixes[m]) /\ prefixes[m] \in Fingerprints
    BY <1>4, <2>3, <2>4, <2>5, ElementOfSeq
  <2>8. \A state \in after[m] : InStep(state) /\ WithinLimits(state)
    BY <2>6, <2>7, AddPrefixSound
  <2> QED
    BY <2>2, <2>8
<1> QED
  BY <1>1, <1>2, <1>5

(* A step other than addPrefixes leaves the cache alone. *)
LEMMA CacheUntouched ==
    ASSUME [Next]_vars, ~ AddPrefixes
    PROVE  UNCHANGED cached
<1>1. ASSUME NEW c \in Calls,
             \/ InvalidCall(c)
             \/ \E request \in Requests : AddWaiting(c, request)
             \/ HandlerStep(c)
             \/ CallerCancels(c)
      PROVE  UNCHANGED cached
  BY <1>1, Zenon DEF InvalidCall, AddWaiting, HandlerStep, CallerCancels, Enqueue,
       EnqueueCanceled, QueueFull, ReceiveChunk, SendFailed, ReceiveFailure, CallCanceled,
       CallStopped
<1>2. CASE DispatcherStep
  BY <1>2, Zenon DEF DispatcherStep, Dequeue, MoveToRunning, PrefillOver, DecodeOver,
       WaitInterrupted, Send, SendInterrupted, FinishRunning, DispatchExit
<1>3. CASE \/ StopCancel \/ StopServer \/ ServeReturns \/ LoopReturns \/ StopReturns
           \/ AllOver \/ UNCHANGED vars
  BY <1>3 DEF StopCancel, StopServer, ServeReturns, LoopReturns, OtherReturns, StopReturns,
       AllOver, vars, cached
<1> QED
  BY <1>1, <1>2, <1>3 DEF Next

(* A sequence without duplicates is as long as it has elements. *)
LEMMA DistinctLength ==
    ASSUME NEW s \in Seq(Fingerprints), \A i, j \in 1 .. Len(s) : s[i] = s[j] => i = j
    PROVE  Len(s) = Cardinality(ToSet(s))
<1>1. Len(s) \in Nat /\ DOMAIN s = 1 .. Len(s)
  BY LenProperties
<1> DEFINE f == [i \in 1 .. Len(s) |-> s[i]]
<1>2. f \in Bijection(1 .. Len(s), ToSet(s))
  BY <1>1 DEF Bijection, Injection, Surjection, IsInjective, ToSet
<1>3. IsFiniteSet(1 .. Len(s)) /\ Cardinality(1 .. Len(s)) = Len(s)
  BY <1>1, FS_Interval
<1>4. ExistsBijection(1 .. Len(s), ToSet(s))
  BY <1>2 DEF ExistsBijection
<1>5. Cardinality(ToSet(s)) = Cardinality(1 .. Len(s))
  BY <1>3, <1>4, FS_Bijection
<1> QED
  BY <1>3, <1>5

(* For any prefixes, any order of jobs and any limits, addPrefixes keeps the   *)
(* map, the eviction order and the token count of the cache in step and        *)
(* within both limits, so that no heartbeat is refused for its KV usage.  The   *)
(* clamp in its eviction loop never acts.  Both loops are covered by induction: *)
(* the outer one over its rounds, the inner one by the least number of          *)
(* evictions after which the cache fits.                                    *)
THEOREM CacheStaysSound == Spec => []CacheSound
<1> DEFINE CacheInv == InStep(CacheState) /\ WithinLimits(CacheState)
<1>1. Init => CacheInv
  <2>1. SUFFICES ASSUME Init PROVE CacheInv
    OBVIOUS
  <2>2. CacheState.order = <<>> /\ CacheState.keys = {} /\ CacheState.used = 0
    BY <2>1 DEF Init, CacheState
  <2>3. ToSet(<<>>) = {}
    BY DEF ToSet
  <2> QED
    BY <2>2, <2>3, TokensNone, ConfigAssumption DEF InStep, WithinLimits
<1>2. JobsInv /\ CacheInv /\ [Next]_vars => CacheInv'
  <2>1. SUFFICES ASSUME JobsInv, CacheInv, [Next]_vars PROVE CacheInv'
    OBVIOUS
  <2>2. CASE ~ AddPrefixes
    <3>1. CacheState' = CacheState
      BY <2>1, <2>2, CacheUntouched DEF CacheState, cached
    <3> QED
      BY <2>1, <3>1
  <2>3. CASE AddPrefixes
    <3>1. Job.request.prefixes \in Seq(Fingerprints)
      <4>1. disp.at = "cache"
        BY <2>3 DEF AddPrefixes
      <4>2. disp.job \in Calls /\ CallInv(disp.job)
        BY <2>1, <4>1, JobAtHand
      <4>3. Job.request \in Requests
        BY <4>2 DEF CallInv, JobInv, Job
      <4> QED
        BY <4>3, RequestsAssumption
    <3>2. PICK state \in CacheAfter(Job.request.prefixes) :
              cache' = state.keys /\ cacheOrder' = state.order /\ usedTokens' = state.used
      BY <2>3 DEF AddPrefixes
    <3>3. InStep(state) /\ WithinLimits(state)
      BY <2>1, <3>1, <3>2, PrefixesSound
    <3>4. /\ CacheState'.order = state.order /\ CacheState'.keys = state.keys
          /\ CacheState'.used = state.used
      BY <3>2 DEF CacheState
    <3> QED
      BY <3>3, <3>4 DEF InStep, WithinLimits
  <2> QED
    BY <2>2, <2>3
<1>3. CacheInv => CacheSound
  <2>1. SUFFICES ASSUME CacheInv PROVE CacheSound
    OBVIOUS
  <2>2. CacheState.order = cacheOrder /\ CacheState.keys = cache /\ CacheState.used = usedTokens
    BY DEF CacheState
  <2>3. Len(cacheOrder) = Cardinality(ToSet(cacheOrder))
    BY <2>1, <2>2, DistinctLength DEF InStep
  <2> QED
    BY <2>1, <2>2, <2>3 DEF InStep, WithinLimits, CacheSound
<1> QED
  BY <1>1, <1>2, <1>3, JobsInvariant, PTL DEF Spec
=============================================================================
