------------------------- MODULE GatewayStreamProofs -------------------------
(***************************************************************************)
(* What the client of Gateway.tla receives: the stream is one generation,   *)
(* a completion is honest, a committed stream is closed, and the router     *)
(* implements the contract of ChatContract.tla.                             *)
(***************************************************************************)
EXTENDS GatewayProofs

(* Stream s holds m tokens of attempt a in index order, then at most one     *)
(* terminal event and after it at most [DONE].                               *)
Shaped(s, a, m) ==
    /\ m \in 0 .. Len(s)
    /\ Len(s) <= m + 2
    /\ \A n \in 1 .. m : s[n].kind = "token" /\ s[n].index = n - 1 /\ s[n].attempt = a
    /\ Len(s) > m => s[m + 1].kind \in {"completion", "error"} /\ s[m + 1].attempt = a
    /\ Len(s) = m + 2 => s[m + 2].kind = "done"

(* With k tokens of attempt A read from its channel: the channel holds the   *)
(* tokens from index k on, a final event only as its last one, and the       *)
(* receiver's count of tokens covers what was read, what is in the channel   *)
(* and what it holds.                                                        *)
Numbered(A, k) ==
    /\ \A n \in DOMAIN A.events :
          /\ A.events[n].kind = "token" => A.events[n].index = k + n - 1
          /\ A.events[n].kind # "token" => n = Len(A.events) /\ A.state = "exited"
          /\ A.events[n].kind = "completion" => A.expected = k + n - 1
    /\ A.state = "recv" => A.expected = k + Len(A.events)
    /\ (A.state = "deliver" /\ A.holding.kind = "token") =>
          A.holding.index = k + Len(A.events) /\ A.expected = k + Len(A.events) + 1
    /\ (A.state = "deliver" /\ A.holding.kind # "token") => A.expected = k + Len(A.events)

(* What the client was sent, for each part of handleChat. *)
SentInv(r) ==
    /\ pc[r] \in UncommittedPCs => sse[r] = << >>
    /\ status[r] # 200 => sse[r] = << >>
    /\ \E m \in 0 .. Len(sse[r]) : Shaped(sse[r], attempt[r], m)
    /\ pc[r] \in {"headers", "forward", "write"} => Shaped(sse[r], attempt[r], Len(sse[r]))
    /\ pc[r] = "done" => \E m \in 0 .. Len(sse[r]) :
          /\ Shaped(sse[r], attempt[r], m)
          /\ Len(sse[r]) <= m + 1
          /\ client[r] # "gone" => Len(sse[r]) = m + 1
    /\ (pc[r] = "release" /\ status[r] = 200 /\ ctx[r] = "live" /\ client[r] # "gone") =>
          "done" \in Kinds(sse[r])

(* How it relates to the attempt that is read: while the connection is good  *)
(* the next event in the channel is the next one the client has not seen.    *)
SourceInv(r) ==
    LET A == att[Current(r)] IN
    /\ pc[r] = "first" => Numbered(A, 0)
    /\ (pc[r] = "forward" /\ client[r] # "gone") => Numbered(A, Len(sse[r]))
    /\ (pc[r] \in {"headers", "write"} /\ client[r] # "gone") =>
          /\ event[r].kind = "token" =>
                event[r].index = Len(sse[r]) /\ Numbered(A, Len(sse[r]) + 1)
          /\ event[r].kind = "completion" => A.state = "exited" /\ A.expected = Len(sse[r])
    /\ \A n \in DOMAIN sse[r] :
          sse[r][n].kind = "completion" => A.state = "exited" /\ A.expected = n - 1

StreamInv == \A r \in Requests : SentInv(r) /\ SourceInv(r)

-----------------------------------------------------------------------------
(* The channel of an attempt. *)

(* An empty channel of a receiver that has just started is numbered from 0. *)
LEMMA NumberedStart ==
    ASSUME NEW A, A.events = << >>, A.state = "recv", A.expected = 0
    PROVE  Numbered(A, 0)
BY DEF Numbered

(* Cancelling an attempt or closing its connection leaves its numbering alone. *)
LEMMA NumberedSame ==
    ASSUME NEW A, NEW B, NEW k, Numbered(A, k), B.state = A.state, B.expected = A.expected,
           B.holding = A.holding, B.events = A.events
    PROVE  Numbered(B, k)
BY DEF Numbered

(* The handler takes the first event.  A token is the next one; a            *)
(* completion has nothing behind it and covers every token.                  *)
LEMMA NumberedTake ==
    ASSUME NEW A \in AttemptType, NEW B, NEW k \in Nat, Numbered(A, k), A.events # << >>,
           B.state = A.state, B.expected = A.expected, B.holding = A.holding,
           B.events = Tail(A.events)
    PROVE  /\ Head(A.events).kind = "token" =>
                 Head(A.events).index = k /\ Numbered(B, k + 1)
           /\ Head(A.events).kind = "completion" => A.state = "exited" /\ A.expected = k
<1>1. A.events \in Seq(EventType)
  BY DEF AttemptType
<1> DEFINE s == A.events
           t == Tail(A.events)
           x == A.expected
           h == A.holding
<1>2. /\ s # << >> /\ Len(s) \in Nat /\ Len(s) >= 1 /\ DOMAIN s = 1 .. Len(s) /\ Head(s) = s[1]
      /\ t \in Seq(EventType) /\ Len(t) = Len(s) - 1 /\ DOMAIN t = 1 .. Len(t)
      /\ \A n \in 1 .. Len(t) : t[n] = s[n + 1]
  BY <1>1
<1>3. x \in Nat
  BY DEF AttemptType
<1> HIDE DEF s, t, x, h
<1>4. /\ \A n \in 1 .. Len(s) :
          /\ s[n].kind = "token" => s[n].index = k + n - 1
          /\ s[n].kind # "token" => n = Len(s) /\ A.state = "exited"
          /\ s[n].kind = "completion" => x = k + n - 1
      /\ A.state = "recv" => x = k + Len(s)
      /\ (A.state = "deliver" /\ h.kind = "token") =>
          h.index = k + Len(s) /\ x = k + Len(s) + 1
      /\ (A.state = "deliver" /\ h.kind # "token") => x = k + Len(s)
  BY <1>2 DEF Numbered, s, x, h
<1>5. ASSUME Head(s).kind = "token" PROVE Head(s).index = k /\ Numbered(B, k + 1)
  <2>1. Head(s).index = k
    BY <1>2, <1>4, <1>5
  <2>2. ASSUME NEW n \in DOMAIN t
        PROVE  /\ t[n].kind = "token" => t[n].index = k + 1 + n - 1
               /\ t[n].kind # "token" => n = Len(t) /\ A.state = "exited"
               /\ t[n].kind = "completion" => x = k + 1 + n - 1
    <3>1. n \in 1 .. Len(t) /\ n + 1 \in 1 .. Len(s) /\ t[n] = s[n + 1]
      BY <1>2
    <3>2. k + 1 + n - 1 = k + (n + 1) - 1 /\ (n = Len(t) <=> n + 1 = Len(s))
      <4> DEFINE l == Len(s)
                 m == Len(t)
      <4>1. n \in Int /\ l \in Int /\ m = l - 1
        BY <1>2, <3>1
      <4> HIDE DEF l, m
      <4>2. k + 1 + n - 1 = k + (n + 1) - 1 /\ (n = m <=> n + 1 = l)
        BY <4>1
      <4> QED
        BY <4>2 DEF l, m
    <3>3. /\ s[n + 1].kind = "token" => s[n + 1].index = k + (n + 1) - 1
          /\ s[n + 1].kind # "token" => n + 1 = Len(s) /\ A.state = "exited"
          /\ s[n + 1].kind = "completion" => x = k + (n + 1) - 1
      BY <1>4, <3>1, Zenon
    <3> QED
      BY <3>1, <3>2, <3>3, Zenon
  <2>3. /\ A.state = "recv" => x = k + 1 + Len(t)
        /\ (A.state = "deliver" /\ h.kind = "token") =>
              h.index = k + 1 + Len(t) /\ x = k + 1 + Len(t) + 1
        /\ (A.state = "deliver" /\ h.kind # "token") => x = k + 1 + Len(t)
    <3>1. k + 1 + Len(t) = k + Len(s) /\ k + 1 + Len(t) + 1 = k + Len(s) + 1
      BY <1>2
    <3> QED
      BY <1>4, <3>1
  <2> QED
    BY <2>1, <2>2, <2>3 DEF Numbered, t, x, h
<1>6. ASSUME Head(s).kind = "completion" PROVE A.state = "exited" /\ x = k
  BY <1>2, <1>3, <1>4, <1>6
<1> QED
  BY <1>5, <1>6 DEF s, x

(* receiveAttempt takes a message: a valid token carries the index that was  *)
(* expected, and anything else leaves the count alone.                       *)
LEMMA NumberedReceived ==
    ASSUME NEW A \in AttemptType, NEW B, NEW k \in Nat, Numbered(A, k), A.state = "recv",
           B.state = "deliver", B.events = A.events,
           B.holding.kind = "token" => B.holding.index = A.expected /\ B.expected = A.expected + 1,
           B.holding.kind # "token" => B.expected = A.expected
    PROVE  Numbered(B, k)
<1>1. A.events \in Seq(EventType) /\ Len(A.events) \in Nat
  BY DEF AttemptType
<1>2. ASSUME NEW n \in DOMAIN A.events PROVE A.events[n].kind = "token"
  BY DEF Numbered
<1> QED
  BY <1>1, <1>2 DEF Numbered

(* deliverAttempt puts the event in hand behind the others. *)
LEMMA NumberedDelivered ==
    ASSUME NEW A \in AttemptType, NEW B, NEW k \in Nat, Numbered(A, k), A.state = "deliver",
           A.holding \in EventType, B.events = Append(A.events, A.holding),
           B.expected = A.expected,
           B.state = IF A.holding.kind = "token" THEN "recv" ELSE "exited"
    PROVE  Numbered(B, k)
<1>1. A.events \in Seq(EventType) /\ A.expected \in Nat
  BY DEF AttemptType
<1> DEFINE s == A.events
           h == A.holding
           t == Append(s, h)
<1>2. /\ Len(s) \in Nat /\ DOMAIN s = 1 .. Len(s)
      /\ Len(t) = Len(s) + 1 /\ DOMAIN t = 1 .. Len(s) + 1
      /\ \A n \in 1 .. Len(s) : t[n] = s[n]
      /\ t[Len(s) + 1] = h
  BY <1>1
<1> HIDE DEF s, t
<1>3. \A n \in 1 .. Len(s) : s[n].kind = "token" /\ s[n].index = k + n - 1
  BY <1>2 DEF Numbered, s
<1>4. /\ h.kind = "token" => h.index = k + Len(s) /\ A.expected = k + Len(s) + 1
      /\ h.kind # "token" => A.expected = k + Len(s)
  BY DEF Numbered, s
<1>5. ASSUME NEW n \in DOMAIN t
      PROVE  /\ t[n].kind = "token" => t[n].index = k + n - 1
             /\ t[n].kind # "token" => n = Len(t) /\ B.state = "exited"
             /\ t[n].kind = "completion" => A.expected = k + n - 1
  <2>1. CASE n \in 1 .. Len(s)
    BY <1>2, <1>3, <2>1
  <2>2. CASE n = Len(s) + 1
    BY <1>1, <1>2, <1>4, <2>2
  <2> QED
    BY <1>2, <2>1, <2>2
<1>6. B.state = "recv" => A.expected = k + Len(t)
  BY <1>1, <1>2, <1>4
<1> QED
  BY <1>5, <1>6 DEF Numbered, t, s

(* A dropped event is not missed in the channel, only behind it. *)
LEMMA NumberedDropped ==
    ASSUME NEW A \in AttemptType, NEW B, NEW k \in Nat, Numbered(A, k), A.state = "deliver",
           B.events = A.events, B.expected = A.expected, B.state = "exited"
    PROVE  Numbered(B, k)
BY DEF Numbered

(* No step of a receiver breaks the numbering of its attempt. *)
LEMMA NumberedReceiver ==
    ASSUME GatewayInv, NEW i \in Attempts, ReceiverStep(i), NEW k \in Nat, Numbered(att[i], k)
    PROVE  Numbered(att'[i], k)
<1>1. att[i] \in AttemptType
  BY DEF GatewayInv, TypeOK
<1>2. CASE Received(i)
  BY <1>1, <1>2, NumberedReceived DEF Received, AttemptBecomes, HasFields
<1>3. CASE Delivered(i)
  <2>1. /\ att[i].state = "deliver" /\ att[i].holding \in EventType
        /\ att'[i].events = Append(att[i].events, att[i].holding)
        /\ att'[i].expected = att[i].expected
        /\ att'[i].state = IF att[i].holding.kind = "token" THEN "recv" ELSE "exited"
    BY <1>3 DEF Delivered, AttemptBecomes, HasFields
  <2> QED
    BY <1>1, <2>1, NumberedDelivered
<1>4. CASE Discarded(i)
  BY <1>1, <1>4, NumberedDropped DEF Discarded, AttemptBecomes, HasFields
<1> QED
  BY <1>2, <1>3, <1>4, ReceiverEffects

-----------------------------------------------------------------------------
(* The stream of a client. *)

(* Appending to a stream. *)
LEMMA Appended ==
    ASSUME NEW s \in Seq(SentType), NEW e
    PROVE  /\ Len(s) \in Nat /\ DOMAIN s = 1 .. Len(s)
           /\ Len(Append(s, e)) = Len(s) + 1
           /\ DOMAIN Append(s, e) = 1 .. Len(s) + 1
           /\ \A n \in 1 .. Len(s) : Append(s, e)[n] = s[n]
           /\ Append(s, e)[Len(s) + 1] = e
           /\ Kinds(Append(s, e)) = Kinds(s) \union {e.kind}
<1>1. /\ Len(s) \in Nat /\ DOMAIN s = 1 .. Len(s)
      /\ Len(Append(s, e)) = Len(s) + 1
      /\ DOMAIN Append(s, e) = 1 .. Len(s) + 1
      /\ \A n \in 1 .. Len(s) : Append(s, e)[n] = s[n]
      /\ Append(s, e)[Len(s) + 1] = e
  OBVIOUS
<1> DEFINE t == Append(s, e)
<1> HIDE DEF t
<1>2. Kinds(t) \subseteq Kinds(s) \union {e.kind}
  <2>1. ASSUME NEW n \in DOMAIN t PROVE t[n].kind \in Kinds(s) \union {e.kind}
    <3>1. CASE n \in 1 .. Len(s)
      BY <1>1, <3>1 DEF Kinds, t
    <3>2. CASE n = Len(s) + 1
      BY <1>1, <3>2 DEF t
    <3> QED
      BY <1>1, <3>1, <3>2 DEF t
  <2> QED
    BY <2>1 DEF Kinds
<1>3. Kinds(s) \subseteq Kinds(t)
  <2>1. ASSUME NEW n \in DOMAIN s PROVE s[n].kind \in Kinds(t)
    <3>1. n \in DOMAIN t /\ t[n] = s[n]
      BY <1>1 DEF t
    <3> QED
      BY <3>1 DEF Kinds
  <2> QED
    BY <2>1 DEF Kinds
<1>4. e.kind \in Kinds(t)
  <2>1. Len(s) + 1 \in DOMAIN t /\ t[Len(s) + 1] = e
    BY <1>1 DEF t
  <2> QED
    BY <2>1 DEF Kinds
<1> QED
  BY <1>1, <1>2, <1>3, <1>4 DEF t

(* No event was sent yet. *)
LEMMA ShapedEmpty ==
    ASSUME NEW a
    PROVE  Shaped(<< >>, a, 0) /\ Len(<< >>) = 0 /\ Kinds(<< >>) = {}
<1>1. Len(<< >>) = 0 /\ DOMAIN << >> = {}
  OBVIOUS
<1> QED
  BY <1>1 DEF Shaped, Kinds

(* writeSSE of the next token. *)
LEMMA ShapedToken ==
    ASSUME NEW s \in Seq(SentType), NEW a, Shaped(s, a, Len(s)),
           NEW e, e.kind = "token", e.index = Len(s), e.attempt = a
    PROVE  Shaped(Append(s, e), a, Len(s) + 1)
<1> DEFINE t == Append(s, e)
<1>1. /\ Len(s) \in Nat /\ Len(t) = Len(s) + 1
      /\ \A n \in 1 .. Len(s) : t[n] = s[n]
      /\ t[Len(s) + 1] = e
  BY Appended
<1> HIDE DEF t
<1>2. ASSUME NEW n \in 1 .. Len(s) + 1
      PROVE  t[n].kind = "token" /\ t[n].index = n - 1 /\ t[n].attempt = a
  <2>1. CASE n \in 1 .. Len(s)
    BY <1>1, <2>1 DEF Shaped
  <2>2. CASE n = Len(s) + 1
    BY <1>1, <2>2
  <2> QED
    BY <1>1, <2>1, <2>2
<1>3. Shaped(t, a, Len(s) + 1)
  BY <1>1, <1>2 DEF Shaped
<1> QED
  BY <1>3 DEF t

(* writeCompletion or writeStreamError after the tokens. *)
LEMMA ShapedFinal ==
    ASSUME NEW s \in Seq(SentType), NEW a, Shaped(s, a, Len(s)),
           NEW e, e.kind \in {"completion", "error"}, e.attempt = a
    PROVE  Shaped(Append(s, e), a, Len(s)) /\ Len(Append(s, e)) = Len(s) + 1
<1> DEFINE t == Append(s, e)
<1>1. /\ Len(s) \in Nat /\ Len(t) = Len(s) + 1
      /\ \A n \in 1 .. Len(s) : t[n] = s[n]
      /\ t[Len(s) + 1] = e
  BY Appended
<1> HIDE DEF t
<1>2. \A n \in 1 .. Len(s) : t[n].kind = "token" /\ t[n].index = n - 1 /\ t[n].attempt = a
  BY <1>1 DEF Shaped
<1>3. Shaped(t, a, Len(s)) /\ Len(t) = Len(s) + 1
  BY <1>1, <1>2 DEF Shaped
<1> QED
  BY <1>3 DEF t

(* writeDone after the terminal event. *)
LEMMA ShapedDone ==
    ASSUME NEW s \in Seq(SentType), NEW a, NEW m, Shaped(s, a, m), Len(s) = m + 1,
           NEW e, e.kind = "done"
    PROVE  Shaped(Append(s, e), a, m)
<1> DEFINE t == Append(s, e)
<1>1. /\ Len(s) \in Nat /\ Len(t) = Len(s) + 1 /\ m \in Nat
      /\ \A n \in 1 .. Len(s) : t[n] = s[n]
      /\ t[Len(s) + 1] = e
  BY Appended DEF Shaped
<1> HIDE DEF t
<1>2. \A n \in 1 .. m : t[n].kind = "token" /\ t[n].index = n - 1 /\ t[n].attempt = a
  BY <1>1 DEF Shaped
<1>3. t[m + 1] = s[m + 1] /\ t[m + 2] = e
  BY <1>1
<1>4. Shaped(t, a, m)
  BY <1>1, <1>2, <1>3 DEF Shaped
<1> QED
  BY <1>4 DEF t

(* Where the events of a stream of this shape are. *)
LEMMA ShapedKinds ==
    ASSUME NEW s \in Seq(SentType), NEW a, NEW m, Shaped(s, a, m), NEW n \in DOMAIN s
    PROVE  /\ n \in Nat /\ m \in Nat /\ n >= 1 /\ n <= Len(s)
           /\ s[n].kind = "token" <=> n <= m
           /\ s[n].kind \in {"completion", "error"} <=> n = m + 1
           /\ s[n].kind = "done" <=> n = m + 2
<1>1. /\ n \in Nat /\ m \in Nat /\ Len(s) \in Nat /\ n >= 1 /\ n <= Len(s)
      /\ n <= m \/ n = m + 1 \/ n = m + 2
  BY DEF Shaped
<1>2. CASE n <= m
  BY <1>1, <1>2 DEF Shaped
<1>3. CASE n = m + 1
  BY <1>1, <1>3 DEF Shaped
<1>4. CASE n = m + 2
  BY <1>1, <1>4 DEF Shaped
<1> QED
  BY <1>1, <1>2, <1>3, <1>4

(* While only tokens were sent the stream has no terminal event; after the   *)
(* terminal event it has one and no [DONE].                                  *)
LEMMA ShapedOutcome ==
    ASSUME NEW s \in Seq(SentType), NEW a, NEW m, Shaped(s, a, m)
    PROVE  /\ Len(s) = m => Kinds(s) \subseteq {"token"}
           /\ Len(s) > m => "completion" \in Kinds(s) \/ "error" \in Kinds(s)
           /\ "done" \in Kinds(s) <=> Len(s) = m + 2
<1>1. Len(s) \in Nat /\ m \in Nat /\ DOMAIN s = 1 .. Len(s)
  BY DEF Shaped
<1>2. ASSUME Len(s) = m PROVE Kinds(s) \subseteq {"token"}
  BY <1>1, <1>2 DEF Shaped, Kinds
<1>3. ASSUME Len(s) > m PROVE "completion" \in Kinds(s) \/ "error" \in Kinds(s)
  <2>0. m + 1 \in DOMAIN s
    BY <1>1, <1>3
  <2>1. s[m + 1].kind \in {"completion", "error"}
    BY <1>3 DEF Shaped
  <2>2. s[m + 1].kind \in Kinds(s)
    BY <2>0 DEF Kinds
  <2> QED
    BY <2>1, <2>2
<1>4. ASSUME Len(s) = m + 2 PROVE "done" \in Kinds(s)
  <2>1. m + 2 \in DOMAIN s /\ s[m + 2].kind = "done"
    BY <1>1, <1>4 DEF Shaped
  <2> QED
    BY <2>1 DEF Kinds
<1>5. ASSUME "done" \in Kinds(s) PROVE Len(s) = m + 2
  <2>1. PICK n \in DOMAIN s : s[n].kind = "done"
    BY <1>5 DEF Kinds
  <2>2. n = m + 2 /\ n <= Len(s)
    BY <2>1, ShapedKinds
  <2> QED
    BY <1>1, <2>2 DEF Shaped
<1> QED
  BY <1>2, <1>3, <1>4, <1>5

-----------------------------------------------------------------------------
(* The step changes nothing that the stream of request q depends on, except  *)
(* that its context may end and its client may leave.                        *)
SameStream(q) ==
    /\ pc'[q] = pc[q] /\ attempt'[q] = attempt[q] /\ status'[q] = status[q]
    /\ event'[q] = event[q] /\ sse'[q] = sse[q]
    /\ ctx[q] # "live" => ctx'[q] # "live"
    /\ client[q] = "gone" => client'[q] = "gone"

(* What was sent stays as it is. *)
LEMMA SentFrame ==
    ASSUME NEW q \in Requests, SentInv(q), SameStream(q)
    PROVE  SentInv(q)'
<1>1. /\ pc'[q] = pc[q] /\ attempt'[q] = attempt[q] /\ status'[q] = status[q] /\ sse'[q] = sse[q]
      /\ ctx'[q] = "live" => ctx[q] = "live"
      /\ client'[q] # "gone" => client[q] # "gone"
  BY DEF SameStream
<1> QED
  BY <1>1 DEF SentInv

(* So does its relation to an attempt whose receiver did not move. *)
LEMMA SourceFrame ==
    ASSUME NEW q \in Requests, SourceInv(q), SameStream(q), Kept(Current(q))
    PROVE  SourceInv(q)'
<1> DEFINE i == Current(q)
<1>1. /\ pc'[q] = pc[q] /\ event'[q] = event[q] /\ sse'[q] = sse[q] /\ Current(q)' = i
      /\ client'[q] # "gone" => client[q] # "gone"
  BY DEF SameStream, Current
<1>2. att'[i] = att[i]
  BY DEF Kept
<1> HIDE DEF i
<1>4. /\ pc[q] = "first" => Numbered(att[i], 0)
      /\ (pc[q] = "forward" /\ client[q] # "gone") => Numbered(att[i], Len(sse[q]))
      /\ (pc[q] \in {"headers", "write"} /\ client[q] # "gone") =>
            /\ event[q].kind = "token" =>
                  event[q].index = Len(sse[q]) /\ Numbered(att[i], Len(sse[q]) + 1)
            /\ event[q].kind = "completion" =>
                  att[i].state = "exited" /\ att[i].expected = Len(sse[q])
      /\ \A n \in DOMAIN sse[q] : sse[q][n].kind = "completion" =>
            att[i].state = "exited" /\ att[i].expected = n - 1
  BY DEF SourceInv, i
<1> QED
  BY <1>1, <1>2, <1>4 DEF SourceInv

(* The receiver of the attempt that is read takes a step. *)
LEMMA SourceReceives ==
    ASSUME GatewayInv, NEW q \in Requests, SourceInv(q), SameStream(q), NEW i \in Attempts,
           i = Current(q), ReceiverStep(i)
    PROVE  SourceInv(q)'
<1>1. /\ pc'[q] = pc[q] /\ event'[q] = event[q] /\ sse'[q] = sse[q] /\ Current(q)' = i
      /\ client'[q] # "gone" => client[q] # "gone"
  BY DEF SameStream, Current
<1>2. Len(sse[q]) \in Nat
  BY DEF GatewayInv, TypeOK
<1>3. \A k \in Nat : Numbered(att[i], k) => Numbered(att'[i], k)
  BY NumberedReceiver
<1>4. att[i].state # "exited"
  BY ReceiverEffects DEF Received, Delivered, Discarded
<1>5. /\ pc[q] = "first" => Numbered(att[i], 0)
      /\ (pc[q] = "forward" /\ client[q] # "gone") => Numbered(att[i], Len(sse[q]))
      /\ (pc[q] \in {"headers", "write"} /\ client[q] # "gone") =>
            /\ event[q].kind = "token" =>
                  event[q].index = Len(sse[q]) /\ Numbered(att[i], Len(sse[q]) + 1)
            /\ event[q].kind # "completion"
      /\ \A n \in DOMAIN sse[q] : sse[q][n].kind # "completion"
  BY <1>4 DEF SourceInv
<1> QED
  BY <1>1, <1>2, <1>3, <1>5 DEF SourceInv

(* Every receiver's step keeps the stream invariant. *)
LEMMA ReceiverStream ==
    ASSUME GatewayInv, StreamInv, NEW i \in Attempts, ReceiverStep(i)
    PROVE  StreamInv'
<1> SUFFICES ASSUME NEW q \in Requests PROVE SentInv(q)' /\ SourceInv(q)'
  BY DEF StreamInv
<1>1. SameStream(q)
  <2>1. UNCHANGED <<handlerVars, clientVars, ctx>>
    BY Zenon DEF ReceiverStep, RecvChunk, RecvError, RecvAborted, DeliverStep, Deliver,
       DeliverCanceled, SlowClient
  <2> QED
    BY <2>1 DEF handlerVars, clientVars, SameStream
<1>2. SentInv(q)'
  BY <1>1, SentFrame DEF StreamInv
<1>3. CASE i = Current(q)
  BY <1>1, <1>2, <1>3, SourceReceives DEF StreamInv
<1>4. CASE i # Current(q)
  <2>1. Current(q) \in Attempts
    BY BeforeStep DEF Before
  <2>2. att'[Current(q)] = att[Current(q)]
    BY <1>4, <2>1, ReceiverEffects DEF Received, Delivered, Discarded, AttemptBecomes
  <2>3. Kept(Current(q))
    BY <2>2 DEF Kept
  <2> QED
    BY <1>1, <1>2, <2>3, SourceFrame DEF StreamInv
<1> QED
  BY <1>2, <1>3, <1>4

(* A step of one handler leaves the streams, contexts and clients of the     *)
(* others alone.                                                             *)
LEMMA OtherStreams ==
    ASSUME GatewayInv, NEW r \in Requests, HandlerStep(r) \/ EnvironmentStep(r),
           NEW q \in Requests, q # r
    PROVE  SameStream(q) /\ ctx'[q] = ctx[q] /\ Kept(Current(q))
<1>1. OthersKept(r)
  BY RequestKeeps DEF StepKeeps
<1>2. Current(q) \in Attempts /\ Current(q)[1] = q
  <2>1. Before(q)
    BY BeforeStep
  <2>2. Current(q) = <<q, attempt[q]>> /\ Current(q) \in Attempts
    BY <2>1 DEF Before
  <2>3. <<q, attempt[q]>>[1] = q
    OBVIOUS
  <2> QED
    BY <2>2, <2>3
<1>3. Kept(Current(q))
  BY <1>1, <1>2 DEF OthersKept
<1>4. /\ \/ UNCHANGED sse
         \/ \E e \in {Sent(event[r].kind, attempt[r], event[r].index), Sent("done", 0, 0)} :
               sse' = [sse EXCEPT ![r] = Append(@, e)]
         \/ sse' = [sse EXCEPT ![r] = @]
      /\ UNCHANGED ctx \/ CancelContext(r) \/ ctx' = [ctx EXCEPT ![r] = "deadline"]
      /\ UNCHANGED client \/ \E c \in {"gone", "stalled", "reading"} : client' = [client EXCEPT ![r] = c]
  <2>1. CASE WriteDone(r)
    BY <2>1, Zenon DEF WriteDone
  <2>2. CASE FlushHeaders(r) \/ FinishResponse(r)
    BY <2>2 DEF FlushHeaders, FinishResponse, clientVars
  <2>3. CASE HandlerStep(r) /\ ~Unbounded(r)
    BY <2>3 DEF HandlerStep, Enter, BodyLost, BadRequest, Dropped, NoHealthyWorkers, HealthyWorkers, AdmissionRejected, Admitted,
       SelectWorker, NoEligibleWorker, PoolClient, DialFailed, GenerateOpened, GenerateFailed,
       FirstFailed, FirstClosed, AttemptFailed, Commit, ForwardEvent, ForwardClosed,
       ForwardAborted, WriteAccepted, WriteLost, Release, Return, clientVars
  <2>4. CASE EnvironmentStep(r) /\ ~Unbounded(r)
    BY <2>4 DEF EnvironmentStep, Arrive, BodyRead, BadRequest, Dialed, DeadlineExpires,
       Disconnect, DisconnectNoticed, Stall, Resume, clientVars
  <2> QED
    BY <2>1, <2>2, <2>3, <2>4 DEF Unbounded
<1>5. sse'[q] = sse[q] /\ ctx'[q] = ctx[q] /\ client'[q] = client[q]
  <2>0. TypeOK
    BY DEF GatewayInv
  <2>1. sse'[q] = sse[q]
    BY <1>4, <2>0 DEF TypeOK
  <2>2. ctx'[q] = ctx[q]
    BY <1>4, <2>0 DEF TypeOK, CancelContext
  <2>3. client'[q] = client[q]
    BY <1>4, <2>0 DEF TypeOK
  <2> QED
    BY <2>1, <2>2, <2>3
<1> QED
  BY <1>1, <1>3, <1>5 DEF OthersKept, SameStream

-----------------------------------------------------------------------------
(* The handler's own steps.  First the ones that end before the commit: the  *)
(* client has seen nothing.                                                  *)
LEMMA NothingSent ==
    ASSUME GatewayInv, NEW r \in Requests, SentInv(r), pc[r] \in UncommittedPCs, UNCHANGED sse,
           status'[r] # 200, pc'[r] \notin CommittedPCs,
           pc'[r] = "first" => Numbered(att'[Current(r)'], 0)
    PROVE  SentInv(r)' /\ SourceInv(r)'
<1>1. sse'[r] = << >>
  BY DEF SentInv
<1>2. Shaped(sse'[r], attempt'[r], 0) /\ Len(sse'[r]) = 0 /\ DOMAIN sse'[r] = {}
  BY <1>1, ShapedEmpty
<1>3. 0 \in 0 .. Len(sse'[r])
  BY <1>2
<1>4. SentInv(r)'
  BY <1>1, <1>2, <1>3 DEF SentInv, CommittedPCs
<1>5. SourceInv(r)'
  BY <1>2 DEF SourceInv, CommittedPCs
<1> QED
  BY <1>4, <1>5

(* Requests that are rejected, choose and connect workers, or fail to. *)
LEMMA UncommittedStream ==
    ASSUME GatewayInv, NEW r \in Requests, SentInv(r),
           \/ Arrive(r) \/ Enter(r) \/ BodyRead(r) \/ BadRequest(r) \/ BodyLost(r)
           \/ Dropped(r) \/ NoHealthyWorkers(r) \/ HealthyWorkers(r)
           \/ AdmissionRejected(r) \/ (\E cost \in Costs : Admitted(r, cost))
           \/ (\E w \in Workers : SelectWorker(r, w)) \/ NoEligibleWorker(r)
           \/ PoolClient(r) \/ Dialed(r)
           \/ DialFailed(r) \/ GenerateFailed(r) \/ FirstFailed(r) \/ FirstClosed(r)
    PROVE  SentInv(r)' /\ SourceInv(r)'
<1>0. TypeOK /\ Before(r)
  BY BeforeStep DEF GatewayInv
<1>1. PrecommitStatus(r) \in {502, 504}
  BY DEF PrecommitStatus
<1>2. pc[r] \in UncommittedPCs => status[r] = 0
  BY <1>0 DEF Before, ReplyInv
<1>3. ASSUME pc[r] \in UncommittedPCs, UNCHANGED sse,
             \E label \in PCs \ (CommittedPCs \union {"first"}) : pc' = [pc EXCEPT ![r] = label],
             \/ UNCHANGED status
             \/ \E code \in {400, 429, 502, 503, 504} : status' = [status EXCEPT ![r] = code]
      PROVE  SentInv(r)' /\ SourceInv(r)'
  <2>1. pc'[r] \notin CommittedPCs \union {"first"}
    BY <1>0, <1>3 DEF TypeOK
  <2>2. status'[r] # 200
    BY <1>0, <1>2, <1>3 DEF TypeOK
  <2> QED
    BY <1>3, <2>1, <2>2, NothingSent
<1>4. CASE \/ Arrive(r) \/ Enter(r) \/ BodyRead(r) \/ BadRequest(r) \/ BodyLost(r)
           \/ NoHealthyWorkers(r) \/ HealthyWorkers(r)
           \/ AdmissionRejected(r) \/ (\E cost \in Costs : Admitted(r, cost))
           \/ (\E w \in Workers : SelectWorker(r, w)) \/ PoolClient(r) \/ Dialed(r)
  BY <1>3, <1>4 DEF Arrive, Enter, BodyRead, BadRequest, BodyLost, NoHealthyWorkers,
     HealthyWorkers, AdmissionRejected, Admitted, SelectWorker, PoolClient, Dialed, GoTo, Reply,
     UncommittedPCs, CommittedPCs, PCs, clientVars
<1>5. ASSUME pc[r] \in UncommittedPCs, UNCHANGED sse, pc' = [pc EXCEPT ![r] = "release"],
             \/ status' = [status EXCEPT ![r] = PrecommitStatus(r)]
             \/ status' = [status EXCEPT ![r] = 503]
      PROVE  SentInv(r)' /\ SourceInv(r)'
  <2>1. pc'[r] = "release" /\ status'[r] # 200
    BY <1>0, <1>1, <1>5 DEF TypeOK
  <2> QED
    BY <1>5, <2>1, NothingSent DEF CommittedPCs
<1>6. CASE NoEligibleWorker(r)
  <2>1. /\ pc[r] = "select" /\ UNCHANGED sse /\ pc' = [pc EXCEPT ![r] = "release"]
        /\ status' = [status EXCEPT ![r] = IF failure[r] # "none" THEN PrecommitStatus(r) ELSE 503]
    BY <1>6 DEF NoEligibleWorker, GoTo, Reply, clientVars
  <2>2. \/ status' = [status EXCEPT ![r] = PrecommitStatus(r)]
        \/ status' = [status EXCEPT ![r] = 503]
    BY <2>1
  <2>3. pc[r] \in UncommittedPCs
    BY <2>1 DEF UncommittedPCs
  <2> QED
    BY <1>5, <2>1, <2>2, <2>3
<1>7. ASSUME NEW class \in ErrorClasses, pc[r] \in {"dial", "generate", "first"},
             AttemptFailed(r, class)
      PROVE  SentInv(r)' /\ SourceInv(r)'
  <2>1. UNCHANGED <<sse, status>> /\ pc' = [pc EXCEPT ![r] = "drop"]
    BY <1>7 DEF AttemptFailed, GoTo, clientVars
  <2> QED
    BY <1>3, <1>7, <2>1 DEF UncommittedPCs, CommittedPCs, PCs
<1>8. CASE DialFailed(r) \/ GenerateFailed(r) \/ FirstFailed(r) \/ FirstClosed(r)
  BY <1>7, <1>8, AttemptFailures
<1>9. CASE Dropped(r)
  <2>1. pc[r] \in UncommittedPCs /\ UNCHANGED sse
    BY <1>9 DEF Dropped, UncommittedPCs, clientVars
  <2>2. \/ UNCHANGED status /\ pc' = [pc EXCEPT ![r] = "select"]
        \/ /\ status' = [status EXCEPT ![r] = PrecommitStatus(r)]
           /\ pc' = [pc EXCEPT ![r] = "release"]
    BY <1>9 DEF Dropped, GoTo, Reply
  <2>3. CASE UNCHANGED status /\ pc' = [pc EXCEPT ![r] = "select"]
    BY <1>3, <2>1, <2>3 DEF CommittedPCs, PCs
  <2> QED
    BY <1>5, <2>1, <2>2, <2>3
<1> QED
  BY <1>4, <1>6, <1>8, <1>9

(* The stream to a worker is opened: its receiver starts at token 0. *)
LEMMA OpenedStream ==
    ASSUME GatewayInv, NEW r \in Requests, SentInv(r), GenerateOpened(r)
    PROVE  SentInv(r)' /\ SourceInv(r)'
<1>0. TypeOK /\ Before(r)
  BY BeforeStep DEF GatewayInv
<1> DEFINE i == Current(r)
<1>1. /\ pc[r] = "generate" /\ pc' = [pc EXCEPT ![r] = "first"]
      /\ att' = [att EXCEPT ![i].state = "recv"] /\ UNCHANGED <<sse, status, attempt>>
  BY DEF GenerateOpened, GoTo, clientVars
<1>2. att[i].state = "none" /\ status[r] = 0 /\ i \in Attempts /\ att \in [Attempts -> AttemptType]
  BY <1>0, <1>1 DEF Before, ControlInv, ReplyInv, OpeningPCs, UncommittedPCs, AttemptsTyped
<1>3. att[i].expected = 0 /\ att[i].events = << >>
  BY <1>0, <1>2 DEF Before, AttemptInv
<1>4. AttemptBecomes(i, att[i].worker, att[i].conn, att[i].canceled, "recv", att[i].expected,
                     att[i].holding, att[i].events)
  BY <1>1, <1>2, OpenEffect
<1>5. Numbered(att'[i], 0)
  BY <1>3, <1>4, NumberedStart DEF AttemptBecomes, HasFields
<1>6. Current(r)' = i
  BY <1>1 DEF Current
<1>7. pc'[r] = "first"
  BY <1>0, <1>1 DEF TypeOK
<1> QED
  BY <1>1, <1>2, <1>5, <1>6, <1>7, NothingSent DEF UncommittedPCs, CommittedPCs

(* The handler takes an event from the channel to write it: if it is a token *)
(* it is the next one for the client.                                        *)
LEMMA TakenStream ==
    ASSUME GatewayInv, NEW r \in Requests, SentInv(r), SourceInv(r), pc[r] \in {"first", "forward"},
           HasEvent(r), TakeEvent(r), UNCHANGED <<sse, attempt, client>>,
           pc'[r] \in {"headers", "write"}, status'[r] = 200,
           event'[r].kind \in {"token", "completion"} => event'[r] = NextEvent(r)
    PROVE  SentInv(r)' /\ SourceInv(r)'
<1>0. Before(r)
  BY BeforeStep
<1> DEFINE i == Current(r)
           A == att[i]
           B == att'[i]
           k == Len(sse[r])
<1>1. sse[r] \in Seq(SentType) /\ k \in Nat
  BY <1>0 DEF Before, StateTyped
<1>2. /\ A \in AttemptType /\ A.events # << >> /\ i \in Attempts /\ NextEvent(r) = Head(A.events)
      /\ att \in [Attempts -> AttemptType] /\ att' = [att EXCEPT ![i].events = Tail(@)]
  BY <1>0 DEF Before, AttemptsTyped, HasEvent, TakeEvent, NextEvent
<1>3. /\ B.state = A.state /\ B.expected = A.expected /\ B.holding = A.holding
      /\ B.events = Tail(A.events)
  BY <1>2, TakeEffect DEF AttemptBecomes, HasFields
<1>4. Shaped(sse[r], attempt[r], k)
  <2>1. CASE pc[r] = "first"
    BY <2>1, ShapedEmpty DEF SentInv, UncommittedPCs
  <2>2. CASE pc[r] = "forward"
    BY <2>2 DEF SentInv
  <2> QED
    BY <2>1, <2>2
<1>5. client[r] # "gone" => Numbered(A, k)
  <2>1. CASE pc[r] = "first"
    <3>1. k = 0
      BY <2>1, ShapedEmpty DEF SentInv, UncommittedPCs
    <3> QED
      BY <2>1, <3>1 DEF SourceInv
  <2>2. CASE pc[r] = "forward"
    BY <2>2 DEF SourceInv
  <2> QED
    BY <2>1, <2>2
<1>6. Current(r)' = i
  BY DEF Current
<1>7. k \in 0 .. k
  BY <1>1
<1>8. SentInv(r)'
  BY <1>4, <1>7 DEF SentInv, UncommittedPCs
<1> HIDE DEF i, A, B, k
<1>9. ASSUME client[r] # "gone"
      PROVE  /\ NextEvent(r).kind = "token" => NextEvent(r).index = k /\ Numbered(B, k + 1)
             /\ NextEvent(r).kind = "completion" => B.state = "exited" /\ B.expected = k
  <2>1. A \in AttemptType /\ A.events # << >> /\ NextEvent(r) = Head(A.events)
    BY <1>2
  <2>2. k \in Nat /\ Numbered(A, k)
    BY <1>1, <1>5, <1>9
  <2>3. /\ Head(A.events).kind = "token" =>
              Head(A.events).index = k /\ Numbered(B, k + 1)
        /\ Head(A.events).kind = "completion" => A.state = "exited" /\ A.expected = k
    BY <1>3, <2>1, <2>2, NumberedTake
  <2> QED
    BY <1>3, <2>1, <2>3
<1>10. \A n \in DOMAIN sse[r] : sse[r][n].kind # "completion"
  <2>1. ASSUME NEW n \in DOMAIN sse[r] PROVE sse[r][n].kind # "completion"
    <3>1. n <= k
      BY <1>1 DEF k
    <3> QED
      BY <1>1, <1>4, <3>1, ShapedKinds DEF k
  <2> QED
    BY <2>1
<1>11. SourceInv(r)'
  <2>1. /\ pc'[r] \in {"headers", "write"} /\ client' = client /\ sse' = sse
        /\ Len(sse[r]) = k /\ att'[Current(r)'] = B
    BY <1>6 DEF k, B
  <2>2. ASSUME client[r] # "gone"
        PROVE  /\ event'[r].kind = "token" => event'[r].index = k /\ Numbered(B, k + 1)
               /\ event'[r].kind = "completion" => B.state = "exited" /\ B.expected = k
    BY <1>9, <2>2
  <2> QED
    BY <1>10, <2>1, <2>2 DEF SourceInv
<1> QED
  BY <1>8, <1>11

(* The first event commits the response, later ones follow. *)
LEMMA EventStream ==
    ASSUME GatewayInv, NEW r \in Requests, SentInv(r), SourceInv(r), Commit(r) \/ ForwardEvent(r)
    PROVE  SentInv(r)' /\ SourceInv(r)'
<1>0. TypeOK /\ Before(r)
  BY BeforeStep DEF GatewayInv
<1>1. CASE Commit(r)
  <2>1. /\ pc[r] = "first" /\ HasEvent(r) /\ TakeEvent(r) /\ UNCHANGED <<sse, attempt, client>>
        /\ pc' = [pc EXCEPT ![r] = "headers"] /\ status' = [status EXCEPT ![r] = 200]
        /\ event' = [event EXCEPT ![r] = NextEvent(r)]
    BY <1>1 DEF Commit, GoTo, Reply, clientVars
  <2>2. pc'[r] = "headers" /\ status'[r] = 200 /\ event'[r] = NextEvent(r)
    BY <1>0, <2>1 DEF TypeOK
  <2> QED
    BY <2>1, <2>2, TakenStream
<1>2. CASE ForwardEvent(r)
  <2>1. /\ pc[r] = "forward" /\ HasEvent(r) /\ TakeEvent(r) /\ UNCHANGED <<sse, attempt, client>>
        /\ pc' = [pc EXCEPT ![r] = "write"] /\ UNCHANGED status
        /\ event' = [event EXCEPT ![r] = StreamEvent(NextEvent(r))]
    BY <1>2 DEF ForwardEvent, GoTo, clientVars
  <2>2. pc'[r] = "write" /\ status'[r] = 200 /\ event'[r] = StreamEvent(NextEvent(r))
    BY <1>0, <2>1 DEF TypeOK, Before, ReplyInv, CommittedPCs
  <2>3. event'[r].kind \in {"token", "completion"} => event'[r] = NextEvent(r)
    BY <2>2 DEF StreamEvent, Failure
  <2> QED
    BY <2>1, <2>2, <2>3, TakenStream
<1> QED
  BY <1>1, <1>2

(* The current attempt after a step that at most cancels it. *)
LEMMA CanceledKept ==
    ASSUME GatewayInv, NEW r \in Requests, CancelAttempt(r) \/ UNCHANGED att
    PROVE  \A k : /\ Numbered(att[Current(r)], k) => Numbered(att'[Current(r)], k)
                  /\ att'[Current(r)].state = att[Current(r)].state
                  /\ att'[Current(r)].expected = att[Current(r)].expected
<1> DEFINE i == Current(r)
<1>1. att \in [Attempts -> AttemptType] /\ i \in Attempts
  BY BeforeStep DEF Before, AttemptsTyped
<1>2. CASE CancelAttempt(r)
  <2>1. att' = [att EXCEPT ![i].canceled = TRUE]
    BY <1>2 DEF CancelAttempt
  <2>2. /\ att'[i].state = att[i].state /\ att'[i].expected = att[i].expected
        /\ att'[i].holding = att[i].holding /\ att'[i].events = att[i].events
    BY <1>1, <2>1, CancelEffect DEF AttemptBecomes, HasFields
  <2> QED
    BY <2>2, NumberedSame
<1>3. CASE UNCHANGED att
  BY <1>3
<1> QED
  BY <1>2, <1>3

(* No event is sent: the headers were flushed, the channel was closed, the   *)
(* context is done, a write was lost, or the handler returns.                *)
LEMMA SilentStream ==
    ASSUME GatewayInv, NEW r \in Requests, SentInv(r), SourceInv(r),
           \/ FlushHeaders(r) \/ ForwardClosed(r) \/ ForwardAborted(r) \/ WriteLost(r)
           \/ (WriteDone(r) /\ client[r] = "gone") \/ Release(r) \/ Return(r)
           \/ FinishResponse(r)
    PROVE  SentInv(r)' /\ SourceInv(r)'
<1>0. TypeOK /\ Before(r)
  BY BeforeStep DEF GatewayInv
<1>1. CancelAttempt(r) \/ UNCHANGED att
  BY DEF FlushHeaders, ForwardClosed, ForwardAborted, WriteLost, WriteDone, Release, Return,
         FinishResponse
<1>2. UNCHANGED <<attempt, status>> /\ sse'[r] = sse[r]
  <2>1. CASE WriteDone(r) /\ client[r] = "gone"
    <3>1. sse' = [sse EXCEPT ![r] = sse[r]] /\ UNCHANGED <<attempt, status>>
      BY <2>1, Zenon DEF WriteDone
    <3> QED
      BY <1>0, <3>1 DEF TypeOK
  <2> QED
    BY <2>1 DEF FlushHeaders, ForwardClosed, ForwardAborted, WriteLost, Release, Return,
                FinishResponse, clientVars
<1>3. CASE ForwardClosed(r)
  <2>1. /\ pc[r] = "forward" /\ pc' = [pc EXCEPT ![r] = "write"]
        /\ event' = [event EXCEPT ![r] = Failure("retryable")] /\ UNCHANGED client
    BY <1>3 DEF ForwardClosed, GoTo, clientVars
  <2>2. pc'[r] = "write" /\ event'[r].kind = "error"
    BY <1>0, <2>1 DEF TypeOK, Failure
  <2>3. SentInv(r)'
    BY <1>2, <2>1, <2>2 DEF SentInv, UncommittedPCs
  <2>4. SourceInv(r)'
    BY <1>1, <1>2, <2>1, <2>2, CanceledKept DEF SourceInv, Current
  <2> QED
    BY <2>3, <2>4
<1>4. CASE WriteLost(r)
  <2>1. /\ pc[r] = "write" /\ client' = [client EXCEPT ![r] = "gone"]
        /\ \E label \in {"forward", "done", "release"} : pc' = [pc EXCEPT ![r] = label]
    BY <1>4 DEF WriteLost, GoTo, AfterWrite
  <2>2. pc'[r] \in {"forward", "done", "release"} /\ client'[r] = "gone"
    BY <1>0, <2>1 DEF TypeOK
  <2>3. Shaped(sse[r], attempt[r], Len(sse[r])) /\ Len(sse[r]) \in 0 .. Len(sse[r])
        /\ Len(sse[r]) <= Len(sse[r]) + 1
    BY <1>0, <2>1 DEF SentInv, TypeOK
  <2>4. SentInv(r)'
    BY <1>2, <2>1, <2>2, <2>3 DEF SentInv, UncommittedPCs
  <2>5. SourceInv(r)'
    BY <1>1, <1>2, <2>2, CanceledKept DEF SourceInv, Current
  <2> QED
    BY <2>4, <2>5
<1>5. CASE \/ ForwardAborted(r) \/ (WriteDone(r) /\ client[r] = "gone") \/ Release(r)
           \/ Return(r) \/ FinishResponse(r)
  <2>1. /\ \E label \in {"release", "return", "flush", "closed"} : pc' = [pc EXCEPT ![r] = label]
        /\ pc[r] \notin UncommittedPCs
    BY <1>5 DEF ForwardAborted, WriteDone, Release, Return, FinishResponse, GoTo, UncommittedPCs
  <2>2. pc'[r] \in {"release", "return", "flush", "closed"}
    BY <1>0, <2>1 DEF TypeOK
  <2>3. pc'[r] = "release" => ctx'[r] # "live" \/ client'[r] = "gone"
    <3>1. CASE ForwardAborted(r)
      BY <3>1 DEF ForwardAborted
    <3>2. CASE WriteDone(r) /\ client[r] = "gone"
      BY <3>2 DEF WriteDone
    <3>3. CASE Release(r) \/ Return(r) \/ FinishResponse(r)
      BY <1>0, <3>3 DEF Release, Return, FinishResponse, GoTo, TypeOK
    <3> QED
      BY <1>5, <3>1, <3>2, <3>3
  <2>4. SentInv(r)'
    BY <1>2, <2>1, <2>2, <2>3 DEF SentInv, UncommittedPCs
  <2>5. SourceInv(r)'
    BY <1>1, <1>2, <2>2, CanceledKept DEF SourceInv, Current
  <2> QED
    BY <2>4, <2>5
<1>6. CASE FlushHeaders(r)
  <2>1. /\ pc[r] = "headers" /\ pc' = [pc EXCEPT ![r] = "write"]
        /\ UNCHANGED <<event, client>>
    BY <1>6 DEF FlushHeaders, GoTo, clientVars
  <2>2. pc'[r] = "write"
    BY <1>0, <2>1 DEF TypeOK
  <2>3. SentInv(r)'
    BY <1>2, <2>1, <2>2 DEF SentInv, UncommittedPCs
  <2>4. SourceInv(r)'
    BY <1>1, <1>2, <2>1, <2>2, CanceledKept DEF SourceInv, Current
  <2> QED
    BY <2>3, <2>4
<1> QED
  BY <1>3, <1>4, <1>5, <1>6

(* An event that the connection accepts. *)
LEMMA AcceptedStream ==
    ASSUME GatewayInv, NEW r \in Requests, SentInv(r), SourceInv(r), WriteAccepted(r)
    PROVE  SentInv(r)' /\ SourceInv(r)'
<1>0. TypeOK /\ Before(r)
  BY BeforeStep DEF GatewayInv
<1> DEFINE s == sse[r]
           a == attempt[r]
           e == Sent(event[r].kind, attempt[r], event[r].index)
           t == Append(s, e)
           A == att[Current(r)]
<1>1. /\ pc[r] = "write" /\ client[r] # "gone" /\ UNCHANGED <<attempt, status, client, att>>
      /\ pc' = [pc EXCEPT ![r] = AfterWrite(r)] /\ sse' = [sse EXCEPT ![r] = t]
  BY DEF WriteAccepted, GoTo
<1>2. /\ event[r].kind \in {"token", "completion", "error"}
      /\ e.kind = event[r].kind /\ e.index = event[r].index /\ e.attempt = a
      /\ status[r] = 200
  BY <1>0, <1>1 DEF Before, ControlInv, ReplyInv, CommittedPCs, Sent
<1>3. s \in Seq(SentType) /\ Shaped(s, a, Len(s))
  BY <1>0, <1>1 DEF TypeOK, SentInv
<1>4. /\ sse'[r] = t /\ attempt'[r] = a /\ status'[r] = 200 /\ client'[r] = client[r]
      /\ pc'[r] = AfterWrite(r) /\ att'[Current(r)'] = A
  BY <1>0, <1>1, <1>2 DEF TypeOK, Current
<1>5. /\ event[r].kind = "token" => event[r].index = Len(s) /\ Numbered(A, Len(s) + 1)
      /\ event[r].kind = "completion" => A.state = "exited" /\ A.expected = Len(s)
  BY <1>1 DEF SourceInv
<1>6. AfterWrite(r) = IF event[r].kind = "token" THEN "forward" ELSE "done"
  BY DEF AfterWrite
<1> HIDE DEF s, e, a, t, A
<1>7. /\ Len(s) \in Nat /\ DOMAIN s = 1 .. Len(s) /\ Len(t) = Len(s) + 1
      /\ DOMAIN t = 1 .. Len(s) + 1
      /\ \A n \in 1 .. Len(s) : t[n] = s[n]
      /\ t[Len(s) + 1] = e
  BY <1>3, Appended DEF t
<1>8. \A n \in 1 .. Len(s) : s[n].kind = "token"
  BY <1>3 DEF Shaped
<1>9. CASE event[r].kind = "token"
  <2>1. Shaped(t, a, Len(t))
    BY <1>2, <1>3, <1>5, <1>7, <1>9, ShapedToken DEF t
  <2>2. Len(t) \in 0 .. Len(t)
    BY <1>7
  <2>3. SentInv(r)'
    BY <1>4, <1>6, <1>9, <2>1, <2>2 DEF SentInv, UncommittedPCs
  <2>4. \A n \in DOMAIN t : t[n].kind = "token"
    BY <1>2, <1>7, <1>8, <1>9
  <2>5. SourceInv(r)'
    BY <1>4, <1>5, <1>6, <1>7, <1>9, <2>4 DEF SourceInv
  <2> QED
    BY <2>3, <2>5
<1>10. CASE event[r].kind \in {"completion", "error"}
  <2>1. Shaped(t, a, Len(s)) /\ Len(t) = Len(s) + 1 /\ Len(s) \in 0 .. Len(t)
    BY <1>2, <1>3, <1>7, <1>10, ShapedFinal DEF t
  <2>2. pc'[r] = "done"
    BY <1>4, <1>6, <1>10
  <2>3. \E m \in 0 .. Len(t) : Shaped(t, a, m) /\ Len(t) <= m + 1 /\ Len(t) = m + 1
    BY <1>7, <2>1
  <2>4. SentInv(r)'
    BY <1>4, <2>2, <2>3 DEF SentInv, UncommittedPCs
  <2>5. ASSUME NEW n \in DOMAIN t, t[n].kind = "completion"
        PROVE  A.state = "exited" /\ A.expected = n - 1
    <3>1. n = Len(s) + 1
      BY <1>7, <1>8, <2>5
    <3>2. event[r].kind = "completion" /\ n - 1 = Len(s)
      BY <1>2, <1>7, <2>5, <3>1
    <3> QED
      BY <1>5, <3>2
  <2>6. SourceInv(r)'
    BY <1>4, <2>2, <2>5 DEF SourceInv
  <2> QED
    BY <2>4, <2>6
<1> QED
  BY <1>2, <1>9, <1>10

(* [DONE] after the terminal event. *)
LEMMA DoneStream ==
    ASSUME GatewayInv, NEW r \in Requests, SentInv(r), SourceInv(r),
           WriteDone(r), client[r] # "gone"
    PROVE  SentInv(r)' /\ SourceInv(r)'
<1>0. TypeOK /\ Before(r)
  BY BeforeStep DEF GatewayInv
<1> DEFINE s == sse[r]
           a == attempt[r]
           e == Sent("done", 0, 0)
           t == Append(s, e)
           A == att[Current(r)]
<1>1. /\ pc[r] = "done" /\ client[r] # "gone" /\ UNCHANGED <<attempt, status, client>>
      /\ pc' = [pc EXCEPT ![r] = "release"] /\ sse' = [sse EXCEPT ![r] = t]
      /\ CancelAttempt(r)
  BY Zenon DEF WriteDone, GoTo
<1>2. s \in Seq(SentType) /\ status[r] = 200 /\ e.kind = "done"
  BY <1>0, <1>1 DEF TypeOK, Before, ReplyInv, CommittedPCs, Sent
<1>3. PICK m \in 0 .. Len(s) : Shaped(s, a, m) /\ Len(s) = m + 1
  BY <1>1 DEF SentInv
<1>4. /\ sse'[r] = t /\ attempt'[r] = a /\ status'[r] = 200 /\ pc'[r] = "release"
      /\ Current(r)' = Current(r)
  BY <1>0, <1>1, <1>2 DEF TypeOK, Current
<1>5. att'[Current(r)].state = A.state /\ att'[Current(r)].expected = A.expected
  BY <1>1, CanceledKept
<1>6. \A n \in DOMAIN s : s[n].kind = "completion" => A.state = "exited" /\ A.expected = n - 1
  BY DEF SourceInv
<1> HIDE DEF s, e, a, t, A
<1>7. /\ Len(s) \in Nat /\ DOMAIN s = 1 .. Len(s) /\ Len(t) = Len(s) + 1
      /\ DOMAIN t = 1 .. Len(s) + 1
      /\ \A n \in 1 .. Len(s) : t[n] = s[n]
      /\ t[Len(s) + 1] = e
      /\ "done" \in Kinds(t)
  BY <1>2, Appended DEF t
<1>8. Shaped(t, a, m) /\ m \in 0 .. Len(t)
  <2>1. Shaped(t, a, m)
    BY <1>2, <1>3, ShapedDone DEF t
  <2> QED
    BY <2>1, <1>7
<1>9. SentInv(r)'
  BY <1>4, <1>7, <1>8 DEF SentInv, UncommittedPCs
<1>10. \A n \in DOMAIN t : t[n].kind = "completion" => A.state = "exited" /\ A.expected = n - 1
  BY <1>2, <1>6, <1>7
<1>11. SourceInv(r)'
  BY <1>4, <1>5, <1>10 DEF SourceInv, A
<1> QED
  BY <1>9, <1>11

(* The client and the clock change nothing that was sent. *)
LEMMA ClientStream ==
    ASSUME GatewayInv, NEW r \in Requests, SentInv(r), SourceInv(r),
           DeadlineExpires(r) \/ Disconnect(r) \/ DisconnectNoticed(r) \/ Stall(r) \/ Resume(r)
    PROVE  SentInv(r)' /\ SourceInv(r)'
<1>0. TypeOK
  BY DEF GatewayInv
<1>1. UNCHANGED <<pc, attempt, status, event, sse, att>>
  BY DEF DeadlineExpires, Disconnect, DisconnectNoticed, Stall, Resume, handlerVars, clientVars
<1>2. ctx[r] # "live" => ctx'[r] # "live"
  <2>1. ctx[r] # "live" => UNCHANGED ctx
    BY DEF DeadlineExpires, Disconnect, DisconnectNoticed, Stall, Resume
  <2> QED
    BY <2>1
<1>3. client[r] = "gone" => client'[r] = "gone"
  <2>1. client[r] = "gone" => UNCHANGED client
    BY DEF DeadlineExpires, Disconnect, DisconnectNoticed, Stall, Resume, clientVars
  <2> QED
    BY <2>1
<1>4. SameStream(r) /\ Kept(Current(r))
  BY <1>1, <1>2, <1>3 DEF SameStream, Kept
<1> QED
  BY <1>4, SentFrame, SourceFrame

(* Every step of a request keeps the stream invariant of all of them. *)
LEMMA RequestStream ==
    ASSUME GatewayInv, StreamInv, NEW r \in Requests, HandlerStep(r) \/ EnvironmentStep(r)
    PROVE  StreamInv'
<1>1. SentInv(r) /\ SourceInv(r)
  BY DEF StreamInv
<1>2. ASSUME HandlerStep(r) PROVE SentInv(r)' /\ SourceInv(r)'
  BY <1>1, <1>2, UncommittedStream, OpenedStream, EventStream, SilentStream, AcceptedStream,
     DoneStream DEF HandlerStep, Unbounded
<1>3. ASSUME EnvironmentStep(r) PROVE SentInv(r)' /\ SourceInv(r)'
  BY <1>1, <1>3, UncommittedStream, SilentStream, DoneStream, ClientStream
     DEF EnvironmentStep, Unbounded
<1>4. ASSUME NEW q \in Requests, q # r PROVE SentInv(q)' /\ SourceInv(q)'
  BY <1>4, OtherStreams, SentFrame, SourceFrame DEF StreamInv
<1> QED
  BY <1>2, <1>3, <1>4 DEF StreamInv

(* Nothing was sent at first. *)
LEMMA StreamInit == Init => StreamInv
<1> SUFFICES ASSUME Init, NEW r \in Requests PROVE SentInv(r) /\ SourceInv(r)
  BY DEF StreamInv
<1>1. pc[r] = "idle" /\ status[r] = 0 /\ sse[r] = << >>
  BY DEF Init
<1>2. Shaped(sse[r], attempt[r], 0) /\ Len(sse[r]) = 0 /\ DOMAIN sse[r] = {}
  BY <1>1, ShapedEmpty
<1>3. 0 \in 0 .. Len(sse[r])
  BY <1>2
<1> QED
  BY <1>1, <1>2, <1>3 DEF SentInv, SourceInv, UncommittedPCs

(* The stream invariant is inductive, given the one of the router. *)
LEMMA StreamNext == GatewayInv /\ StreamInv /\ [Next]_vars => StreamInv'
<1> SUFFICES ASSUME GatewayInv, StreamInv, [Next]_vars PROVE StreamInv'
  OBVIOUS
<1>1. CASE UNCHANGED vars
  <2>1. ASSUME NEW q \in Requests PROVE SentInv(q)' /\ SourceInv(q)'
    <3>1. SameStream(q) /\ Kept(Current(q))
      BY <1>1 DEF vars, SameStream, Kept
    <3> QED
      BY <3>1, SentFrame, SourceFrame DEF StreamInv
  <2> QED
    BY <2>1 DEF StreamInv
<1> QED
  BY <1>1, RequestStream, ReceiverStream DEF Next, Served, ReceiverStep

(* Hence it holds in every reachable state. *)
LEMMA StreamInvariant == Spec => [](GatewayInv /\ StreamInv)
BY GatewayInvariant, StreamInit, StreamNext, PTL DEF Spec

(* Every stream a client receives is one generation: tokens of one attempt,  *)
(* in order and without a gap, at most one terminal event, [DONE] last.      *)
(* Retries, malformed chunks, dropped events, lost writes and connections    *)
(* closed by other requests never mix, reorder or repeat what                *)
(* forwardCommitted writes.                                                  *)
THEOREM StreamsAreWellFormed == Spec => []StreamWellFormed
<1>1. GatewayInv /\ StreamInv => StreamWellFormed
  <2> SUFFICES ASSUME GatewayInv, StreamInv, NEW r \in Requests
               PROVE  LET s == sse[r] IN
                      /\ \A n \in DOMAIN s : s[n].kind = "token" =>
                             s[n].index = n - 1 /\ s[n].attempt = attempt[r]
                      /\ \A n \in DOMAIN s : s[n].kind # "token" =>
                             \A m \in DOMAIN s : m > n => s[m].kind = "done"
                      /\ \A n \in DOMAIN s : s[n].kind = "done" =>
                             n = Len(s) /\ n > 1 /\ s[n - 1].kind \in {"completion", "error"}
    BY DEF StreamWellFormed
  <2> DEFINE s == sse[r]
  <2>1. s \in Seq(SentType)
    BY DEF GatewayInv, TypeOK
  <2>2. PICK m \in 0 .. Len(s) : Shaped(s, attempt[r], m)
    BY DEF StreamInv, SentInv
  <2> HIDE DEF s
  <2>3. \A n \in DOMAIN s : /\ n \in Nat /\ m \in Nat /\ n >= 1 /\ n <= Len(s)
                            /\ s[n].kind = "token" <=> n <= m
                            /\ s[n].kind = "done" <=> n = m + 2
    BY <2>1, <2>2, ShapedKinds
  <2>4. ASSUME NEW n \in DOMAIN s, s[n].kind = "token"
        PROVE  s[n].index = n - 1 /\ s[n].attempt = attempt[r]
    <3>1. n \in 1 .. m
      BY <2>3, <2>4
    <3> QED
      BY <2>2, <3>1 DEF Shaped
  <2>5. ASSUME NEW n \in DOMAIN s, s[n].kind # "token", NEW l \in DOMAIN s, l > n
        PROVE  s[l].kind = "done"
    <3>1. Len(s) \in Nat /\ Len(s) <= m + 2
      BY <2>1, <2>2 DEF Shaped
    <3>2. n > m /\ l = m + 2
      BY <2>3, <2>5, <3>1
    <3> QED
      BY <2>3, <3>2
  <2>6. ASSUME NEW n \in DOMAIN s, s[n].kind = "done"
        PROVE  n = Len(s) /\ n > 1 /\ s[n - 1].kind \in {"completion", "error"}
    <3>1. n = m + 2 /\ n <= Len(s) /\ m \in Nat
      BY <2>3, <2>6
    <3>2. Len(s) \in Nat /\ Len(s) <= m + 2
      BY <2>1, <2>2 DEF Shaped
    <3>3. s[m + 1].kind \in {"completion", "error"}
      BY <2>2, <3>1, <3>2 DEF Shaped
    <3>4. n - 1 = m + 1
      BY <3>1
    <3> QED
      BY <3>1, <3>2, <3>3, <3>4
  <2> QED
    BY <2>4, <2>5, <2>6 DEF s
<1> QED
  BY <1>1, StreamInvariant, PTL

(* A completion is honest: it is written only after every token that the     *)
(* worker produced in that attempt, so that an event dropped in              *)
(* deliverAttempt, for a slow client or a cancelled context, always costs    *)
(* the completion too.                                                       *)
THEOREM CompletionsAreComplete == Spec => []CompletionIsComplete
<1>1. GatewayInv /\ StreamInv => CompletionIsComplete
  <2> SUFFICES ASSUME GatewayInv, StreamInv, NEW r \in Requests, NEW n \in DOMAIN sse[r],
                      sse[r][n].kind = "completion"
               PROVE  /\ sse[r][n].attempt = attempt[r]
                      /\ n - 1 = att[Current(r)].expected
    BY DEF CompletionIsComplete
  <2> DEFINE s == sse[r]
  <2>1. s \in Seq(SentType)
    BY DEF GatewayInv, TypeOK
  <2>2. PICK m \in 0 .. Len(s) : Shaped(s, attempt[r], m)
    BY DEF StreamInv, SentInv
  <2>3. n - 1 = att[Current(r)].expected
    BY DEF StreamInv, SourceInv
  <2> HIDE DEF s
  <2>4. n = m + 1 /\ n \in Nat /\ m \in Nat /\ n <= Len(s) /\ Len(s) \in Nat
    BY <2>1, <2>2, ShapedKinds DEF s
  <2>5. s[n].attempt = attempt[r]
    BY <2>2, <2>4 DEF Shaped
  <2> QED
    BY <2>3, <2>5 DEF s
<1> QED
  BY <1>1, StreamInvariant, PTL

(* A committed stream is closed with [DONE] before the handler releases its  *)
(* lease, unless its context ended or its client left: forwardCommitted has  *)
(* no silent way out.                                                        *)
THEOREM StreamsEnd == Spec => []CommittedStreamsEnd
<1>1. StreamInv => CommittedStreamsEnd
  BY DEF StreamInv, SentInv, CommittedStreamsEnd
<1> QED
  BY <1>1, StreamInvariant, PTL

-----------------------------------------------------------------------------
(* The contract.  Its variables, under the mapping of Gateway.tla. *)
Count(q) == Cardinality(Tokens(sse[q]))
IsDone(q) == "done" \in Kinds(sse[q])
FinalPCs == {"release", "return", "flush", "closed"}
Silent(q) == "completion" \notin Kinds(sse[q]) /\ "error" \notin Kinds(sse[q])

(* A committed stream that was not told its end, and will not be, has a done *)
(* context: its handler saw that, or a lost write ended the context.         *)
SilenceInv ==
    \A r \in Requests :
        (pc[r] \in FinalPCs \union {"done"} /\ status[r] = 200 /\ Silent(r)) => ctx[r] # "live"

(* What a step of request r does to its context: nothing, or it ends it. *)
ContextStep(r, causes) ==
    \/ UNCHANGED ctx
    \/ \E why \in causes : ctx[r] = "live" /\ ctx' = [ctx EXCEPT ![r] = why]

(* A step that sends the client of r no event.  It may end the context, and  *)
(* it leads the handler to the end of the stream only when the context is    *)
(* done.                                                                     *)
SilentStep(r) ==
    /\ status'[r] = status[r] /\ sse'[r] = sse[r]
    /\ \/ pc'[r] = pc[r] /\ ContextStep(r, {"deadline", "canceled"})
       \/ /\ ContextStep(r, {"canceled"})
          /\ pc[r] \in FinalPCs => pc'[r] \in FinalPCs
          /\ pc'[r] \in FinalPCs => pc[r] \in FinalPCs \union {"done"} \/ ctx'[r] # "live"
          /\ pc'[r] = "done" => ctx'[r] # "live"

(* A context that is cancelled ends if it had not ended before. *)
LEMMA CancelEnds ==
    ASSUME GatewayInv, NEW r \in Requests, CancelContext(r)
    PROVE  /\ ctx'[r] # "live"
           /\ ContextStep(r, {"canceled"})
<1>1. ctx \in [Requests -> {"live", "deadline", "canceled"}]
  BY DEF GatewayInv, TypeOK
<1>2. ctx' = [ctx EXCEPT ![r] = IF ctx[r] = "live" THEN "canceled" ELSE ctx[r]]
  BY Zenon DEF CancelContext
<1>3. CASE ctx[r] = "live"
  BY <1>1, <1>2, <1>3 DEF ContextStep
<1>4. CASE ctx[r] # "live"
  BY <1>1, <1>2, <1>4 DEF ContextStep
<1> QED
  BY <1>3, <1>4

(* The contract sees no change of request q. *)
Unseen(q) == Outcome(q)' = Outcome(q) /\ Count(q)' = Count(q) /\ IsDone(q)' = IsDone(q)

(* A request whose handler stays on the same side of the lease's release,    *)
(* with the same status, stream and context, is seen unchanged; so is one    *)
(* whose outcome is already known.                                           *)
LEMMA UnseenStep ==
    ASSUME NEW q \in Requests, status'[q] = status[q], sse'[q] = sse[q],
           \/ pc'[q] \notin FinalPCs /\ pc[q] \notin FinalPCs
           \/ pc'[q] \in FinalPCs /\ pc[q] \in FinalPCs /\ ctx'[q] = ctx[q]
           \/ status[q] # 200
           \/ ~Silent(q)
    PROVE  Unseen(q)
<1>1. Count(q)' = Count(q) /\ IsDone(q)' = IsDone(q)
  BY DEF Count, IsDone
<1>2. Outcome(q)' = Outcome(q)
  BY DEF Outcome, FinalPCs, Silent
<1> QED
  BY <1>1, <1>2 DEF Unseen

(* If no request is seen to change, neither is the contract's state. *)
LEMMA MapsStutter ==
    ASSUME \A q \in Requests : Unseen(q), UNCHANGED ctx
    PROVE  UNCHANGED Contract!contractVars
<1>1. [q \in Requests |-> Outcome(q)]' = [q \in Requests |-> Outcome(q)]
  BY DEF Unseen
<1>2. [q \in Requests |-> Count(q)]' = [q \in Requests |-> Count(q)]
  BY DEF Unseen
<1>3. [q \in Requests |-> IsDone(q)]' = [q \in Requests |-> IsDone(q)]
  BY DEF Unseen
<1> QED
  BY <1>1, <1>2, <1>3 DEF Contract!contractVars, Count, IsDone

(* A context that ends unseen. *)
LEMMA MapsLapse ==
    ASSUME NEW r \in Requests, \A q \in Requests : Unseen(q), NEW why \in {"deadline", "canceled"},
           ctx[r] = "live", ctx' = [ctx EXCEPT ![r] = why]
    PROVE  Contract!ContractNext
<1>1. [q \in Requests |-> Outcome(q)]' = [q \in Requests |-> Outcome(q)]
  BY DEF Unseen
<1>2. [q \in Requests |-> Count(q)]' = [q \in Requests |-> Count(q)]
  BY DEF Unseen
<1>3. [q \in Requests |-> IsDone(q)]' = [q \in Requests |-> IsDone(q)]
  BY DEF Unseen
<1>4. Contract!Lapse(r, why)
  BY <1>1, <1>2, <1>3, Zenon DEF Contract!Lapse, Contract!ContextEnds, Count, IsDone
<1> QED
  BY <1>4 DEF Contract!ContractNext

(* A stream that is cut off while its context is done, or ends now. *)
LEMMA MapsCutOff ==
    ASSUME NEW r \in Requests, \A q \in Requests : q # r => Unseen(q),
           Count(r)' = Count(r), IsDone(r)' = IsDone(r), Outcome(r) = "streaming",
           Outcome(r)' = IF ctx'[r] = "deadline" THEN "expired" ELSE "aborted",
           \/ ctx[r] # "live" /\ UNCHANGED ctx
           \/ ctx[r] = "live" /\ ctx' = [ctx EXCEPT ![r] = "canceled"]
    PROVE  Contract!ContractNext
<1> DEFINE after == IF ctx'[r] = "deadline" THEN "expired" ELSE "aborted"
<1> HIDE DEF after
<1>0. Outcome(r)' = after
  BY DEF after
<1>1. [q \in Requests |-> Outcome(q)]' = [[q \in Requests |-> Outcome(q)] EXCEPT ![r] = after]
  BY <1>0 DEF Unseen
<1>2. [q \in Requests |-> Count(q)]' = [q \in Requests |-> Count(q)]
  BY DEF Unseen
<1>3. [q \in Requests |-> IsDone(q)]' = [q \in Requests |-> IsDone(q)]
  BY DEF Unseen
<1>4. [q \in Requests |-> Outcome(q)][r] = "streaming"
  OBVIOUS
<1>5. Contract!CutOff(r)
  BY <1>1, <1>2, <1>3, <1>4, Zenon DEF Contract!CutOff, Contract!ContextEnds, Count, IsDone, after
<1> QED
  BY <1>5 DEF Contract!ContractNext

(* A request whose outcome alone changes takes the contract's step. *)
LEMMA MapsOutcome ==
    ASSUME NEW r \in Requests, \A q \in Requests : q # r => Unseen(q), UNCHANGED ctx,
           Count(r)' = Count(r), IsDone(r)' = IsDone(r), NEW before, NEW after,
           Outcome(r) = before, Outcome(r)' = after,
           \/ before = "pending" /\ after \in {"refused", "streaming"}
           \/ before = "streaming" /\ after \in {"completed", "failed"}
    PROVE  Contract!ContractNext
<1>1. [q \in Requests |-> Outcome(q)]' = [[q \in Requests |-> Outcome(q)] EXCEPT ![r] = after]
  BY DEF Unseen
<1>2. [q \in Requests |-> Count(q)]' = [q \in Requests |-> Count(q)]
  BY DEF Unseen
<1>3. [q \in Requests |-> IsDone(q)]' = [q \in Requests |-> IsDone(q)]
  BY DEF Unseen
<1>4. [q \in Requests |-> Outcome(q)][r] = before
  OBVIOUS
<1>5. CASE before = "pending" /\ after = "refused"
  BY <1>1, <1>2, <1>3, <1>4, <1>5 DEF Contract!ContractNext, Contract!Refuse, Count, IsDone
<1>6. CASE before = "pending" /\ after = "streaming"
  BY <1>1, <1>2, <1>3, <1>4, <1>6 DEF Contract!ContractNext, Contract!Start, Count, IsDone
<1>7. CASE before = "streaming" /\ after \in {"completed", "failed"}
  BY <1>1, <1>2, <1>3, <1>4, <1>7 DEF Contract!ContractNext, Contract!End, Count, IsDone
<1> QED
  BY <1>5, <1>6, <1>7

(* A request that is sent a token. *)
LEMMA MapsToken ==
    ASSUME NEW r \in Requests, \A q \in Requests : q # r => Unseen(q), UNCHANGED ctx,
           Count(r)' = Count(r) + 1, IsDone(r)' = IsDone(r),
           Outcome(r) = "streaming", Outcome(r)' = "streaming"
    PROVE  Contract!ContractNext
<1>1. [q \in Requests |-> Outcome(q)]' = [q \in Requests |-> Outcome(q)]
  BY DEF Unseen
<1>2. [q \in Requests |-> Count(q)]' = [[q \in Requests |-> Count(q)] EXCEPT ![r] = Count(r) + 1]
  BY DEF Unseen
<1>3. [q \in Requests |-> IsDone(q)]' = [q \in Requests |-> IsDone(q)]
  BY DEF Unseen
<1>4. [q \in Requests |-> Outcome(q)][r] = "streaming" /\ [q \in Requests |-> Count(q)][r] = Count(r)
  OBVIOUS
<1>5. [q \in Requests |-> Count(q)]' =
          [[q \in Requests |-> Count(q)] EXCEPT ![r] = [q \in Requests |-> Count(q)][r] + 1]
  BY <1>2, <1>4
<1>6. Contract!DeliverToken(r)
  BY <1>1, <1>3, <1>4, <1>5, Zenon DEF Contract!DeliverToken, Count, IsDone
<1> QED
  BY <1>6 DEF Contract!ContractNext

(* A request that is sent [DONE]. *)
LEMMA MapsClose ==
    ASSUME NEW r \in Requests, \A q \in Requests : q # r => Unseen(q), UNCHANGED ctx,
           Count(r)' = Count(r), ~IsDone(r), IsDone(r)',
           Outcome(r) \in {"completed", "failed"}, Outcome(r)' = Outcome(r)
    PROVE  Contract!ContractNext
<1>1. [q \in Requests |-> Outcome(q)]' = [q \in Requests |-> Outcome(q)]
  BY DEF Unseen
<1>2. [q \in Requests |-> Count(q)]' = [q \in Requests |-> Count(q)]
  BY DEF Unseen
<1>3. [q \in Requests |-> IsDone(q)]' = [[q \in Requests |-> IsDone(q)] EXCEPT ![r] = TRUE]
  BY DEF Unseen, IsDone
<1>4. /\ [q \in Requests |-> Outcome(q)][r] \in {"completed", "failed"}
      /\ ~[q \in Requests |-> IsDone(q)][r]
  OBVIOUS
<1>5. Contract!Close(r)
  BY <1>1, <1>2, <1>3, <1>4, Zenon DEF Contract!Close, Count, IsDone
<1> QED
  BY <1>5 DEF Contract!ContractNext

(* The tokens in a stream after one more event. *)
LEMMA TokensAppended ==
    ASSUME NEW s \in Seq(SentType), NEW e
    PROVE  /\ e.kind = "token" => Cardinality(Tokens(Append(s, e))) = Cardinality(Tokens(s)) + 1
           /\ e.kind # "token" => Tokens(Append(s, e)) = Tokens(s)
<1> DEFINE t == Append(s, e)
<1>1. /\ Len(s) \in Nat /\ DOMAIN s = 1 .. Len(s)
      /\ DOMAIN t = 1 .. Len(s) + 1
      /\ \A n \in 1 .. Len(s) : t[n] = s[n]
      /\ t[Len(s) + 1] = e
  BY Appended
<1> HIDE DEF t
<1>2. e.kind # "token" => Tokens(t) = Tokens(s)
  BY <1>1 DEF Tokens
<1>3. ASSUME e.kind = "token" PROVE Cardinality(Tokens(t)) = Cardinality(Tokens(s)) + 1
  <2>1. Tokens(t) = Tokens(s) \union {Len(s) + 1}
    BY <1>1, <1>3 DEF Tokens
  <2>2. Len(s) + 1 \notin Tokens(s)
    BY <1>1 DEF Tokens
  <2>3. IsFiniteSet(Tokens(s))
    <3>1. IsFiniteSet(1 .. Len(s))
      BY <1>1, FS_Interval
    <3>2. Tokens(s) \subseteq 1 .. Len(s)
      BY <1>1 DEF Tokens
    <3> QED
      BY <3>1, <3>2, FS_Subset
  <2> QED
    BY <2>1, <2>2, <2>3, FS_AddElement
<1> QED
  BY <1>2, <1>3 DEF t

(* The step is one of the contract's or leaves it alone. *)
ContractKept == Contract!ContractNext \/ UNCHANGED Contract!contractVars

(* Steps before the commit refuse the request or are not seen. *)
LEMMA UncommittedContract ==
    ASSUME GatewayInv, StreamInv, NEW r \in Requests, \A q \in Requests : q # r => Unseen(q),
           UNCHANGED ctx, pc[r] \in UncommittedPCs, sse'[r] = sse[r], status'[r] # 200
    PROVE  ContractKept
<1>1. status[r] = 0 /\ sse[r] = << >>
  BY BeforeStep DEF Before, ReplyInv, StreamInv, SentInv
<1>2. CASE status'[r] = 0
  <2>1. Unseen(r)
    BY <1>1, <1>2, UnseenStep
  <2> QED
    BY <2>1, MapsStutter DEF ContractKept
<1>3. CASE status'[r] # 0
  <2>1. Outcome(r) = "pending" /\ Outcome(r)' = "refused"
    BY <1>1, <1>3 DEF Outcome
  <2>2. Count(r)' = Count(r) /\ IsDone(r)' = IsDone(r)
    BY DEF Count, IsDone
  <2> QED
    BY <2>1, <2>2, MapsOutcome DEF ContractKept
<1> QED
  BY <1>2, <1>3

(* The commit starts the stream. *)
LEMMA CommitContract ==
    ASSUME GatewayInv, StreamInv, NEW r \in Requests, \A q \in Requests : q # r => Unseen(q),
           Commit(r)
    PROVE  ContractKept
<1>0. TypeOK
  BY DEF GatewayInv
<1>1. /\ pc[r] = "first" /\ UNCHANGED <<sse, ctx>> /\ pc' = [pc EXCEPT ![r] = "headers"]
      /\ status' = [status EXCEPT ![r] = 200]
  BY DEF Commit, GoTo, Reply, clientVars
<1>2. status[r] = 0 /\ sse[r] = << >>
  BY <1>1, BeforeStep DEF Before, ReplyInv, StreamInv, SentInv, UncommittedPCs
<1>3. status'[r] = 200 /\ pc'[r] = "headers" /\ Kinds(sse'[r]) = {}
  <2>1. status'[r] = 200 /\ pc'[r] = "headers" /\ sse'[r] = << >>
    BY <1>0, <1>1, <1>2 DEF TypeOK
  <2>2. Kinds(<< >>) = {}
    BY ShapedEmpty
  <2> QED
    BY <2>1, <2>2
<1>4. Outcome(r) = "pending" /\ Outcome(r)' = "streaming"
  BY <1>2, <1>3 DEF Outcome
<1>5. Count(r)' = Count(r) /\ IsDone(r)' = IsDone(r)
  BY <1>1 DEF Count, IsDone
<1> QED
  BY <1>1, <1>4, <1>5, MapsOutcome DEF ContractKept

(* A stream that is being forwarded has no terminal event yet. *)
LEMMA StreamingOutcome ==
    ASSUME GatewayInv, StreamInv, NEW r \in Requests, pc[r] \in {"forward", "write"}
    PROVE  /\ Outcome(r) = "streaming" /\ status[r] = 200
           /\ Kinds(sse[r]) \subseteq {"token"} /\ sse[r] \in Seq(SentType)
<1>1. status[r] = 200 /\ sse[r] \in Seq(SentType)
  <2>1. StateTyped /\ ReplyInv(r)
    BY BeforeStep, Zenon DEF Before
  <2>2. sse[r] \in Seq(SentType)
    BY <2>1, Zenon DEF StateTyped
  <2>3. pc[r] \in CommittedPCs
    BY DEF CommittedPCs
  <2> QED
    BY <2>1, <2>2, <2>3, Zenon DEF ReplyInv
<1>2. Shaped(sse[r], attempt[r], Len(sse[r]))
  BY DEF StreamInv, SentInv
<1>3. Kinds(sse[r]) \subseteq {"token"}
  BY <1>1, <1>2, ShapedOutcome
<1>4. "completion" \notin Kinds(sse[r]) /\ "error" \notin Kinds(sse[r])
  BY <1>3
<1>5. pc[r] \notin {"release", "return", "flush", "closed"}
  OBVIOUS
<1>6. Outcome(r) = "streaming"
  BY <1>1, <1>4, <1>5 DEF Outcome
<1> QED
  BY <1>1, <1>3, <1>6, Zenon

(* An accepted write delivers a token or ends the stream. *)
LEMMA AcceptedContract ==
    ASSUME GatewayInv, StreamInv, NEW r \in Requests, \A q \in Requests : q # r => Unseen(q),
           WriteAccepted(r)
    PROVE  ContractKept
<1>0. TypeOK
  BY DEF GatewayInv
<1> DEFINE s == sse[r]
           e == Sent(event[r].kind, attempt[r], event[r].index)
           t == Append(s, e)
<1>1. /\ pc[r] = "write" /\ UNCHANGED <<status, ctx>>
      /\ pc' = [pc EXCEPT ![r] = AfterWrite(r)] /\ sse' = [sse EXCEPT ![r] = t]
  BY DEF WriteAccepted, GoTo
<1>2. event[r].kind \in {"token", "completion", "error"} /\ e.kind = event[r].kind
  BY <1>1, BeforeStep DEF Before, ControlInv, Sent
<1>3. /\ Outcome(r) = "streaming" /\ status[r] = 200 /\ Kinds(s) \subseteq {"token"}
      /\ s \in Seq(SentType)
  BY <1>1, StreamingOutcome
<1>4. sse'[r] = t /\ status'[r] = 200 /\ pc'[r] \in {"forward", "done"}
  BY <1>0, <1>1, <1>3 DEF TypeOK, AfterWrite
<1> HIDE DEF e, t
<1>5. Kinds(t) = Kinds(s) \union {event[r].kind}
  BY <1>2, <1>3, Appended DEF t
<1>6. IsDone(r)' = IsDone(r)
  BY <1>2, <1>4, <1>5 DEF IsDone
<1>7. CASE event[r].kind = "token"
  <2>1. Outcome(r)' = "streaming"
    BY <1>3, <1>4, <1>5, <1>7 DEF Outcome
  <2>2. Cardinality(Tokens(t)) = Cardinality(Tokens(s)) + 1
    BY <1>2, <1>3, <1>7, TokensAppended DEF t
  <2>3. Count(r)' = Count(r) + 1
    BY <1>4, <2>2 DEF Count
  <2> QED
    BY <1>1, <1>3, <1>6, <2>1, <2>3, MapsToken DEF ContractKept
<1>8. CASE event[r].kind \in {"completion", "error"}
  <2>1. Outcome(r)' = IF event[r].kind = "completion" THEN "completed" ELSE "failed"
    BY <1>3, <1>4, <1>5, <1>8 DEF Outcome
  <2>2. Tokens(t) = Tokens(s)
    BY <1>2, <1>3, <1>8, TokensAppended DEF t
  <2>3. Count(r)' = Count(r)
    BY <1>4, <2>2 DEF Count
  <2> QED
    BY <1>1, <1>3, <1>6, <2>1, <2>3, MapsOutcome DEF ContractKept
<1> QED
  BY <1>2, <1>7, <1>8

(* Steps that send nothing cut the stream off, which needs a done context,   *)
(* or are seen at most to end the context.                                   *)
LEMMA SilentContract ==
    ASSUME SilenceInv, SilenceInv', NEW r \in Requests, \A q \in Requests : q # r => Unseen(q),
           ctx \in [Requests -> {"live", "deadline", "canceled"}], SilentStep(r)
    PROVE  ContractKept
<1>0. status'[r] = status[r] /\ sse'[r] = sse[r] /\ (Silent(r)' <=> Silent(r))
  BY DEF SilentStep, Silent
<1>1. ContextStep(r, {"deadline", "canceled"})
  BY DEF SilentStep, ContextStep
<1>2. CASE pc[r] \notin FinalPCs /\ pc'[r] \in FinalPCs /\ status[r] = 200 /\ Silent(r)
  <2>1. ctx'[r] # "live"
    BY <1>0, <1>2 DEF SilenceInv
  <2>2. ContextStep(r, {"canceled"})
    BY <1>2 DEF SilentStep
  <2>3. \/ ctx[r] # "live" /\ UNCHANGED ctx
        \/ ctx[r] = "live" /\ ctx' = [ctx EXCEPT ![r] = "canceled"]
    BY <2>1, <2>2 DEF ContextStep
  <2>4. Outcome(r) = "streaming" /\ Outcome(r)' = IF ctx'[r] = "deadline" THEN "expired" ELSE "aborted"
    BY <1>0, <1>2 DEF Outcome, FinalPCs, Silent
  <2>5. Count(r)' = Count(r) /\ IsDone(r)' = IsDone(r)
    BY <1>0 DEF Count, IsDone
  <2> QED
    BY <2>3, <2>4, <2>5, MapsCutOff DEF ContractKept
<1>3. CASE ~(pc[r] \notin FinalPCs /\ pc'[r] \in FinalPCs /\ status[r] = 200 /\ Silent(r))
  <2>1. ASSUME pc[r] \in FinalPCs, status[r] = 200, Silent(r) PROVE UNCHANGED ctx
    BY <1>1, <2>1 DEF SilenceInv, ContextStep
  <2>2. pc[r] \in FinalPCs => pc'[r] \in FinalPCs
    BY DEF SilentStep
  <2>3. Unseen(r)
    BY <1>0, <1>3, <2>1, <2>2, UnseenStep
  <2>4. \A q \in Requests : Unseen(q)
    BY <2>3
  <2>5. CASE UNCHANGED ctx
    BY <2>4, <2>5, MapsStutter DEF ContractKept
  <2>6. ASSUME NEW why \in {"deadline", "canceled"}, ctx[r] = "live", ctx' = [ctx EXCEPT ![r] = why]
        PROVE  ContractKept
    BY <2>4, <2>6, MapsLapse DEF ContractKept
  <2> QED
    BY <1>1, <2>5, <2>6 DEF ContextStep
<1> QED
  BY <1>2, <1>3

(* [DONE] closes a stream that was completed or failed, once. *)
LEMMA DoneContract ==
    ASSUME GatewayInv, StreamInv, NEW r \in Requests, \A q \in Requests : q # r => Unseen(q),
           WriteDone(r), client[r] # "gone"
    PROVE  ContractKept
<1>0. TypeOK
  BY DEF GatewayInv
<1> DEFINE s == sse[r]
           e == Sent("done", 0, 0)
           t == Append(s, e)
<1>1. /\ pc[r] = "done" /\ client[r] # "gone" /\ UNCHANGED <<status, ctx>>
      /\ pc' = [pc EXCEPT ![r] = "release"] /\ sse' = [sse EXCEPT ![r] = t]
  BY Zenon DEF WriteDone, GoTo
<1>2. s \in Seq(SentType) /\ status[r] = 200 /\ e.kind = "done"
  <2>1. StateTyped /\ ReplyInv(r)
    BY BeforeStep, Zenon DEF Before
  <2>2. s \in Seq(SentType)
    BY <2>1, Zenon DEF StateTyped
  <2>3. pc[r] \in CommittedPCs
    BY <1>1 DEF CommittedPCs
  <2>4. status[r] = 200
    BY <2>1, <2>3, Zenon DEF ReplyInv
  <2>5. e.kind = "done"
    BY DEF Sent
  <2> QED
    BY <2>2, <2>4, <2>5
<1>3. PICK m \in 0 .. Len(s) : Shaped(s, attempt[r], m) /\ Len(s) = m + 1
  <2>1. SentInv(r)
    BY Zenon DEF StreamInv
  <2> QED
    BY <1>1, <2>1, Zenon DEF SentInv
<1>4. sse'[r] = t /\ status'[r] = 200 /\ pc'[r] = "release"
  BY <1>0, <1>1, <1>2 DEF TypeOK
<1> HIDE DEF s, e, t
<1>5. Kinds(t) = Kinds(s) \union {"done"}
  BY <1>2, Appended DEF t
<1>6. ("completion" \in Kinds(s) \/ "error" \in Kinds(s)) /\ "done" \notin Kinds(s)
  <2>1. m \in Nat /\ Len(s) \in Nat
    BY <1>2, <1>3
  <2> QED
    BY <1>2, <1>3, <2>1, ShapedOutcome
<1>7. ~IsDone(r) /\ IsDone(r)'
  BY <1>4, <1>5, <1>6 DEF IsDone, s
<1>8. Outcome(r) \in {"completed", "failed"} /\ Outcome(r)' = Outcome(r)
  BY <1>2, <1>4, <1>5, <1>6 DEF Outcome, s
<1>9. Tokens(t) = Tokens(s)
  BY <1>2, TokensAppended DEF t
<1>10. Count(r)' = Count(r)
  BY <1>4, <1>9 DEF Count, s
<1> QED
  BY <1>1, <1>7, <1>8, <1>10, MapsClose DEF ContractKept

(* The steps that send no event. *)
LEMMA SilentSteps ==
    ASSUME GatewayInv, NEW r \in Requests,
           \/ FlushHeaders(r) \/ ForwardEvent(r) \/ ForwardClosed(r) \/ ForwardAborted(r)
           \/ WriteLost(r) \/ (WriteDone(r) /\ client[r] = "gone")
           \/ Release(r) \/ Return(r) \/ FinishResponse(r)
           \/ DeadlineExpires(r) \/ Disconnect(r) \/ DisconnectNoticed(r) \/ Stall(r) \/ Resume(r)
    PROVE  SilentStep(r)
<1>0. TypeOK
  BY DEF GatewayInv
<1>1. ASSUME status' = status, sse'[r] = sse[r], NEW label \in PCs, pc' = [pc EXCEPT ![r] = label],
             UNCHANGED ctx \/ CancelContext(r), pc[r] \in FinalPCs => label \in FinalPCs,
             label \in FinalPCs => pc[r] \in FinalPCs \union {"done"} \/ ctx'[r] # "live",
             label = "done" => ctx'[r] # "live"
      PROVE  SilentStep(r)
  <2>1. pc'[r] = label
    BY <1>0, <1>1 DEF TypeOK
  <2>2. ContextStep(r, {"canceled"})
    BY <1>1, CancelEnds DEF ContextStep
  <2> QED
    BY <1>1, <2>1, <2>2 DEF SilentStep
<1>2. CASE WriteDone(r) /\ client[r] = "gone"
  <2>1. /\ sse' = [sse EXCEPT ![r] = sse[r]] /\ UNCHANGED <<status, ctx>> /\ pc[r] = "done"
        /\ pc' = [pc EXCEPT ![r] = "release"]
    BY <1>2, Zenon DEF WriteDone, GoTo
  <2>2. sse'[r] = sse[r]
    BY <1>0, <2>1 DEF TypeOK
  <2> QED
    BY <1>1, <2>1, <2>2 DEF PCs, FinalPCs
<1>3. CASE FlushHeaders(r) \/ ForwardEvent(r) \/ ForwardClosed(r)
  <2>1. UNCHANGED <<status, sse, ctx>> /\ pc' = [pc EXCEPT ![r] = "write"]
        /\ pc[r] \in {"headers", "forward"}
    BY <1>3 DEF FlushHeaders, ForwardEvent, ForwardClosed, GoTo, clientVars
  <2> QED
    BY <1>1, <2>1 DEF PCs, FinalPCs
<1>4. CASE ForwardAborted(r)
  <2>1. /\ UNCHANGED <<status, sse, ctx>> /\ pc' = [pc EXCEPT ![r] = "release"]
        /\ pc[r] = "forward" /\ ctx[r] # "live"
    BY <1>4 DEF ForwardAborted, GoTo, clientVars
  <2> QED
    BY <1>1, <2>1 DEF PCs, FinalPCs
<1>5. CASE WriteLost(r)
  <2>1. /\ UNCHANGED <<status, sse>> /\ pc[r] = "write" /\ CancelContext(r)
        /\ \E label \in {"forward", "done", "release"} : pc' = [pc EXCEPT ![r] = label]
    BY <1>5 DEF WriteLost, GoTo, AfterWrite
  <2>2. ctx'[r] # "live"
    BY <2>1, CancelEnds
  <2> QED
    BY <1>1, <2>1, <2>2 DEF PCs, FinalPCs
<1>6. CASE Release(r) \/ Return(r) \/ FinishResponse(r)
  <2>1. /\ pc[r] \in {"release", "return", "flush"} /\ UNCHANGED <<sse, status>>
        /\ UNCHANGED ctx \/ CancelContext(r)
        /\ \E label \in {"return", "flush", "closed"} : pc' = [pc EXCEPT ![r] = label]
    BY <1>6 DEF Release, Return, FinishResponse, GoTo, clientVars
  <2> QED
    BY <1>1, <2>1 DEF PCs, FinalPCs
<1>7. CASE DeadlineExpires(r) \/ Disconnect(r) \/ DisconnectNoticed(r) \/ Stall(r) \/ Resume(r)
  <2>1. UNCHANGED <<pc, status, sse>>
    BY <1>7 DEF DeadlineExpires, Disconnect, DisconnectNoticed, Stall, Resume, handlerVars, clientVars
  <2>2. \/ UNCHANGED ctx \/ CancelContext(r)
        \/ ctx[r] = "live" /\ ctx' = [ctx EXCEPT ![r] = "deadline"]
    BY <1>7 DEF DeadlineExpires, Disconnect, DisconnectNoticed, Stall, Resume
  <2>3. ContextStep(r, {"deadline", "canceled"})
    BY <2>2, CancelEnds DEF ContextStep
  <2> QED
    BY <2>1, <2>3 DEF SilentStep
<1> QED
  BY <1>2, <1>3, <1>4, <1>5, <1>6, <1>7

(* The steps before the commit reply with a refusal or not at all. *)
LEMMA RefusingSteps ==
    ASSUME GatewayInv, NEW r \in Requests,
           \/ Arrive(r) \/ Enter(r) \/ BodyRead(r) \/ BadRequest(r) \/ BodyLost(r)
           \/ NoHealthyWorkers(r) \/ HealthyWorkers(r)
           \/ AdmissionRejected(r) \/ (\E cost \in Costs : Admitted(r, cost))
           \/ (\E w \in Workers : SelectWorker(r, w)) \/ NoEligibleWorker(r)
           \/ PoolClient(r) \/ Dialed(r) \/ GenerateOpened(r) \/ Dropped(r)
           \/ DialFailed(r) \/ GenerateFailed(r) \/ FirstFailed(r) \/ FirstClosed(r)
    PROVE  pc[r] \in UncommittedPCs /\ sse'[r] = sse[r] /\ status'[r] # 200 /\ UNCHANGED ctx
<1>0. TypeOK
  BY DEF GatewayInv
<1>1. pc[r] \in UncommittedPCs /\ UNCHANGED <<sse, ctx>>
  BY DEF Arrive, Enter, BodyRead, BadRequest, BodyLost, Dropped, NoHealthyWorkers, HealthyWorkers, AdmissionRejected, Admitted,
     SelectWorker, NoEligibleWorker, PoolClient, Dialed, GenerateOpened, DialFailed,
     GenerateFailed, FirstFailed, FirstClosed, AttemptFailed, UncommittedPCs, clientVars
<1>2. status[r] = 0
  BY <1>1, BeforeStep DEF Before, ReplyInv
<1>3. PrecommitStatus(r) \in {502, 504}
  BY DEF PrecommitStatus
<1>4. \/ UNCHANGED status
      \/ Reply(r, 400) \/ Reply(r, 429) \/ Reply(r, 503) \/ Reply(r, PrecommitStatus(r))
  <2>1. CASE NoEligibleWorker(r)
    BY <2>1 DEF NoEligibleWorker
  <2>2. CASE DialFailed(r) \/ GenerateFailed(r) \/ FirstFailed(r) \/ FirstClosed(r)
    BY <2>2, AttemptFailures DEF AttemptFailed
  <2>3. CASE Dropped(r)
    BY <2>3 DEF Dropped
  <2> QED
    BY <2>1, <2>2, <2>3 DEF Arrive, Enter, BodyRead, BadRequest, BodyLost, NoHealthyWorkers, HealthyWorkers, AdmissionRejected,
       Admitted, SelectWorker, PoolClient, Dialed, GenerateOpened
<1>5. status'[r] \in {0, 400, 429, 503, PrecommitStatus(r)}
  BY <1>0, <1>2, <1>4 DEF TypeOK, Reply
<1> QED
  BY <1>1, <1>3, <1>5

(* A step that tells the client something does not leave it without its end. *)
LEMMA SpokenSilence ==
    ASSUME GatewayInv, StreamInv, SilenceInv, NEW r \in Requests,
           pc'[r] \in FinalPCs \union {"done"}, status'[r] = 200, Silent(r)',
           WriteAccepted(r) \/ (WriteDone(r) /\ client[r] # "gone")
    PROVE  ctx'[r] # "live"
<1>0. TypeOK /\ sse[r] \in Seq(SentType)
  BY DEF GatewayInv, TypeOK
<1>1. CASE WriteAccepted(r)
  <2> DEFINE e == Sent(event[r].kind, attempt[r], event[r].index)
  <2>1. /\ pc[r] = "write" /\ pc' = [pc EXCEPT ![r] = AfterWrite(r)]
        /\ sse' = [sse EXCEPT ![r] = Append(sse[r], e)]
    BY <1>1, Zenon DEF WriteAccepted, GoTo
  <2>2. pc'[r] = AfterWrite(r) /\ sse'[r] = Append(sse[r], e)
    BY <1>0, <2>1 DEF TypeOK
  <2>3. event[r].kind \in {"completion", "error"} /\ e.kind = event[r].kind
    BY <2>1, <2>2, BeforeStep DEF Before, ControlInv, Sent, AfterWrite, FinalPCs
  <2> HIDE DEF e
  <2>4. e.kind \in Kinds(sse'[r])
    BY <1>0, <2>2, Appended
  <2> QED
    BY <2>3, <2>4 DEF Silent
<1>2. CASE WriteDone(r) /\ client[r] # "gone"
  <2> DEFINE e == Sent("done", 0, 0)
  <2>1. /\ pc[r] = "done" /\ UNCHANGED <<status, ctx>>
        /\ sse' = [sse EXCEPT ![r] = Append(sse[r], e)]
    BY <1>2, Zenon DEF WriteDone
  <2>2. sse'[r] = Append(sse[r], e)
    BY <1>0, <2>1 DEF TypeOK
  <2> HIDE DEF e
  <2>3. Kinds(sse[r]) \subseteq Kinds(sse'[r])
    BY <1>0, <2>2, Appended
  <2> QED
    BY <2>1, <2>3 DEF Silent, SilenceInv
<1> QED
  BY <1>1, <1>2

(* No step leaves a stream without its end unless the context is done. *)
LEMMA SilenceNext == GatewayInv /\ StreamInv /\ SilenceInv /\ [Next]_vars => SilenceInv'
<1> SUFFICES ASSUME GatewayInv, StreamInv, SilenceInv, [Next]_vars PROVE SilenceInv'
  OBVIOUS
<1>0. ctx \in [Requests -> {"live", "deadline", "canceled"}] /\ pc \in [Requests -> PCs]
  BY DEF GatewayInv, TypeOK
<1>1. ASSUME NEW r \in Requests, HandlerStep(r) \/ EnvironmentStep(r) PROVE SilenceInv'
  <2> SUFFICES ASSUME NEW q \in Requests, pc'[q] \in FinalPCs \union {"done"}, status'[q] = 200,
                      Silent(q)'
               PROVE  ctx'[q] # "live"
    BY DEF SilenceInv
  <2>1. CASE q # r
    <3>1. SameStream(q) /\ ctx'[q] = ctx[q]
      BY <1>1, <2>1, OtherStreams
    <3> QED
      BY <3>1 DEF SameStream, Silent, SilenceInv
  <2>2. CASE q = r /\ SilentStep(r)
    <3>1. status[r] = 200 /\ Silent(r)
      BY <2>2 DEF SilentStep, Silent
    <3>2. ctx[r] # "live" => ctx'[r] # "live"
      BY <1>0, <2>2 DEF SilentStep, ContextStep
    <3> QED
      BY <2>2, <3>1, <3>2 DEF SilentStep, SilenceInv
  <2>3. CASE q = r /\ (WriteAccepted(r) \/ (WriteDone(r) /\ client[r] # "gone"))
    BY <2>3, SpokenSilence
  <2>4. CASE q = r /\ Commit(r)
    <3>1. pc' = [pc EXCEPT ![r] = "headers"]
      BY <2>4 DEF Commit, GoTo
    <3> QED
      BY <1>0, <2>4, <3>1 DEF FinalPCs
  <2>5. CASE q = r /\ status'[r] # 200
    BY <2>5
  <2>6. CASE q = r /\ HandlerStep(r)
    BY <2>2, <2>3, <2>4, <2>5, <2>6, SilentSteps, RefusingSteps DEF HandlerStep, Unbounded
  <2>7. CASE q = r /\ EnvironmentStep(r)
    BY <2>2, <2>3, <2>5, <2>7, SilentSteps, RefusingSteps DEF EnvironmentStep, Unbounded
  <2> QED
    BY <1>1, <2>1, <2>6, <2>7
<1>2. ASSUME UNCHANGED <<pc, status, sse, ctx>> PROVE SilenceInv'
  BY <1>2 DEF SilenceInv, Silent
<1>3. ASSUME NEW i \in Attempts, ReceiverStep(i) PROVE SilenceInv'
  BY <1>2, <1>3 DEF ReceiverStep, RecvChunk, RecvError, RecvAborted, DeliverStep, Deliver,
     DeliverCanceled, SlowClient, handlerVars, clientVars
<1>4. CASE UNCHANGED vars
  BY <1>2, <1>4 DEF vars
<1> QED
  BY <1>1, <1>3, <1>4 DEF Next, Served, ReceiverStep

(* No stream has ended at first. *)
LEMMA SilenceInit == Init => SilenceInv
BY DEF Init, SilenceInv, FinalPCs

(* Every step of the router maps to a step of the contract or to none. *)
LEMMA ContractNextStep ==
    GatewayInv /\ StreamInv /\ SilenceInv /\ SilenceInv' /\ [Next]_vars => ContractKept
<1> SUFFICES ASSUME GatewayInv, StreamInv, SilenceInv, SilenceInv', [Next]_vars PROVE ContractKept
  OBVIOUS
<1>1. ASSUME NEW r \in Requests, HandlerStep(r) \/ EnvironmentStep(r) PROVE ContractKept
  <2>1. \A q \in Requests : q # r => Unseen(q)
    <3>1. ASSUME NEW q \in Requests, q # r PROVE Unseen(q)
      <4>1. SameStream(q) /\ ctx'[q] = ctx[q]
        BY <1>1, <3>1, OtherStreams
      <4> QED
        BY <4>1, UnseenStep DEF SameStream
    <3> QED
      BY <3>1
  <2>2. ctx \in [Requests -> {"live", "deadline", "canceled"}]
    BY DEF GatewayInv, TypeOK
  <2>3. CASE HandlerStep(r)
    BY <2>1, <2>2, <2>3, RefusingSteps, UncommittedContract, CommitContract, AcceptedContract,
       SilentSteps, SilentContract, DoneContract DEF HandlerStep, Unbounded
  <2>4. CASE EnvironmentStep(r)
    BY <2>1, <2>2, <2>4, RefusingSteps, UncommittedContract, SilentSteps, SilentContract,
       DoneContract DEF EnvironmentStep, Unbounded
  <2> QED
    BY <1>1, <2>3, <2>4
<1>2. ASSUME UNCHANGED <<pc, status, sse, ctx>> PROVE ContractKept
  BY <1>2, UnseenStep, MapsStutter DEF ContractKept
<1>3. ASSUME NEW i \in Attempts, ReceiverStep(i) PROVE ContractKept
  BY <1>2, <1>3 DEF ReceiverStep, RecvChunk, RecvError, RecvAborted, DeliverStep, Deliver,
     DeliverCanceled, SlowClient, handlerVars, clientVars
<1>4. CASE UNCHANGED vars
  BY <1>2, <1>4 DEF vars
<1> QED
  BY <1>1, <1>3, <1>4 DEF Next, Served, ReceiverStep

(* The initial state maps to the contract's. *)
LEMMA ContractInitStep == Init => Contract!ContractInit
<1> SUFFICES ASSUME Init PROVE Contract!ContractInit
  OBVIOUS
<1>1. ASSUME NEW r \in Requests
      PROVE  Outcome(r) = "pending" /\ Count(r) = 0 /\ "done" \notin Kinds(sse[r])
  <2>1. status[r] = 0 /\ sse[r] = << >>
    BY DEF Init
  <2>2. Tokens(sse[r]) = {} /\ Kinds(sse[r]) = {}
    BY <2>1, ShapedEmpty DEF Tokens
  <2> QED
    BY <2>1, <2>2, FS_EmptySet DEF Outcome, Count
<1>2. [r \in Requests |-> Outcome(r)] = [r \in Requests |-> "pending"]
  BY <1>1
<1>3. [r \in Requests |-> Count(r)] = [r \in Requests |-> 0]
  BY <1>1
<1>4. [r \in Requests |-> "done" \in Kinds(sse[r])] = [r \in Requests |-> FALSE]
  <2>1. ASSUME NEW r \in Requests PROVE ("done" \in Kinds(sse[r])) = FALSE
    BY <1>1
  <2> QED
    BY <2>1, Zenon
<1> QED
  BY <1>2, <1>3, <1>4 DEF Contract!ContractInit, Count, Init

(* handleChat, its receivers and the pool together implement the client's    *)
(* contract for any number of requests: one refusal or one stream of tokens, *)
(* ended once, closed by [DONE] only when it was completed or failed, and    *)
(* cut off in silence only when its own context is done.                     *)
THEOREM ContractImplemented == Spec => ContractRefinement
<1>1. (GatewayInv /\ StreamInv /\ SilenceInv /\ SilenceInv' /\ [Next]_vars)
          => [Contract!ContractNext]_(Contract!contractVars)
  BY ContractNextStep DEF ContractKept
<1>2. Spec => [](GatewayInv /\ StreamInv /\ SilenceInv)
  BY StreamInvariant, SilenceInit, SilenceNext, PTL DEF Spec
<1> QED
  BY <1>1, <1>2, ContractInitStep, PTL
  DEF Spec, ContractRefinement, Contract!ContractSpec
=============================================================================
