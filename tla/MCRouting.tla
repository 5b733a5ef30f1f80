------------------------------ MODULE MCRouting ------------------------------
(* Constants for checking Routing.tla.  Tolerance 1 and three workers whose   *)
(* scores are one apart, with longer and longer matches, let the scan climb   *)
(* from tie to tie; CountWidth 3 lets the overload penalty wrap.              *)
EXTENDS Routing

Cached(n) == SubSeq(Fingerprints(<<"a", "b">>), 1, n)

Idle == [faults |-> {}, waiting |-> 0, runningWork |-> 0, running |-> 0, quantum |-> 1,
         prefillTime |-> 1, decodeTime |-> 2, cached |-> <<>>]

LoadReports ==
    {Idle,
     [Idle EXCEPT !.waiting = 3, !.cached = Cached(1)],
     [Idle EXCEPT !.waiting = 2, !.runningWork = 4, !.cached = Cached(2)],
     [Idle EXCEPT !.running = 3, !.quantum = 3],
     [Idle EXCEPT !.prefillTime = 2, !.running = 1, !.cached = Fingerprints(<<"b">>)],
     [Idle EXCEPT !.faults = {"unhealthy"}]}

\* Round robin reads nothing of a worker but its eligibility.
RingReports == {Idle, [Idle EXCEPT !.faults = {"stale_heartbeat", "incompatible_worker"}]}

AllReports == [p \in Policies |-> IF p = "round_robin" THEN RingReports ELSE LoadReports]

AllBodies ==
    {[estimate |-> 4, blocks |-> <<"a", "b">>, given |-> FALSE, maxTokens |-> 0]} \union
    {[estimate |-> 3, blocks |-> <<"a">>, given |-> TRUE, maxTokens |-> n] : n \in {0, 1, 3, 5, 61, 62}} \union
    {[estimate |-> n, blocks |-> [i \in 1 .. n \div 2 |-> "b"], given |-> TRUE, maxTokens |-> 2] : n \in {5, 6}}

AllHeaders == {NoHeader, Malformed} \union {Header(ms) : ms \in {-1, 0, 1, 2, 3, 4, 11, 21, 31, 32}}

OnePolicy == [p \in Policies |-> {Idle}]
=============================================================================
