------------------------------ MODULE MCGateway ------------------------------
(* Constants for checking Gateway.tla.  A worker may send good chunks and    *)
(* one example of each defect that ChunkFromProto or validateChunk rejects;  *)
(* duplicates and gaps arise from good chunks sent at the wrong time.        *)
EXTENDS Gateway, TLC

Good == [version |-> TRUE, ids |-> TRUE, text |-> TRUE, final |-> FALSE,
         index |-> 0, reason |-> "unspecified"]
Final == [Good EXCEPT !.text = FALSE, !.final = TRUE, !.reason = "stop"]

GoodTokens == {[Good EXCEPT !.index = n] : n \in 0 .. MaxTokens - 1}
GoodFinals == {[Final EXCEPT !.index = n] : n \in 0 .. MaxTokens}
ErrorFinals == {[f EXCEPT !.reason = "error"] : f \in GoodFinals}
Defects == {[Good EXCEPT !.version = FALSE], [Good EXCEPT !.reason = "stop"],
            [Final EXCEPT !.reason = "unspecified"], [Good EXCEPT !.ids = FALSE],
            [Good EXCEPT !.text = FALSE], [Final EXCEPT !.text = TRUE]}

AllChunks == GoodTokens \union GoodFinals \union ErrorFinals \union Defects
PlainChunks == GoodTokens \union GoodFinals
BothFailures == {"retryable", "fatal"}
OnlyRetryable == {"retryable"}
AnyClient == {"disconnect", "stall"}
PatientClient == {}

\* Requests and workers are interchangeable in the runs without liveness.
Symmetry == Permutations(Requests) \union Permutations(Workers)

-----------------------------------------------------------------------------
(* Claims of the documentation that the code does not keep. *)

(* README.md: a 502 before the first event means that the one allowed retry  *)
(* was exhausted.  Stated for a request that was not itself cancelled.       *)
BadGatewayMeansRetried ==
    \A r \in Requests : (status[r] = 502 /\ ctx[r] = "live") => attempt[r] = 2

(* docs/failure-semantics.md: with a slow client the bounded channel and the *)
(* write deadline release the reservation.                                   *)
SlowClientReleases == \A r \in Requests : leases[r] # 0 ~> leases[r] = 0

(* docs/api-contract.md: after commitment a deadline failure produces an     *)
(* error event and [DONE].  Stated for a client that reads to the end.       *)
DeadlineIsTold ==
    \A r \in Requests :
        (status[r] = 200 /\ ctx[r] = "deadline" /\ client[r] = "reading" /\ pc[r] = "flush") =>
            "done" \in Kinds(sse[r])
=============================================================================
