---------------------------- MODULE ChatContract -----------------------------
(***************************************************************************)
(* What a client may observe of a chat request, whatever happens between    *)
(* the router and its workers: either one JSON refusal, or one stream that  *)
(* delivers tokens one at a time and then is completed or failed, which     *)
(* [DONE] closes, or is cut off in silence.  Silence needs a reason in the  *)
(* request's own context: it was cancelled, because the client left or the  *)
(* router is closing, or its deadline has passed.  docs/api-contract.md     *)
(* allows the first and asks for an error event and [DONE] in the second    *)
(* case; the two ends are told apart here, and MCGateway states the         *)
(* document's claim.  Gateway.tla is shown to implement this contract.      *)
(***************************************************************************)
EXTENDS Naturals

CONSTANT Requests

VARIABLES
    outcome,    \* outcome[r]: what the client knows of its request
    delivered,  \* delivered[r]: tokens received
    done,       \* done[r]: [DONE] received
    ended       \* ended[r]: "live", or why the request's context is done

contractVars == <<outcome, delivered, done, ended>>

ContractInit ==
    /\ outcome = [r \in Requests |-> "pending"]
    /\ delivered = [r \in Requests |-> 0]
    /\ done = [r \in Requests |-> FALSE]
    /\ ended = [r \in Requests |-> "live"]

Refuse(r) ==
    /\ outcome[r] = "pending"
    /\ outcome' = [outcome EXCEPT ![r] = "refused"]
    /\ UNCHANGED <<delivered, done, ended>>

Start(r) ==
    /\ outcome[r] = "pending"
    /\ outcome' = [outcome EXCEPT ![r] = "streaming"]
    /\ UNCHANGED <<delivered, done, ended>>

DeliverToken(r) ==
    /\ outcome[r] = "streaming"
    /\ delivered' = [delivered EXCEPT ![r] = @ + 1]
    /\ UNCHANGED <<outcome, done, ended>>

\* The client is told how the stream ended.
End(r, how) ==
    /\ outcome[r] = "streaming"
    /\ outcome' = [outcome EXCEPT ![r] = how]
    /\ UNCHANGED <<delivered, done, ended>>

\* A context ends once.
ContextEnds(r, why) ==
    /\ ended[r] = "live"
    /\ ended' = [ended EXCEPT ![r] = why]

Lapse(r, why) == ContextEnds(r, why) /\ UNCHANGED <<outcome, delivered, done>>

\* The client is told nothing: the context is done, or a lost write ends it now.
CutOff(r) ==
    /\ outcome[r] = "streaming"
    /\ ContextEnds(r, "canceled") \/ (ended[r] # "live" /\ UNCHANGED ended)
    /\ outcome' = [outcome EXCEPT ![r] = IF ended'[r] = "deadline" THEN "expired" ELSE "aborted"]
    /\ UNCHANGED <<delivered, done>>

Close(r) ==
    /\ outcome[r] \in {"completed", "failed"}
    /\ ~done[r]
    /\ done' = [done EXCEPT ![r] = TRUE]
    /\ UNCHANGED <<outcome, delivered, ended>>

ContractNext ==
    \E r \in Requests :
        \/ Refuse(r)
        \/ Start(r)
        \/ DeliverToken(r)
        \/ \E how \in {"completed", "failed"} : End(r, how)
        \/ \E why \in {"deadline", "canceled"} : Lapse(r, why)
        \/ CutOff(r)
        \/ Close(r)

ContractSpec == ContractInit /\ [][ContractNext]_contractVars
=============================================================================
