------------------------------ MODULE Shutdown -------------------------------
(***************************************************************************)
(* The router's server around the request handlers of Gateway.tla: Start,   *)
(* the control plane's RPCs as far as Close waits for them, and Close with  *)
(* its four waits under one bounded context (internal/gateway/server.go,    *)
(* cmd/router/main.go).                                                     *)
(*                                                                          *)
(* Every request context descends from the server's root context, also that *)
(* of a request that arrives while Close is running.  A request can arrive  *)
(* until http.Server.Shutdown has seen every connection idle: Shutdown      *)
(* closes the listener first, but connections it accepted before may still  *)
(* deliver their request, also after Shutdown gave up.                      *)
(***************************************************************************)
EXTENDS Gateway

VARIABLES
    phase,      \* where the server is: before Start, serving, or in which part of Close
    reachable,  \* a client's request may still reach a handler
    rpc,        \* a RegisterWorker or Heartbeat handler is running
    expired,    \* the context passed to Close is done
    result,     \* Close's result so far: "nil" or "error"
    removed     \* the connections Pool.Close took from the pool and has yet to close

closeVars == <<phase, reachable, rpc, expired, result, removed>>
serverVars == <<vars, closeVars>>

\* Close has cancelled the root context.
Closing == phase \in {"http", "control", "active", "pool", "conns", "closed"}

ServerInit ==
    /\ Init
    /\ phase = "new"
    /\ reachable = FALSE
    /\ rpc = FALSE
    /\ expired = FALSE
    /\ result = "nil"
    /\ removed = {}

\* Both listeners are open and both servers run.  A Start that fails leaves
\* neither: the HTTP listener is closed again.
StartServer ==
    /\ phase = "new"
    /\ phase' = "serving"
    /\ reachable' = TRUE
    /\ UNCHANGED <<vars, rpc, expired, result, removed>>

\* A step of a request.  Only a reachable server sees new ones.
RequestStep ==
    /\ Next
    /\ \A r \in Requests : pc[r] = "idle" /\ pc'[r] # "idle" => reachable
    /\ UNCHANGED closeVars

\* A call that GracefulStop will find running.  Earlier ones are over by then or
\* are this one, and GracefulStop refuses later ones.
RPCStarts ==
    /\ phase = "http"
    /\ ~rpc
    /\ rpc' = TRUE
    /\ UNCHANGED <<vars, phase, reachable, expired, result, removed>>

RPCEnds ==
    /\ rpc
    /\ rpc' = FALSE
    /\ UNCHANGED <<vars, phase, reachable, expired, result, removed>>

-----------------------------------------------------------------------------
(* Close.  Each wait ends when what it waits for is there or when the       *)
(* context is done; with both, either may be taken.                         *)

\* Mutant of CancelRoot: the HTTP server has no BaseContext.
CancelRootAlone == UNCHANGED ctx

\* cancelRoot reaches every request, those that have not arrived yet included.
CancelRoot == ctx' = [r \in Requests |-> IF ctx[r] = "live" THEN "canceled" ELSE ctx[r]]

\* The servers of an unstarted Server are nil and their waits are left out.
CloseBegins ==
    /\ phase \in {"new", "serving"}
    /\ CancelRoot
    /\ phase' = IF phase = "serving" THEN "http" ELSE "active"
    /\ UNCHANGED <<handlerVars, clientVars, att, poolVars, budgetVars>>
    /\ UNCHANGED <<reachable, rpc, expired, result, removed>>

\* Mutant of ConnectionsIdle: Close relies on the WaitGroup alone, which a
\* handler that has started enters only with its first statement.
ConnectionsIdleByCount == \A r \in Requests : pc[r] \in {"idle", "accepted", "flush", "closed"}

\* No connection is serving a request, from the read of its headers to the end
\* of its response.
ConnectionsIdle == \A r \in Requests : ~Active(r)

\* The active WaitGroup is at zero: from active.Add to active.Done.
NoActive == \A r \in Requests : pc[r] \in {"idle", "accepted", "flush", "closed"}

\* A wait is over: what was waited for has happened.
WaitOver(here, next) ==
    /\ phase = here
    /\ phase' = next
    /\ UNCHANGED <<vars, rpc, expired, result, removed>>

\* A wait is given up: the context's error is kept unless there is one already.
WaitTimedOut(here, next) ==
    /\ phase = here
    /\ expired
    /\ phase' = next
    /\ result' = "error"
    /\ UNCHANGED <<vars, reachable, rpc, expired, removed>>

\* http.Server.Shutdown has found every connection idle and closed it: by its
\* contract no handler is started after it returns nil.
HTTPDrained == ConnectionsIdle /\ WaitOver("http", "control") /\ reachable' = FALSE

\* Mutant of HTTPTimedOut: Shutdown is given a context of its own.
HTTPTimedOutNever == ~expired /\ WaitTimedOut("http", "control")

HTTPTimedOut == WaitTimedOut("http", "control")

\* GracefulStop returned; on a timeout Stop does not wait for the handlers.
ControlStopped == ~rpc /\ WaitOver("control", "active") /\ UNCHANGED reachable
ControlTimedOut == WaitTimedOut("control", "active")

\* active.Wait returned.
HandlersDone == NoActive /\ WaitOver("active", "pool") /\ UNCHANGED reachable
HandlersTimedOut == WaitTimedOut("active", "pool")

\* Pool.Close: the map is replaced by an empty one under the lock ...
EmptyPool ==
    /\ phase = "pool"
    /\ removed' = {pool[w] : w \in Workers} \ {NoConn}
    /\ pool' = [w \in Workers |-> NoConn]
    /\ phase' = "conns"
    /\ UNCHANGED <<handlerVars, ctx, clientVars, att, open, dropping, budgetVars>>
    /\ UNCHANGED <<reachable, rpc, expired, result>>

\* Mutant of CloseConnections: the old map is dropped, its connections stay.
CloseConnectionsForgets ==
    /\ phase = "conns"
    /\ removed' = {}
    /\ phase' = "closed"
    /\ UNCHANGED <<vars, reachable, rpc, expired, result>>

\* ... and its connections are closed outside it, with the streams on them.
CloseConnections ==
    /\ phase = "conns"
    /\ open' = open \ removed
    /\ removed' = {}
    /\ phase' = "closed"
    /\ UNCHANGED <<handlerVars, ctx, clientVars, att, pool, dropping, budgetVars>>
    /\ UNCHANGED <<reachable, rpc, expired, result>>

\* The shutdown timeout of cmd/router.
DrainExpires ==
    /\ phase \in {"http", "control", "active"}
    /\ ~expired
    /\ expired' = TRUE
    /\ UNCHANGED <<vars, phase, reachable, rpc, result, removed>>

CloseStep ==
    \/ HTTPDrained \/ HTTPTimedOut
    \/ ControlStopped \/ ControlTimedOut
    \/ HandlersDone \/ HandlersTimedOut
    \/ EmptyPool \/ CloseConnections

\* Close has returned and nothing is left to do.
Stopped == phase = "closed" /\ UNCHANGED serverVars

ServerNext ==
    \/ StartServer
    \/ RequestStep
    \/ RPCStarts \/ RPCEnds
    \/ CloseBegins \/ CloseStep \/ DrainExpires
    \/ Stopped

ServerSpec == ServerInit /\ [][ServerNext]_serverVars

\* To the fairness of the request path: Close's goroutine and the RPC handlers
\* run.  The context of Close need not have a deadline.
ServerFairness ==
    /\ Fairness
    /\ WF_serverVars(CloseStep)
    /\ WF_serverVars(RPCEnds)

FairServerSpec == ServerSpec /\ ServerFairness

-----------------------------------------------------------------------------
\* Close has returned without an error.
ClosedCleanly == phase = "closed" /\ result = "nil"

(* A Close that reports no error has stopped the router for good: no         *)
(* handler runs or will run, every lease is released and the pool is empty   *)
(* and stays so.  A request that arrives while Close is running, or one that *)
(* dials a worker, does not slip through between the waits.                  *)
CleanClose ==
    ClosedCleanly =>
        /\ \A r \in Requests : ~Active(r)
        /\ used = 0 /\ \A r \in Requests : leases[r] = 0
        /\ \A w \in Workers : pool[w] = NoConn

(* It also leaves no connection to a worker open: neither a pooled one, which *)
(* receivers that outlived their handlers may still be reading from, nor one *)
(* that lost a race to dial or that an Invalidate had in hand.               *)
NoConnectionLeft == ClosedCleanly => open = {}

(* Once Close has begun, no request opens another generation on a worker,    *)
(* neither one that arrives late nor the retry of one that was running.      *)
NoLateGenerationStep ==
    Closing => \A i \in Attempts : att[i].state = "none" => att'[i].state = "none"

NoLateGeneration == [][NoLateGenerationStep]_serverVars

\* A client that does not read holds its handler or its connection.
Stuck == \E r \in Requests : Held(r)

\* No client leaves its body unfinished for ever.
UploadsEnd == \A r \in Requests : Uploading(r) ~> ~Uploading(r)

(* Cancelling the root context is enough to drain the server, whatever the   *)
(* workers and the dials do: Close comes to its end without the help of its  *)
(* own context, if every upload ends and unless a client stalls in front of  *)
(* a write without a deadline.  Neither a body that never ends nor such a    *)
(* stall is interrupted by the root context.                                 *)
DrainEnds == UploadsEnd => (Closing ~> (phase = "closed" \/ Stuck \/ expired))

(* Once its context is done Close returns, stalled clients or not: each of   *)
(* its waits is bounded.                                                     *)
CloseReturns == expired ~> phase = "closed"
=============================================================================
