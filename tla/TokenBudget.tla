----------------------------- MODULE TokenBudget -----------------------------
(***************************************************************************)
(* What admission control promises the gateway, and nothing more: at most   *)
(* GlobalInFlightTokens tokens are reserved at any time, a reservation is   *)
(* granted as a whole or not at all, and releasing one gives back exactly   *)
(* what it took, once.  Whether a request is refused is left open here;     *)
(* Admission.tla, which keeps the tenant buckets, decides that and is shown *)
(* to implement this specification.  The gateway modules are built on it.   *)
(***************************************************************************)
EXTENDS Integers

CONSTANTS
    Handlers,               \* the handleChat invocations that call Reserve
    Costs,                  \* the reservation costs requests ask for
    GlobalInFlightTokens    \* config.GlobalInFlightTokens

VARIABLES
    used,                   \* Controller.used
    leases                  \* leases[h]: cost of the lease h holds, 0 when none

budgetVars == <<used, leases>>

NoLease == 0

BudgetInit ==
    /\ used = 0
    /\ leases = [h \in Handlers |-> NoLease]

\* The subtraction form of the guard is the code's: it cannot wrap as long as
\* used never exceeds the limit.
Fits(cost) == cost <= GlobalInFlightTokens - used

Grant(h, cost) ==
    /\ leases[h] = NoLease
    /\ Fits(cost)
    /\ used' = used + cost
    /\ leases' = [leases EXCEPT ![h] = cost]

GiveBack(h) ==
    /\ leases[h] # NoLease
    /\ used' = used - leases[h]
    /\ leases' = [leases EXCEPT ![h] = NoLease]

BudgetNext ==
    \E h \in Handlers :
        \/ \E cost \in Costs \ {0} : Grant(h, cost)
        \/ GiveBack(h)

BudgetSpec == BudgetInit /\ [][BudgetNext]_budgetVars
=============================================================================
