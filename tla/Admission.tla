------------------------------ MODULE Admission ------------------------------
(***************************************************************************)
(* internal/admission/admission.go: the Controller that every handleChat    *)
(* goroutine shares.  Reserve reads the clock BEFORE it takes the mutex, so *)
(* a call is two steps here: Call (the clock reading) and one of the three  *)
(* outcomes of the critical section.  Between the two, other handlers may   *)
(* run theirs with later readings; the bucket's elapsed time may then be    *)
(* negative and its "last" may move backwards.                              *)
(*                                                                          *)
(* Tokens are integers in the unit that makes TenantRatePerSecond the       *)
(* refill of one clock tick; the rounding of float64 is not modelled.       *)
(***************************************************************************)
EXTENDS TokenSum

CONSTANTS
    Handlers,               \* handleChat goroutines
    Tenants,                \* tenant names that have a bucket
    PublicTenant,           \* "public", the bucket of calls without a tenant
    NoTenant,               \* the empty tenant name
    Costs,                  \* EstimatedInputToken + MaxOutputTokens of the requests
    GlobalInFlightTokens,   \* Config.GlobalInFlightTokens
    TenantRatePerSecond,    \* Config.TenantRatePerSecond, per clock tick
    TenantBurstTokens,      \* Config.TenantBurstTokens
    MaxClock                \* bound on the clock

ASSUME HandlersAssumption == IsFiniteSet(Handlers)
ASSUME TenantsAssumption == PublicTenant \in Tenants /\ NoTenant \notin Tenants
ASSUME CostsAssumption == Costs \subseteq Nat
\* New rejects a configuration whose limits are not positive.
ASSUME LimitsAssumption ==
    /\ GlobalInFlightTokens \in Nat \ {0}
    /\ TenantRatePerSecond \in Nat \ {0}
    /\ TenantBurstTokens \in Nat \ {0}
ASSUME ClockAssumption == MaxClock \in Nat

VARIABLES
    clock,      \* the monotonic clock Controller.now reads
    used,       \* Controller.used
    buckets,    \* Controller.buckets
    calls,      \* calls[h]: the Reserve call or the Lease of handler h
    poisoned,   \* Release panicked inside the critical section: mu stays locked
    ledger      \* history: what each tenant was charged since its bucket exists

vars == <<clock, used, buckets, calls, poisoned, ledger>>

ZeroTime == -1      \* time.Time{}: the bucket of a tenant never seen

EmptyBucket == [tokens |-> 0, last |-> ZeroTime]
NoEntry == [since |-> ZeroTime, charged |-> 0]
NoCall == [state |-> "idle", tenant |-> NoTenant, cost |-> 0, now |-> 0]

BucketType == [tokens : Int, last : ZeroTime .. MaxClock]
CallType == [state : {"idle", "called", "held", "released"},
             tenant : Tenants \union {NoTenant},
             cost : Nat,
             now : 0 .. MaxClock]
EntryType == [since : ZeroTime .. MaxClock, charged : Nat]

(* Every variable has its type; used is a uint64 that never leaves the       *)
(* configured range.                                                         *)
TypeOK ==
    /\ clock \in 0 .. MaxClock
    /\ used \in 0 .. GlobalInFlightTokens
    /\ buckets \in [Tenants -> BucketType]
    /\ calls \in [Handlers -> CallType]
    /\ poisoned \in BOOLEAN
    /\ ledger \in [Tenants -> EntryType]

Init ==
    /\ clock = 0
    /\ used = 0
    /\ buckets = [t \in Tenants |-> EmptyBucket]
    /\ calls = [h \in Handlers |-> NoCall]
    /\ poisoned = FALSE
    /\ ledger = [t \in Tenants |-> NoEntry]

-----------------------------------------------------------------------------
BucketOf(tenant) == IF tenant = NoTenant THEN PublicTenant ELSE tenant

Least(a, b) == IF a < b THEN a ELSE b

\* Mutant of Refilled: a negative elapsed time counts as none, but last still
\* moves back, so that the same time is refilled twice.
RefilledClamped(b, now) ==
    IF b.last = ZeroTime
    THEN [tokens |-> TenantBurstTokens, last |-> now]
    ELSE [tokens |-> Least(TenantBurstTokens,
                           IF now < b.last THEN b.tokens
                           ELSE b.tokens + (now - b.last) * TenantRatePerSecond),
          last   |-> now]

\* The bucket as Reserve sees it after refilling it up to its clock reading.
Refilled(b, now) ==
    IF b.last = ZeroTime
    THEN [tokens |-> TenantBurstTokens, last |-> now]
    ELSE [tokens |-> Least(TenantBurstTokens,
                           b.tokens + (now - b.last) * TenantRatePerSecond),
          last   |-> now]

\* Reserve up to and including the clock reading; a zero cost returns an error
\* before anything is read.
Call(h, tenant, cost) ==
    /\ calls[h].state = "idle"
    /\ cost # 0
    /\ calls' = [calls EXCEPT ![h] = [state |-> "called", tenant |-> BucketOf(tenant),
                                      cost |-> cost, now |-> clock]]
    /\ UNCHANGED <<clock, used, buckets, poisoned, ledger>>

TenantHasTokens(h) ==
    calls[h].cost <= Refilled(buckets[calls[h].tenant], calls[h].now).tokens

\* Mutant of GlobalHasTokens: the cost is compared with the limit, not with
\* what is left of it.
GlobalHasTokensAlone(h) == calls[h].cost <= GlobalInFlightTokens

GlobalHasTokens(h) == calls[h].cost <= GlobalInFlightTokens - used

\* The ledger's window starts with the bucket's first clock reading.
Opened(entry, now) ==
    IF entry.since = ZeroTime THEN [entry EXCEPT !.since = now] ELSE entry

\* Mutant of Refuse: the refill is not written back, the reading is.
RefuseForgetsRefill(h) ==
    LET c == calls[h] IN
    /\ buckets' = [buckets EXCEPT ![c.tenant] =
                      IF @.last = ZeroTime THEN Refilled(@, c.now) ELSE [@ EXCEPT !.last = c.now]]
    /\ ledger' = [ledger EXCEPT ![c.tenant] = Opened(ledger[c.tenant], c.now)]
    /\ calls' = [calls EXCEPT ![h] = NoCall]
    /\ UNCHANGED <<clock, used, poisoned>>

\* A refused call stores the refilled bucket and holds nothing.
Refuse(h) ==
    LET c == calls[h] IN
    /\ buckets' = [buckets EXCEPT ![c.tenant] = Refilled(buckets[c.tenant], c.now)]
    /\ ledger' = [ledger EXCEPT ![c.tenant] = Opened(ledger[c.tenant], c.now)]
    /\ calls' = [calls EXCEPT ![h] = NoCall]
    /\ UNCHANGED <<clock, used, poisoned>>

RejectTenant(h) ==
    /\ calls[h].state = "called"
    /\ ~poisoned
    /\ ~TenantHasTokens(h)
    /\ Refuse(h)

RejectGlobal(h) ==
    /\ calls[h].state = "called"
    /\ ~poisoned
    /\ TenantHasTokens(h)
    /\ ~GlobalHasTokens(h)
    /\ Refuse(h)

Charged(b, cost) == [b EXCEPT !.tokens = b.tokens - cost]

Grant(h) ==
    LET c == calls[h] IN
    /\ c.state = "called"
    /\ ~poisoned
    /\ TenantHasTokens(h)
    /\ GlobalHasTokens(h)
    /\ buckets' = [buckets EXCEPT ![c.tenant] = Charged(Refilled(buckets[c.tenant], c.now), c.cost)]
    /\ used' = used + c.cost
    /\ calls' = [calls EXCEPT ![h].state = "held"]
    /\ ledger' = [ledger EXCEPT ![c.tenant] =
                     [since |-> Opened(ledger[c.tenant], c.now).since,
                      charged |-> ledger[c.tenant].charged + c.cost]]
    /\ UNCHANGED <<clock, poisoned>>

\* Mutant of ReleaseOnce: the tokens are not given back.
ReleaseKeepsTokens(h) ==
    /\ UNCHANGED <<used, poisoned>>
    /\ calls' = [calls EXCEPT ![h].state = "released"]

\* sync.Once runs the body for the first call only.  The body panics while it
\* holds the mutex if the lease is larger than what is accounted as used.
ReleaseOnce(h) ==
    /\ IF calls[h].cost > used
       THEN poisoned' = TRUE /\ UNCHANGED used
       ELSE used' = used - calls[h].cost /\ UNCHANGED poisoned
    /\ calls' = [calls EXCEPT ![h].state = "released"]

\* Mutant of Release: without sync.Once every call gives the tokens back.
ReleaseEveryTime(h) ==
    /\ calls[h].state \in {"held", "released"}
    /\ ~poisoned
    /\ ReleaseOnce(h)
    /\ UNCHANGED <<clock, buckets, ledger>>

Release(h) ==
    /\ calls[h].state \in {"held", "released"}
    /\ ~poisoned
    /\ IF calls[h].state = "held"
       THEN ReleaseOnce(h)
       ELSE UNCHANGED <<used, poisoned, calls>>
    /\ UNCHANGED <<clock, buckets, ledger>>

\* handleChat returned: the lease is garbage, the goroutine serves another request.
Return(h) ==
    /\ calls[h].state = "released"
    /\ calls' = [calls EXCEPT ![h] = NoCall]
    /\ UNCHANGED <<clock, used, buckets, poisoned, ledger>>

Tick ==
    /\ clock < MaxClock
    /\ clock' = clock + 1
    /\ UNCHANGED <<used, buckets, calls, poisoned, ledger>>

Next ==
    \/ Tick
    \/ \E h \in Handlers :
          \/ \E tenant \in Tenants \union {NoTenant}, cost \in Costs : Call(h, tenant, cost)
          \/ RejectTenant(h)
          \/ RejectGlobal(h)
          \/ Grant(h)
          \/ Release(h)
          \/ Return(h)

Spec == Init /\ [][Next]_vars

-----------------------------------------------------------------------------
Held(h) == calls[h].state = "held"

\* The cost of the live lease of each handler, 0 where there is none.
Leases == [h \in Handlers |-> IF Held(h) THEN calls[h].cost ELSE 0]

(* Controller.used is exactly the sum of the leases that were granted and   *)
(* not yet released, whatever the interleaving of Reserve, Release and a    *)
(* repeated Release (admission.go, lines 72-79 and 82-94), and that sum     *)
(* respects the configured global limit.                                    *)
Accounting ==
    /\ used = Total(Leases, GlobalInFlightTokens)
    /\ used <= GlobalInFlightTokens

(* The panic "admission reservation underflow" in Release cannot be         *)
(* reached.  It would fire with the mutex held and stop admission for good. *)
NoUnderflow == ~poisoned

(* The token bucket's contract over the life of a bucket: a tenant is never *)
(* charged more than one burst plus the refill of the time that has really  *)
(* passed, although readings taken before the lock reach the bucket out of  *)
(* order and its "last" moves backwards.                                    *)
RateBound ==
    \A t \in Tenants :
        ledger[t].charged <= TenantBurstTokens
            + (IF ledger[t].since = ZeroTime THEN 0
               ELSE TenantRatePerSecond * (clock - ledger[t].since))

(* What tenant t could be granted by a call that reads the clock now. *)
Entitlement(t) ==
    IF buckets[t].last = ZeroTime THEN TenantBurstTokens
    ELSE Least(TenantBurstTokens,
               buckets[t].tokens + TenantRatePerSecond * (clock - buckets[t].last))

(* A refused Reserve costs the tenant nothing, and a granted one at most    *)
(* its cost: the write-back of a bucket refilled with a stale reading never *)
(* destroys tokens that the tenant had already earned, nor creates any for  *)
(* a refused call.                                                          *)
EntitlementStep ==
    \A h \in Handlers, t \in Tenants :
        (calls[h].state = "called" /\ calls[h].tenant = t) =>
            /\ (calls[h].state = "idle")' => Entitlement(t)' = Entitlement(t)
            /\ Held(h)' => Entitlement(t)' >= Entitlement(t) - calls[h].cost

EntitlementKept == [][EntitlementStep]_vars

-----------------------------------------------------------------------------
(* The inductive strengthening.  A call in progress carries a reading that  *)
(* is not in the future, and a lease never exceeds the global limit.        *)
CallsSound ==
    \A h \in Handlers :
        /\ calls[h].state # "idle" =>
              /\ calls[h].tenant \in Tenants
              /\ calls[h].cost \in Costs \ {0}
              /\ calls[h].now <= clock
        /\ Held(h) => calls[h].cost <= GlobalInFlightTokens

(* For a bucket b and its ledger entry e at time time: what was charged     *)
(* plus what is left never exceeds a burst plus the refill up to b.last,    *)
(* and a bucket in debt (a stale reading took it back in time) is out of it *)
(* at the present time.                                                     *)
BucketSound(b, e, time) ==
    /\ b.last = ZeroTime <=> e.since = ZeroTime
    /\ b.last = ZeroTime => e.charged = 0
    /\ b.last # ZeroTime =>
          /\ b.last <= time
          /\ b.tokens <= TenantBurstTokens
          /\ 0 <= b.tokens + TenantRatePerSecond * (time - b.last)
          /\ e.charged + b.tokens <= TenantBurstTokens + TenantRatePerSecond * (b.last - e.since)

(* The invariant that makes Accounting, NoUnderflow and RateBound           *)
(* inductive: the books balance and every call and bucket is sound.         *)
AdmissionInv ==
    /\ TypeOK
    /\ CallsSound
    /\ \A t \in Tenants : BucketSound(buckets[t], ledger[t], clock)
    /\ Accounting
    /\ NoUnderflow

-----------------------------------------------------------------------------
(* The controller implements the budget the gateway relies on. *)
Budget == INSTANCE TokenBudget WITH leases <- Leases

(* Every behaviour of the controller, seen through its leases, is a         *)
(* behaviour of TokenBudget: whole grants within the limit, exact release.  *)
BudgetRefinement == Budget!BudgetSpec
=============================================================================
