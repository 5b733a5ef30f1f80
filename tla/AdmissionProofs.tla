--------------------------- MODULE AdmissionProofs ---------------------------
(***************************************************************************)
(* Proofs about Admission.tla for every number of handlers, every set of    *)
(* tenants and costs and every limit that New accepts.                      *)
(***************************************************************************)
EXTENDS Admission

USE DEF ZeroTime

-----------------------------------------------------------------------------
(* Refilling over a longer time adds no less. *)
LEMMA RefillMonotone ==
    ASSUME NEW r \in Nat, NEW a \in Int, NEW b \in Int, a <= b
    PROVE  r * a \in Int /\ r * b \in Int /\ r * a <= r * b
<1>1. PICK d \in Nat : b = a + d
  <2>1. b - a \in Nat /\ b = a + (b - a)
    OBVIOUS
  <2> QED
    BY <2>1
<1>2. r * d \in Nat
  OBVIOUS
<1>3. r * b = r * a + r * d
  BY <1>1
<1> QED
  BY <1>2, <1>3

(* The refill of two consecutive spans is the refill of both together. *)
LEMMA RefillAdds ==
    ASSUME NEW r \in Nat, NEW x \in Int, NEW y \in Int, NEW z \in Int
    PROVE  /\ r * (z - x) = r * (z - y) + r * (y - x)
           /\ (y - x) * r = r * (y - x)
OBVIOUS

(* Refilled returns a bucket that is never above the burst. *)
LEMMA RefilledType ==
    ASSUME NEW b \in BucketType, NEW now \in 0 .. MaxClock
    PROVE  /\ Refilled(b, now) \in BucketType
           /\ Refilled(b, now).last = now
           /\ Refilled(b, now).tokens <= TenantBurstTokens
<1> USE LimitsAssumption, ClockAssumption
<1>1. CASE b.last = ZeroTime
  BY <1>1 DEF Refilled, BucketType
<1>2. CASE b.last # ZeroTime
  <2> DEFINE refill == (now - b.last) * TenantRatePerSecond
  <2>1. b.tokens \in Int /\ b.last \in Int /\ now \in Int
    BY DEF BucketType
  <2>2. refill \in Int
    BY <2>1
  <2> HIDE DEF refill
  <2>3. /\ Least(TenantBurstTokens, b.tokens + refill) \in Int
        /\ Least(TenantBurstTokens, b.tokens + refill) <= TenantBurstTokens
    BY <2>1, <2>2 DEF Least
  <2>4. Refilled(b, now) = [tokens |-> Least(TenantBurstTokens, b.tokens + refill), last |-> now]
    BY <1>2 DEF Refilled, refill
  <2> QED
    BY <2>3, <2>4 DEF BucketType
<1> QED
  BY <1>1, <1>2

(* Storing a refilled bucket, as a refused Reserve does, keeps it sound     *)
(* whatever the age of the clock reading.                                   *)
LEMMA RefuseKeepsBucketSound ==
    ASSUME NEW b \in BucketType, NEW e \in EntryType,
           NEW time \in 0 .. MaxClock, NEW now \in 0 .. time,
           BucketSound(b, e, time)
    PROVE  BucketSound(Refilled(b, now), Opened(e, now), time)
<1> USE LimitsAssumption, ClockAssumption
<1> DEFINE R == TenantRatePerSecond
           B == TenantBurstTokens
<1>1. R * (time - now) \in Int /\ 0 <= R * (time - now)
  <2>1. R * 0 <= R * (time - now) /\ R * (time - now) \in Int
    BY RefillMonotone
  <2> QED
    BY <2>1
<1>2. CASE b.last = ZeroTime
  <2>1. e.since = ZeroTime /\ e.charged = 0
    BY <1>2 DEF BucketSound
  <2>2. Refilled(b, now) = [tokens |-> B, last |-> now]
    BY <1>2 DEF Refilled
  <2>3. Opened(e, now).since = now /\ Opened(e, now).charged = 0
    BY <2>1 DEF Opened, EntryType
  <2> QED
    BY <1>1, <2>2, <2>3 DEF BucketSound
<1>3. CASE b.last # ZeroTime
  <2>1. /\ b.tokens \in Int /\ b.last \in Int
        /\ e.since \in Int /\ e.charged \in Nat
        /\ e.since # ZeroTime
        /\ Opened(e, now) = e
    BY <1>3 DEF BucketSound, BucketType, EntryType, Opened
  <2>2. /\ 0 <= b.tokens + R * (time - b.last)
        /\ e.charged + b.tokens <= B + R * (b.last - e.since)
    BY <1>3 DEF BucketSound
  <2> DEFINE refill == R * (now - b.last)
  <2>3. refill \in Int /\ R * (b.last - e.since) \in Int /\ R * (now - e.since) \in Int
    BY <2>1
  <2>4. /\ R * (time - b.last) = R * (time - now) + refill
        /\ R * (now - e.since) = refill + R * (b.last - e.since)
        /\ (now - b.last) * R = refill
    BY <2>1, RefillAdds
  <2>5. /\ Refilled(b, now).last = now
        /\ Refilled(b, now).tokens = Least(B, b.tokens + refill)
    BY <1>3, <2>4 DEF Refilled
  <2> HIDE DEF refill
  <2>6. CASE B < b.tokens + refill
    <3>1. Refilled(b, now).tokens = B
      BY <2>5, <2>6 DEF Least
    <3>2. 0 <= B + R * (time - now)
      BY <1>1
    <3>3. e.charged + B <= B + R * (now - e.since)
      BY <2>1, <2>2, <2>3, <2>4, <2>6
    <3> QED
      BY <2>1, <2>5, <3>1, <3>2, <3>3 DEF BucketSound
  <2>7. CASE ~(B < b.tokens + refill)
    <3>1. Refilled(b, now).tokens = b.tokens + refill
      BY <2>5, <2>7 DEF Least
    <3>2. 0 <= b.tokens + refill + R * (time - now)
      BY <1>1, <2>1, <2>2, <2>3, <2>4
    <3>3. e.charged + (b.tokens + refill) <= B + R * (now - e.since)
      BY <2>1, <2>2, <2>3, <2>4
    <3>4. b.tokens + refill <= B
      BY <2>1, <2>3, <2>7
    <3> QED
      BY <2>1, <2>5, <3>1, <3>2, <3>3, <3>4 DEF BucketSound
  <2> QED
    BY <2>6, <2>7
<1> QED
  BY <1>2, <1>3

(* Charging a refilled bucket that covers the cost keeps it sound. *)
LEMMA GrantKeepsBucketSound ==
    ASSUME NEW b \in BucketType, NEW e \in EntryType,
           NEW time \in 0 .. MaxClock, NEW now \in 0 .. time, NEW cost \in Nat,
           cost <= Refilled(b, now).tokens,
           BucketSound(b, e, time)
    PROVE  BucketSound(Charged(Refilled(b, now), cost),
                       [since |-> Opened(e, now).since, charged |-> e.charged + cost],
                       time)
<1> USE LimitsAssumption, ClockAssumption
<1> DEFINE rb == Refilled(b, now)
           oe == Opened(e, now)
           R == TenantRatePerSecond
<1>1. now \in 0 .. MaxClock
  OBVIOUS
<1>2. rb \in BucketType /\ rb.last = now /\ rb.tokens <= TenantBurstTokens
  BY <1>1, RefilledType
<1>3. BucketSound(rb, oe, time)
  BY RefuseKeepsBucketSound
<1>4. oe \in EntryType /\ oe.charged = e.charged
  BY <1>1 DEF Opened, EntryType
<1>5. oe.charged + rb.tokens <= TenantBurstTokens + R * (rb.last - oe.since)
  BY <1>2, <1>3 DEF BucketSound
<1>6. R * (rb.last - oe.since) \in Int
  BY <1>2, <1>4 DEF EntryType
<1>7. R * (time - now) \in Int /\ 0 <= R * (time - now)
  <2>1. R * 0 <= R * (time - now) /\ R * (time - now) \in Int
    BY RefillMonotone
  <2> QED
    BY <2>1
<1>8. Charged(rb, cost).last = now /\ Charged(rb, cost).tokens = rb.tokens - cost
  BY <1>2 DEF Charged, BucketType
<1>9. rb.tokens \in Int /\ e.charged \in Nat /\ oe.since \in Int
  BY <1>2, <1>4 DEF BucketType, EntryType
<1>10. oe.since # ZeroTime
  BY <1>2, <1>3 DEF BucketSound
<1> HIDE DEF rb, oe
<1>11. 0 <= (rb.tokens - cost) + R * (time - now)
  BY <1>7, <1>9 DEF rb
<1>12. (e.charged + cost) + (rb.tokens - cost) <= TenantBurstTokens + R * (now - oe.since)
  BY <1>2, <1>4, <1>5, <1>6, <1>9
<1>13. rb.tokens - cost <= TenantBurstTokens
  BY <1>2, <1>9
<1> QED
  BY <1>8, <1>9, <1>10, <1>11, <1>12, <1>13 DEF BucketSound, rb, oe

(* The passage of time keeps a bucket sound. *)
LEMMA TickKeepsBucketSound ==
    ASSUME NEW b \in BucketType, NEW e \in EntryType, NEW time \in Nat,
           BucketSound(b, e, time)
    PROVE  BucketSound(b, e, time + 1)
<1> USE LimitsAssumption
<1>1. b.last \in Int /\ b.tokens \in Int
  BY DEF BucketType
<1>2. /\ TenantRatePerSecond * (time - b.last) \in Int
      /\ TenantRatePerSecond * ((time + 1) - b.last) \in Int
      /\ TenantRatePerSecond * (time - b.last) <= TenantRatePerSecond * ((time + 1) - b.last)
  BY <1>1, RefillMonotone
<1> QED
  BY <1>1, <1>2 DEF BucketSound

-----------------------------------------------------------------------------
(* The leases form a function of bounded costs, so that Total sums them. *)
LEMMA LeasesType ==
    ASSUME TypeOK, CallsSound
    PROVE  Leases \in [Handlers -> 0 .. GlobalInFlightTokens]
BY LimitsAssumption DEF TypeOK, CallType, CallsSound, Leases, Held

(* The initial state satisfies the invariant. *)
LEMMA InitInv == Init => AdmissionInv
<1> SUFFICES ASSUME Init PROVE AdmissionInv
  OBVIOUS
<1> USE LimitsAssumption, ClockAssumption, TenantsAssumption
<1>1. TypeOK
  <2>1. EmptyBucket \in BucketType
    BY DEF EmptyBucket, BucketType
  <2>2. NoEntry \in EntryType
    BY DEF NoEntry, EntryType
  <2>3. NoCall \in CallType
    BY DEF NoCall, CallType
  <2>4. clock \in 0 .. MaxClock /\ used \in 0 .. GlobalInFlightTokens
    BY DEF Init
  <2>5. /\ buckets \in [Tenants -> BucketType]
        /\ calls \in [Handlers -> CallType]
        /\ ledger \in [Tenants -> EntryType]
    BY <2>1, <2>2, <2>3, Zenon DEF Init
  <2>6. poisoned \in BOOLEAN
    BY Zenon DEF Init
  <2> QED
    BY <2>4, <2>5, <2>6 DEF TypeOK
<1>2. CallsSound
  BY DEF Init, CallsSound, NoCall, Held
<1>3. \A t \in Tenants : BucketSound(buckets[t], ledger[t], clock)
  BY DEF Init, BucketSound, EmptyBucket, NoEntry
<1>4. Leases = [h \in Handlers |-> 0]
  BY DEF Init, Leases, Held, NoCall
<1>5. Accounting
  BY <1>4, TotalZero DEF Accounting, Init
<1> QED
  BY <1>1, <1>2, <1>3, <1>5 DEF AdmissionInv, NoUnderflow, Init

(* Entering Reserve changes no lease and no bucket. *)
LEMMA CallInv ==
    ASSUME AdmissionInv, NEW h \in Handlers, NEW tenant \in Tenants \union {NoTenant},
           NEW cost \in Costs, Call(h, tenant, cost)
    PROVE  AdmissionInv'
<1> USE LimitsAssumption, ClockAssumption, TenantsAssumption, CostsAssumption
<1>1. BucketOf(tenant) \in Tenants
  BY DEF BucketOf
<1>2. TypeOK'
  BY <1>1 DEF AdmissionInv, TypeOK, CallType, Call
<1>3. CallsSound'
  BY <1>1 DEF AdmissionInv, TypeOK, CallType, CallsSound, Call, Held
<1>4. \A t \in Tenants : BucketSound(buckets[t], ledger[t], clock)'
  BY DEF AdmissionInv, BucketSound, Call
<1>5. Leases' = Leases
  BY DEF AdmissionInv, TypeOK, CallType, Leases, Held, Call
<1>6. Accounting'
  BY <1>5 DEF AdmissionInv, Accounting, Call
<1> QED
  BY <1>2, <1>3, <1>4, <1>6 DEF AdmissionInv, NoUnderflow, Call

(* A refused Reserve stores the refilled bucket and keeps every lease. *)
LEMMA RefuseInv ==
    ASSUME AdmissionInv, NEW h \in Handlers, calls[h].state = "called", Refuse(h)
    PROVE  AdmissionInv'
<1> USE LimitsAssumption, ClockAssumption, TenantsAssumption
<1> DEFINE c == calls[h]
<1>1. /\ c.tenant \in Tenants
      /\ c.now \in 0 .. MaxClock /\ c.now \in 0 .. clock /\ clock \in 0 .. MaxClock
      /\ buckets[c.tenant] \in BucketType
      /\ ledger[c.tenant] \in EntryType
  BY DEF AdmissionInv, TypeOK, CallType, CallsSound, BucketType, EntryType
<1>2. Refilled(buckets[c.tenant], c.now) \in BucketType
  BY <1>1, RefilledType
<1>3. Opened(ledger[c.tenant], c.now) \in EntryType
  BY <1>1 DEF Opened, EntryType
<1>4. TypeOK'
  BY <1>1, <1>2, <1>3 DEF AdmissionInv, TypeOK, CallType, Refuse, NoCall, BucketType, EntryType
<1>5. CallsSound'
  BY DEF AdmissionInv, TypeOK, CallType, CallsSound, Refuse, Held, NoCall
<1>6. BucketSound(Refilled(buckets[c.tenant], c.now), Opened(ledger[c.tenant], c.now), clock)
  BY <1>1, RefuseKeepsBucketSound DEF AdmissionInv
<1>7. ASSUME NEW t \in Tenants
      PROVE  BucketSound(buckets'[t], ledger'[t], clock')
  <2>1. CASE t = c.tenant
    BY <1>6, <2>1 DEF Refuse, AdmissionInv, TypeOK
  <2>2. CASE t # c.tenant
    <3>1. buckets'[t] = buckets[t] /\ ledger'[t] = ledger[t] /\ clock' = clock
      BY <2>2 DEF Refuse, AdmissionInv, TypeOK
    <3> QED
      BY <3>1 DEF AdmissionInv
  <2> QED
    BY <2>1, <2>2
<1>8. Leases' = Leases
  BY DEF AdmissionInv, TypeOK, CallType, Leases, Held, Refuse, NoCall
<1>9. Accounting'
  BY <1>8 DEF AdmissionInv, Accounting, Refuse
<1> QED
  BY <1>4, <1>5, <1>7, <1>9 DEF AdmissionInv, NoUnderflow, Refuse

(* A granted Reserve adds exactly its cost to both books. *)
LEMMA GrantInv ==
    ASSUME AdmissionInv, NEW h \in Handlers, Grant(h)
    PROVE  AdmissionInv'
<1> USE LimitsAssumption, ClockAssumption, TenantsAssumption, HandlersAssumption
<1> DEFINE c == calls[h]
           b == buckets[c.tenant]
           e == ledger[c.tenant]
           entry == [since |-> Opened(e, c.now).since, charged |-> e.charged + c.cost]
<1>1. /\ c.tenant \in Tenants /\ c.cost \in Nat /\ c.cost # 0
      /\ c.now \in 0 .. MaxClock /\ c.now \in 0 .. clock /\ clock \in 0 .. MaxClock
      /\ b \in BucketType
      /\ e \in EntryType
  BY DEF AdmissionInv, TypeOK, CallType, CallsSound, BucketType, EntryType, Grant
<1>2. used \in 0 .. GlobalInFlightTokens /\ c.cost <= GlobalInFlightTokens - used
  BY DEF AdmissionInv, TypeOK, CallType, Grant, GlobalHasTokens
<1>3. Refilled(b, c.now) \in BucketType
  BY <1>1, RefilledType
<1>4. Charged(Refilled(b, c.now), c.cost) \in BucketType
  BY <1>1, <1>3 DEF Charged, BucketType
<1>5. entry \in EntryType
  BY <1>1 DEF Opened, EntryType
<1>6. TypeOK'
  <2>1. used' \in 0 .. GlobalInFlightTokens
    BY <1>1, <1>2 DEF Grant
  <2>2. buckets' \in [Tenants -> BucketType] /\ ledger' \in [Tenants -> EntryType]
    BY <1>4, <1>5 DEF AdmissionInv, TypeOK, CallType, Grant, BucketType, EntryType
  <2> QED
    BY <2>1, <2>2 DEF AdmissionInv, TypeOK, CallType, Grant, BucketType, EntryType
<1>7. CallsSound'
  BY <1>1, <1>2 DEF AdmissionInv, TypeOK, CallType, CallsSound, Grant, Held
<1>8. BucketSound(Charged(Refilled(b, c.now), c.cost), entry, clock)
  BY <1>1, GrantKeepsBucketSound DEF AdmissionInv, Grant, TenantHasTokens
<1>9. ASSUME NEW t \in Tenants
      PROVE  BucketSound(buckets'[t], ledger'[t], clock')
  <2>1. CASE t = c.tenant
    BY <1>8, <2>1 DEF Grant, AdmissionInv, TypeOK
  <2>2. CASE t # c.tenant
    <3>1. buckets'[t] = buckets[t] /\ ledger'[t] = ledger[t] /\ clock' = clock
      BY <2>2 DEF Grant, AdmissionInv, TypeOK
    <3> QED
      BY <3>1 DEF AdmissionInv
  <2> QED
    BY <2>1, <2>2
<1>10. Leases' = [Leases EXCEPT ![h] = c.cost] /\ Leases[h] = 0
  BY <1>1 DEF AdmissionInv, TypeOK, CallType, Leases, Held, Grant
<1>11. Leases \in [Handlers -> 0 .. GlobalInFlightTokens]
  BY LeasesType DEF AdmissionInv
<1>12. Leases' \in [Handlers -> 0 .. GlobalInFlightTokens]
  BY <1>1, <1>2, <1>10, <1>11
<1>13. Total(Leases', GlobalInFlightTokens)
           = Total(Leases, GlobalInFlightTokens) - Leases[h] + Leases'[h]
  <2>1. \A i \in Handlers \ {h} : Leases'[i] = Leases[i]
    BY <1>10, <1>11
  <2> QED
    BY <1>11, <1>12, <2>1, TotalUpdate
<1>14. Accounting'
  BY <1>1, <1>2, <1>10, <1>11, <1>13 DEF AdmissionInv, Accounting, Grant
<1> QED
  BY <1>6, <1>7, <1>9, <1>14 DEF AdmissionInv, NoUnderflow, Grant

(* Release gives back what the lease holds; the books show that it is there, *)
(* so the panic branch is dead.                                             *)
LEMMA ReleaseInv ==
    ASSUME AdmissionInv, NEW h \in Handlers, Release(h)
    PROVE  AdmissionInv'
<1> USE LimitsAssumption, ClockAssumption, TenantsAssumption, HandlersAssumption
<1>1. Leases \in [Handlers -> 0 .. GlobalInFlightTokens]
  BY LeasesType DEF AdmissionInv
<1>2. CASE Held(h)
  <2>1. Leases[h] = calls[h].cost
    BY <1>2 DEF Leases
  <2>2. calls[h].cost <= used /\ calls[h].cost \in Nat
    BY <1>1, <2>1, TotalBoundsValue DEF AdmissionInv, Accounting, TypeOK
  <2>3. /\ used' = used - calls[h].cost
        /\ UNCHANGED <<poisoned, clock, buckets, ledger>>
        /\ calls' = [calls EXCEPT ![h].state = "released"]
    BY <1>2, <2>2 DEF Release, ReleaseOnce, Held, AdmissionInv, TypeOK
  <2>4. TypeOK'
    BY <2>2, <2>3 DEF AdmissionInv, TypeOK, CallType
  <2>5. CallsSound'
    BY <1>2, <2>3 DEF AdmissionInv, TypeOK, CallType, CallsSound, Held
  <2>6. \A t \in Tenants : BucketSound(buckets[t], ledger[t], clock)'
    BY <2>3 DEF AdmissionInv, BucketSound
  <2>7. Leases' = [Leases EXCEPT ![h] = 0]
    BY <2>3 DEF AdmissionInv, TypeOK, CallType, Leases, Held
  <2>8. Total(Leases', GlobalInFlightTokens)
            = Total(Leases, GlobalInFlightTokens) - Leases[h] + Leases'[h]
    <3>1. /\ \A i \in Handlers \ {h} : Leases'[i] = Leases[i]
          /\ Leases' \in [Handlers -> 0 .. GlobalInFlightTokens]
      BY <1>1, <2>7
    <3> QED
      BY <1>1, <3>1, TotalUpdate
  <2>9. Accounting'
    BY <1>1, <2>1, <2>2, <2>3, <2>7, <2>8 DEF AdmissionInv, Accounting, TypeOK
  <2> QED
    BY <2>3, <2>4, <2>5, <2>6, <2>9 DEF AdmissionInv, NoUnderflow
<1>3. CASE ~Held(h)
  <2>1. UNCHANGED vars
    BY <1>3 DEF Release, Held, vars
  <2> QED
    BY <2>1 DEF vars, AdmissionInv, TypeOK, CallsSound, BucketSound, Accounting, NoUnderflow,
                Leases, Held
<1> QED
  BY <1>2, <1>3

(* The end of the handler changes no lease. *)
LEMMA ReturnInv ==
    ASSUME AdmissionInv, NEW h \in Handlers, Return(h)
    PROVE  AdmissionInv'
<1> USE LimitsAssumption, ClockAssumption, TenantsAssumption
<1>1. TypeOK'
  BY DEF AdmissionInv, TypeOK, CallType, Return, NoCall
<1>2. CallsSound'
  BY DEF AdmissionInv, TypeOK, CallType, CallsSound, Return, NoCall, Held
<1>3. \A t \in Tenants : BucketSound(buckets[t], ledger[t], clock)'
  BY DEF AdmissionInv, BucketSound, Return
<1>4. Leases' = Leases
  BY DEF AdmissionInv, TypeOK, CallType, Leases, Held, Return, NoCall
<1> QED
  BY <1>1, <1>2, <1>3, <1>4 DEF AdmissionInv, Accounting, NoUnderflow, Return

(* Time passing changes no book. *)
LEMMA TickInv ==
    ASSUME AdmissionInv, Tick
    PROVE  AdmissionInv'
<1> USE LimitsAssumption, ClockAssumption
<1>1. TypeOK'
  BY DEF AdmissionInv, TypeOK, CallType, Tick
<1>2. CallsSound'
  BY DEF AdmissionInv, TypeOK, CallType, CallsSound, Tick, Held
<1>3. ASSUME NEW t \in Tenants
      PROVE  BucketSound(buckets[t], ledger[t], clock)'
  <2>1. buckets[t] \in BucketType /\ ledger[t] \in EntryType /\ clock \in Nat
    BY DEF AdmissionInv, TypeOK, CallType, BucketType, EntryType
  <2>2. BucketSound(buckets[t], ledger[t], clock + 1)
    BY <2>1, TickKeepsBucketSound DEF AdmissionInv
  <2>3. buckets' = buckets /\ ledger' = ledger /\ clock' = clock + 1
    BY DEF Tick
  <2> QED
    BY <2>2, <2>3
<1>4. Leases' = Leases
  BY DEF Leases, Held, Tick
<1> QED
  BY <1>1, <1>2, <1>3, <1>4 DEF AdmissionInv, Accounting, NoUnderflow, Tick

(* The invariant is inductive. *)
LEMMA NextInv == AdmissionInv /\ [Next]_vars => AdmissionInv'
<1> SUFFICES ASSUME AdmissionInv, [Next]_vars PROVE AdmissionInv'
  OBVIOUS
<1>1. CASE Tick
  BY <1>1, TickInv
<1>2. ASSUME NEW h \in Handlers, NEW tenant \in Tenants \union {NoTenant},
             NEW cost \in Costs, Call(h, tenant, cost)
      PROVE  AdmissionInv'
  BY <1>2, CallInv
<1>3. ASSUME NEW h \in Handlers, RejectTenant(h) PROVE AdmissionInv'
  BY <1>3, RefuseInv DEF RejectTenant
<1>4. ASSUME NEW h \in Handlers, RejectGlobal(h) PROVE AdmissionInv'
  BY <1>4, RefuseInv DEF RejectGlobal
<1>5. ASSUME NEW h \in Handlers, Grant(h) PROVE AdmissionInv'
  BY <1>5, GrantInv
<1>6. ASSUME NEW h \in Handlers, Release(h) PROVE AdmissionInv'
  BY <1>6, ReleaseInv
<1>7. ASSUME NEW h \in Handlers, Return(h) PROVE AdmissionInv'
  BY <1>7, ReturnInv
<1>8. CASE UNCHANGED vars
  BY <1>8 DEF vars, AdmissionInv, TypeOK, CallsSound, BucketSound, Accounting, NoUnderflow,
              Leases, Held
<1> QED
  BY <1>1, <1>2, <1>3, <1>4, <1>5, <1>6, <1>7, <1>8 DEF Next

-----------------------------------------------------------------------------
(* The invariant holds of every reachable state. *)
THEOREM Invariance == Spec => []AdmissionInv
BY InitInv, NextInv, PTL DEF Spec

(* Controller.used is a number between 0 and the limit in every reachable   *)
(* state, and the other variables have their types.                         *)
THEOREM TypeCorrectness == Spec => []TypeOK
<1>1. AdmissionInv => TypeOK
  BY DEF AdmissionInv
<1> QED
  BY <1>1, Invariance, PTL

(* Controller.used is the sum of the live leases and within the global       *)
(* limit, for any number of concurrent handlers.                             *)
THEOREM AccountingCorrect == Spec => []Accounting
<1>1. AdmissionInv => Accounting
  BY DEF AdmissionInv
<1> QED
  BY <1>1, Invariance, PTL

(* The underflow panic in Release is unreachable. *)
THEOREM UnderflowUnreachable == Spec => []NoUnderflow
<1>1. AdmissionInv => NoUnderflow
  BY DEF AdmissionInv
<1> QED
  BY <1>1, Invariance, PTL

(* No interleaving of stale clock readings lets a tenant exceed one burst   *)
(* plus the refill of the elapsed time.                                     *)
THEOREM RateBounded == Spec => []RateBound
<1>1. AdmissionInv => RateBound
  <2> SUFFICES ASSUME AdmissionInv, NEW t \in Tenants
               PROVE  ledger[t].charged <= TenantBurstTokens
                          + (IF ledger[t].since = ZeroTime THEN 0
                             ELSE TenantRatePerSecond * (clock - ledger[t].since))
    BY DEF RateBound
  <2> USE LimitsAssumption, ClockAssumption
  <2> DEFINE b == buckets[t]
             e == ledger[t]
             R == TenantRatePerSecond
  <2>1. /\ b.tokens \in Int /\ b.last \in Int /\ e.since \in Int /\ e.charged \in Nat
        /\ clock \in Int
    BY DEF AdmissionInv, TypeOK, BucketType, EntryType
  <2>2. BucketSound(b, e, clock)
    BY DEF AdmissionInv
  <2>3. CASE e.since = ZeroTime
    BY <2>2, <2>3 DEF BucketSound
  <2>4. CASE e.since # ZeroTime
    <3>1. /\ 0 <= b.tokens + R * (clock - b.last)
          /\ e.charged + b.tokens <= TenantBurstTokens + R * (b.last - e.since)
      BY <2>2, <2>4 DEF BucketSound
    <3>2. R * (clock - e.since) = R * (clock - b.last) + R * (b.last - e.since)
      BY <2>1, RefillAdds
    <3>3. R * (clock - b.last) \in Int /\ R * (b.last - e.since) \in Int
      BY <2>1
    <3>4. e.charged <= TenantBurstTokens + R * (clock - e.since)
      BY <2>1, <3>1, <3>2, <3>3
    <3> QED
      BY <2>4, <3>4
  <2> QED
    BY <2>3, <2>4
<1> QED
  BY <1>1, Invariance, PTL

-----------------------------------------------------------------------------
(* What a call that reads the clock at time could be granted from bucket b. *)
EntitlementOf(b, time) ==
    IF b.last = ZeroTime THEN TenantBurstTokens
    ELSE Least(TenantBurstTokens, b.tokens + TenantRatePerSecond * (time - b.last))

(* Storing the refilled bucket changes no entitlement; charging it takes at *)
(* most the cost.                                                           *)
LEMMA RefillKeepsEntitlement ==
    ASSUME NEW b \in BucketType, NEW time \in 0 .. MaxClock, NEW now \in 0 .. time,
           NEW cost \in Nat
    PROVE  /\ EntitlementOf(Refilled(b, now), time) = EntitlementOf(b, time)
           /\ EntitlementOf(Charged(Refilled(b, now), cost), time)
                  >= EntitlementOf(b, time) - cost
<1> USE LimitsAssumption, ClockAssumption
<1> DEFINE R == TenantRatePerSecond
           B == TenantBurstTokens
           rb == Refilled(b, now)
           later == R * (time - now)
<1>1. later \in Int /\ 0 <= later
  <2>1. R * 0 <= R * (time - now) /\ R * (time - now) \in Int
    BY RefillMonotone
  <2> QED
    BY <2>1
<1>2. now \in 0 .. MaxClock
  OBVIOUS
<1>3. rb \in BucketType /\ rb.last = now
  BY <1>2, RefilledType
<1>4. rb.tokens \in Int /\ now # ZeroTime
  BY <1>3 DEF BucketType
<1>5. Charged(rb, cost).last = now /\ Charged(rb, cost).tokens = rb.tokens - cost
  BY <1>3 DEF Charged, BucketType
<1>6. /\ EntitlementOf(rb, time) = Least(B, rb.tokens + later)
      /\ EntitlementOf(Charged(rb, cost), time) = Least(B, (rb.tokens - cost) + later)
  BY <1>3, <1>4, <1>5 DEF EntitlementOf
<1>7. EntitlementOf(b, time) = Least(B, rb.tokens + later)
  <2>1. CASE b.last = ZeroTime
    <3>1. rb.tokens = B
      BY <2>1 DEF Refilled
    <3> HIDE DEF later, rb
    <3>2. Least(B, rb.tokens + later) = B
      BY <1>1, <3>1 DEF Least
    <3> QED
      BY <2>1, <3>2 DEF EntitlementOf
  <2>2. CASE b.last # ZeroTime
    <3> DEFINE refill == R * (now - b.last)
    <3>1. b.tokens \in Int /\ b.last \in Int
      BY DEF BucketType
    <3>2. refill \in Int
      BY <3>1
    <3>3. R * (time - b.last) = later + refill /\ (now - b.last) * R = refill
      BY <3>1, RefillAdds
    <3>4. rb.tokens = Least(B, b.tokens + refill)
      BY <2>2, <3>3 DEF Refilled
    <3>5. EntitlementOf(b, time) = Least(B, b.tokens + (later + refill))
      BY <2>2, <3>3 DEF EntitlementOf
    <3> HIDE DEF later, rb, refill
    <3> QED
      BY <1>1, <1>4, <3>1, <3>2, <3>4, <3>5 DEF Least
  <2> QED
    BY <2>1, <2>2
<1> HIDE DEF later, rb
<1>8. Least(B, (rb.tokens - cost) + later) >= Least(B, rb.tokens + later) - cost
  BY <1>1, <1>4 DEF Least
<1> QED
  BY <1>6, <1>7, <1>8 DEF rb

(* A refused Reserve costs the tenant nothing and a granted one at most its *)
(* cost, in every step of every behaviour.                                  *)
THEOREM EntitlementTheorem == Spec => EntitlementKept
<1>1. AdmissionInv /\ [Next]_vars => [EntitlementStep]_vars
  <2> SUFFICES ASSUME AdmissionInv, Next,
                      NEW h \in Handlers, NEW t \in Tenants,
                      calls[h].state = "called", calls[h].tenant = t
               PROVE  /\ (calls[h].state = "idle")' => Entitlement(t)' = Entitlement(t)
                      /\ Held(h)' => Entitlement(t)' >= Entitlement(t) - calls[h].cost
    BY DEF EntitlementStep
  <2> DEFINE c == calls[h]
  <2>1. /\ buckets[t] \in BucketType /\ clock \in 0 .. MaxClock
        /\ c.now \in 0 .. clock /\ c.cost \in Nat
        /\ c.tenant \in Tenants
    BY DEF AdmissionInv, TypeOK, CallType, CallsSound
  <2>2. /\ Entitlement(t) = EntitlementOf(buckets[t], clock)
        /\ Entitlement(t)' = EntitlementOf(buckets'[t], clock')
    BY DEF Entitlement, EntitlementOf
  <2>3. CASE Refuse(h)
    <3>1. /\ buckets'[t] = Refilled(buckets[t], c.now)
          /\ clock' = clock
          /\ ~Held(h)'
      BY <2>1, <2>3 DEF Refuse, AdmissionInv, TypeOK, Held, NoCall
    <3> QED
      BY <2>1, <2>2, <3>1, RefillKeepsEntitlement
  <2>4. CASE Grant(h)
    <3>1. /\ buckets'[t] = Charged(Refilled(buckets[t], c.now), c.cost)
          /\ clock' = clock
          /\ calls'[h].state = "held"
      BY <2>1, <2>4 DEF Grant, AdmissionInv, TypeOK, CallType
    <3>2. Entitlement(t)' >= Entitlement(t) - c.cost
      BY <2>1, <2>2, <3>1, RefillKeepsEntitlement
    <3> QED
      BY <3>1, <3>2
  <2>5. CASE calls'[h] = calls[h]
    BY <2>5 DEF Held
  <2>6. Refuse(h) \/ Grant(h) \/ calls'[h] = calls[h]
    <3>1. CASE Tick
      BY <3>1 DEF Tick
    <3>2. ASSUME NEW g \in Handlers, g # h, NEW entry, calls' = [calls EXCEPT ![g] = entry]
          PROVE  calls'[h] = calls[h]
      BY <3>2
    <3>3. ASSUME NEW g \in Handlers, g # h,
                 RejectTenant(g) \/ RejectGlobal(g) \/ Grant(g) \/ Release(g) \/ Return(g)
          PROVE  calls'[h] = calls[h]
      <4>1. calls' = calls \/ \E entry : calls' = [calls EXCEPT ![g] = entry]
        BY <3>3 DEF RejectTenant, RejectGlobal, Refuse, Grant, Release, ReleaseOnce, Return
      <4> QED
        BY <3>2, <3>3, <4>1
    <3>4. ASSUME NEW g \in Handlers, NEW tenant, NEW cost, Call(g, tenant, cost)
          PROVE  calls'[h] = calls[h]
      <4>1. g # h /\ \E entry : calls' = [calls EXCEPT ![g] = entry]
        BY <3>4 DEF Call
      <4> QED
        BY <3>2, <4>1
    <3>5. RejectTenant(h) \/ RejectGlobal(h) => Refuse(h)
      BY DEF RejectTenant, RejectGlobal
    <3>6. ~ Release(h) /\ ~ Return(h)
      BY DEF Release, Return
    <3> QED
      BY <3>1, <3>3, <3>4, <3>5, <3>6 DEF Next
  <2> QED
    BY <2>3, <2>4, <2>5, <2>6
<1> QED
  BY <1>1, Invariance, PTL DEF Spec, EntitlementKept

-----------------------------------------------------------------------------
(* The controller implements TokenBudget: its leases start empty and every  *)
(* step of Reserve, Release or the clock is a whole grant, an exact give    *)
(* back or invisible to the budget.                                         *)
THEOREM RefinesTokenBudget == Spec => BudgetRefinement
<1>1. Init => Budget!BudgetInit
  BY DEF Init, Budget!BudgetInit, Budget!NoLease, Leases, Held, NoCall
<1>2. AdmissionInv /\ [Next]_vars => [Budget!BudgetNext]_(Budget!budgetVars)
  <2> SUFFICES ASSUME AdmissionInv, [Next]_vars
               PROVE  Budget!BudgetNext \/ UNCHANGED Budget!budgetVars
    OBVIOUS
  <2> USE LimitsAssumption, CostsAssumption
  <2>1. ASSUME NEW h \in Handlers, Grant(h) PROVE Budget!BudgetNext
    <3>1. /\ Leases[h] = 0
          /\ Leases' = [Leases EXCEPT ![h] = calls[h].cost]
          /\ used' = used + calls[h].cost
          /\ calls[h].cost <= GlobalInFlightTokens - used
      BY <2>1 DEF AdmissionInv, TypeOK, CallType, Leases, Held, Grant, GlobalHasTokens
    <3>2. Budget!Grant(h, calls[h].cost)
      BY <3>1 DEF Budget!Grant, Budget!Fits, Budget!NoLease
    <3>3. calls[h].cost \in Costs \ {0}
      BY <2>1 DEF AdmissionInv, CallsSound, Grant
    <3> QED
      BY <3>2, <3>3 DEF Budget!BudgetNext
  <2>2. ASSUME NEW h \in Handlers, Release(h)
        PROVE  Budget!BudgetNext \/ UNCHANGED Budget!budgetVars
    <3>1. CASE Held(h)
      <4>1. Leases[h] = calls[h].cost /\ calls[h].cost # 0
        BY <3>1 DEF Leases, AdmissionInv, CallsSound, Held
      <4>2. Leases \in [Handlers -> 0 .. GlobalInFlightTokens]
        BY LeasesType DEF AdmissionInv
      <4>3. calls[h].cost <= used /\ calls[h].cost \in Nat
        BY <4>1, <4>2, HandlersAssumption, TotalBoundsValue
           DEF AdmissionInv, Accounting, TypeOK, CallType
      <4>4. /\ used' = used - calls[h].cost
            /\ calls' = [calls EXCEPT ![h].state = "released"]
        BY <2>2, <3>1, <4>3 DEF Release, ReleaseOnce, Held, AdmissionInv, TypeOK
      <4>5. Leases' = [Leases EXCEPT ![h] = 0]
        BY <4>4 DEF AdmissionInv, TypeOK, CallType, Leases, Held
      <4>6. Budget!GiveBack(h)
        BY <4>1, <4>4, <4>5 DEF Budget!GiveBack, Budget!NoLease
      <4> QED
        BY <4>6 DEF Budget!BudgetNext
    <3>2. CASE ~Held(h)
      BY <2>2, <3>2 DEF Release, Held, Leases, Budget!budgetVars
    <3> QED
      BY <3>1, <3>2
  <2>3. ASSUME NEW h \in Handlers, Refuse(h), calls[h].state = "called"
        PROVE  UNCHANGED Budget!budgetVars
    BY <2>3 DEF AdmissionInv, TypeOK, CallType, Leases, Held, Refuse, NoCall, Budget!budgetVars
  <2>4. ASSUME NEW h \in Handlers, Return(h) PROVE UNCHANGED Budget!budgetVars
    BY <2>4 DEF AdmissionInv, TypeOK, CallType, Leases, Held, Return, NoCall, Budget!budgetVars
  <2>5. ASSUME NEW h \in Handlers, NEW tenant \in Tenants \union {NoTenant},
               NEW cost \in Costs, Call(h, tenant, cost)
        PROVE  UNCHANGED Budget!budgetVars
    BY <2>5 DEF AdmissionInv, TypeOK, CallType, Leases, Held, Call, Budget!budgetVars
  <2>6. CASE Tick \/ UNCHANGED vars
    BY <2>6 DEF Tick, vars, Leases, Held, Budget!budgetVars
  <2> QED
    BY <2>1, <2>2, <2>3, <2>4, <2>5, <2>6 DEF Next, RejectTenant, RejectGlobal
<1> QED
  BY <1>1, <1>2, Invariance, PTL DEF Spec, BudgetRefinement, Budget!BudgetSpec
=============================================================================
