---------------------------- MODULE RoutingProofs ----------------------------
(***************************************************************************)
(* What the limits of parseRequest guarantee for every configuration that   *)
(* RouterConfig.Validate accepts, every integer width and every policy; and *)
(* what Router.Select decides, for any number of workers and any reports:   *)
(* always the same worker, evenly under round robin, the best otherwise.    *)
(***************************************************************************)
EXTENDS Routing, FiniteSetTheorems, NaturalsInduction, SequenceTheorems, TLAPS

(* The clamp brings every integer into range, wrapped or not. *)
LEMMA ClampInRange ==
    ASSUME NEW t \in Int
    PROVE  Clamped(t) \in MinRequestTimeout .. MaxRequestTimeout
  BY ConfigAssumption DEF ConfigAssumption, Clamped, ValidTimeouts

(* A wrapped product is an integer. *)
LEMMA Int64IsInt == ASSUME NEW n \in Int PROVE Int64(n) \in Int
  BY ConfigAssumption DEF ConfigAssumption, Int64, Uint

(* Every header that is not refused gives a timeout within the limits. *)
LEMMA EffectiveTimeoutInRange ==
    ASSUME NEW header \in Headers
    PROVE  /\ EffectiveTimeout(header) \in 1 .. MaxRequestTimeout
           /\ header # NoHeader => MinRequestTimeout <= EffectiveTimeout(header)
  <1>1. header.ms * Millisecond \in Int
    BY InputAssumption, ConfigAssumption DEF InputAssumption, ConfigAssumption
  <1>2. Clamped(Int64(header.ms * Millisecond)) \in MinRequestTimeout .. MaxRequestTimeout
    BY <1>1, Int64IsInt, ClampInRange
  <1> QED BY <1>2, ConfigAssumption DEF EffectiveTimeout, ConfigAssumption, ValidTimeouts

(* Lengths within the limits have a sum that wraps at most once. *)
LEMMA AcceptedCost ==
    ASSUME NEW e \in Nat, NEW n \in Nat, ~TokensRefused(e, n)
    PROVE  /\ n \in 1 .. MaxOutputTokens
           /\ e <= MaxInputTokens
           /\ Cost(e, n) <= MaxContextTokens
           /\ Cost(e, n) = IF e + n < 2 ^ Width THEN e + n ELSE (e + n) - 2 ^ Width
           /\ LimitsFit => Cost(e, n) = e + n /\ Cost(e, n) > 0
  <1> DEFINE m == 2 ^ Width
  <1>1. /\ n \in 1 .. MaxOutputTokens /\ e <= MaxInputTokens
        /\ MaxOutputTokens \in Nat /\ MaxInputTokens \in Nat
        /\ m \in Nat \ {0} /\ e < m /\ n < m
    BY ConfigAssumption DEF TokensRefused, ConfigAssumption, ValidTokenLimits
  <1>2. Cost(e, n) = (e + n) % m
    BY DEF Cost, Uint
  <1>3. Cost(e, n) \in Nat /\ ~(Cost(e, n) > MaxContextTokens)
    BY <1>1, <1>2 DEF TokensRefused
  <1>4. MaxContextTokens \in Nat
    BY ConfigAssumption DEF ConfigAssumption, ValidTokenLimits
  <1>5. LimitsFit => e + n < m
    BY <1>1 DEF LimitsFit
  <1> HIDE DEF m
  <1>6. CASE e + n < m
    <2>1. (e + n) % m = e + n
      BY <1>1, <1>6
    <2> QED BY <1>1, <1>2, <1>3, <1>4, <1>6, <2>1 DEF m
  <1>7. CASE ~(e + n < m)
    <2>1. e + n = (e + n - m) + m /\ e + n - m \in 0 .. m - 1
      BY <1>1, <1>7
    <2>2. (e + n) % m = e + n - m
      BY <1>1, <2>1
    <2> QED BY <1>1, <1>2, <1>3, <1>4, <1>5, <1>7, <2>2 DEF m
  <1> QED BY <1>6, <1>7

-----------------------------------------------------------------------------
LimitsInv == TimeoutInRange /\ CostIsAccounted

(* parseRequest establishes the limits. *)
LEMMA ParseEstablishes ==
    ASSUME NEW body \in Bodies, NEW header \in Headers, ParseRequest(body, header)
    PROVE  LimitsInv'
  <1>1. /\ request'.estimate = body.estimate
        /\ terms'.maxTokens = MaxTokensOf(body)
        /\ terms'.timeout = EffectiveTimeout(header)
        /\ terms'.header = header
    BY DEF ParseRequest
  <1>2. TimeoutInRange'
    BY <1>1, EffectiveTimeoutInRange DEF TimeoutInRange
  <1>3. body.estimate \in Nat /\ MaxTokensOf(body) \in Nat
    BY InputAssumption, ConfigAssumption
    DEF InputAssumption, MaxTokensOf, ConfigAssumption, ValidTokenLimits
  <1>4. ~TokensRefused(body.estimate, MaxTokensOf(body))
    BY DEF ParseRequest, Refused
  <1> DEFINE e == body.estimate
             n == MaxTokensOf(body)
  <1> HIDE DEF e, n
  <1>5. /\ n \in 1 .. MaxOutputTokens
        /\ e <= MaxInputTokens
        /\ Cost(e, n) <= MaxContextTokens
        /\ Cost(e, n) = IF e + n < 2 ^ Width THEN e + n ELSE (e + n) - 2 ^ Width
        /\ LimitsFit => Cost(e, n) = e + n /\ Cost(e, n) > 0
    BY <1>3, <1>4, AcceptedCost DEF e, n
  <1>6. terms'.maxTokens = n /\ request'.estimate = e /\ Length' = e + n /\ ReservedCost' = Cost(e, n)
    BY <1>1 DEF e, n, Length, ReservedCost
  <1>7. CostIsAccounted'
    BY <1>5, <1>6, Zenon DEF CostIsAccounted, LimitsFit
  <1> QED BY <1>2, <1>7 DEF LimitsInv

(* Later steps leave a parsed request alone until its terms are handed on. *)
LEMMA LimitsHold == Spec => []LimitsInv
  <1>1. Init => LimitsInv
    BY DEF Init, LimitsInv, TimeoutInRange, CostIsAccounted, Length, ReservedCost
  <1>2. LimitsInv /\ [Next]_vars => LimitsInv'
    <2> SUFFICES ASSUME LimitsInv, [Next]_vars PROVE LimitsInv'
      OBVIOUS
    <2>1. CASE UNCHANGED <<pc, request, terms>>
      BY <2>1 DEF LimitsInv, TimeoutInRange, CostIsAccounted, Length, ReservedCost
    <2>2. CASE pc' # "parsed"
      BY <2>2 DEF LimitsInv, TimeoutInRange, CostIsAccounted, Length, ReservedCost
    <2>3. CASE \E body \in Bodies, header \in Headers : ParseRequest(body, header)
      BY <2>3, ParseEstablishes
    <2>4. CASE BadRequest \/ UNCHANGED vars
      BY <2>1, <2>4 DEF BadRequest, vars
    <2>5. CASE Admitted \/ SelectWorker \/ NoEligibleWorker \/ Retry \/ AttemptOver
      BY <2>2, <2>5
      DEF Admitted, SelectWorker, NoEligibleWorker, NobodyEligible, Retry, AttemptOver, Return
    <2>6. CASE \E w \in Workers : \E report \in Reports[policy] : Report(w, report)
      BY <2>1, <2>6 DEF Report, requestVars
    <2> QED BY <2>3, <2>4, <2>5, <2>6 DEF Next
  <1> QED BY <1>1, <1>2, PTL DEF Spec

(* Every parsed request has a positive timeout within the configured limits, *)
(* however large its header was and however effectiveTimeout's product       *)
(* wrapped.                                                                  *)
THEOREM TimeoutsInRange == Spec => []TimeoutInRange
  <1>1. LimitsInv => TimeoutInRange
    BY DEF LimitsInv
  <1> QED BY <1>1, LimitsHold, PTL

(* For every configuration that Validate accepts, also one whose limits       *)
(* overflow together: what handleChat reserves for a parsed request is the    *)
(* sum of its lengths or that sum less 2 ^ Width, within MaxContextTokens;    *)
(* with limits that fit it is the sum itself and never zero.                  *)
THEOREM CostsAreAccounted == Spec => []CostIsAccounted
  <1>1. LimitsInv => CostIsAccounted
    BY DEF LimitsInv
  <1> QED BY <1>1, LimitsHold, PTL

-----------------------------------------------------------------------------
(* Lists of workers.  Every set of natural numbers has a least element, which  *)
(* carries the inductions below.                                            *)
LEMMA SmallestNumber ==
    ASSUME NEW T \in SUBSET Nat, T # {}
    PROVE  \E x \in T : \A y \in T : x <= y
<1>1. PICK x \in T : \A y \in T : ~ (<<y, x>> \in OpToRel(<, Nat))
  BY WFMin, NatLessThanWellFounded
<1>2. ASSUME NEW y \in T, y < x PROVE FALSE
  <2>1. <<y, x>> \in Nat \X Nat /\ <<y, x>>[1] = y /\ <<y, x>>[2] = x
    OBVIOUS
  <2>2. <<y, x>>[1] < <<y, x>>[2]
    BY <1>2, <2>1
  <2>3. <<y, x>> \in OpToRel(<, Nat)
    BY <2>1, <2>2, Zenon DEF OpToRel
  <2> QED
    BY <1>1, <2>3
<1>3. \A y \in T : x <= y
  BY <1>2
<1> QED
  BY <1>3

(* Positions of different numbers can be arranged so that the numbers ascend:  *)
(* the position of a number is how many numbers are below it.               *)
LEMMA SortExists ==
    ASSUME NEW n \in Nat, NEW id \in [1 .. n -> Nat],
           \A i, j \in 1 .. n : id[i] = id[j] => i = j
    PROVE  \E p \in Bijection(1 .. n, 1 .. n) :
               \A i, j \in 1 .. n : i < j => id[p[i]] < id[p[j]]
<1> DEFINE D == 1 .. n
           Below(i) == {j \in D : id[j] < id[i]}
           rank == [i \in D |-> Cardinality(Below(i)) + 1]
<1>1. IsFiniteSet(D) /\ Cardinality(D) = n
  BY FS_Interval
<1>2. \A i \in D : id[i] \in Nat
  OBVIOUS
<1>3. ASSUME NEW i \in D PROVE IsFiniteSet(Below(i)) /\ Cardinality(Below(i)) \in Nat
  <2>1. Below(i) \in SUBSET D
    OBVIOUS
  <2> QED
    BY <1>1, <2>1, FS_Subset, FS_CardinalityType
<1>4. ASSUME NEW i \in D PROVE rank[i] \in D
  <2>1. Below(i) \in SUBSET D /\ Below(i) # D
    BY <1>2
  <2>2. Cardinality(Below(i)) <= n /\ Cardinality(Below(i)) # n
    BY <1>1, <2>1, FS_Subset
  <2>3. rank[i] = Cardinality(Below(i)) + 1
    OBVIOUS
  <2> HIDE DEF Below, rank
  <2> QED
    BY <1>3, <2>2, <2>3
<1>5. ASSUME NEW i \in D, NEW k \in D, id[i] < id[k] PROVE rank[i] < rank[k]
  <2>1. Below(i) \in SUBSET Below(k)
    <3>1. ASSUME NEW j \in D, id[j] < id[i] PROVE id[j] < id[k]
      BY <1>2, <1>5, <3>1
    <3> QED
      BY <3>1
  <2>2. i \in Below(k) /\ i \notin Below(i)
    BY <1>2, <1>5
  <2>3. rank[i] = Cardinality(Below(i)) + 1 /\ rank[k] = Cardinality(Below(k)) + 1
    OBVIOUS
  <2> HIDE DEF Below, rank
  <2>4. Cardinality(Below(i)) <= Cardinality(Below(k)) /\ Cardinality(Below(i)) # Cardinality(Below(k))
    BY <1>3, <2>1, <2>2, FS_Subset
  <2> QED
    BY <1>3, <2>3, <2>4
<1> HIDE DEF rank
<1>6. ASSUME NEW i \in D, NEW k \in D, rank[i] = rank[k] PROVE i = k
  <2>1. ~ (id[i] < id[k]) /\ ~ (id[k] < id[i])
    BY <1>4, <1>5, <1>6
  <2> QED
    BY <1>2, <2>1
<1>7. rank \in Injection(D, D)
  <2>1. rank \in [D -> D]
    BY <1>4 DEF rank
  <2> QED
    BY <1>6, <2>1 DEF Injection, IsInjective
<1>8. rank \in Surjection(D, D)
  BY <1>1, <1>7, FS_Injection
<1>9. \A k \in D : \E i \in D : rank[i] = k
  BY <1>8 DEF Surjection
<1> DEFINE p == [k \in D |-> CHOOSE i \in D : rank[i] = k]
<1>10. \A k \in D : p[k] \in D /\ rank[p[k]] = k
  BY <1>9
<1>11. p \in [D -> D]
  BY <1>10
<1> HIDE DEF p
<1>12. p \in Bijection(D, D)
  <2>1. \A a, b \in D : p[a] = p[b] => a = b
    BY <1>10
  <2>2. \A i \in D : \E k \in D : p[k] = i
    BY <1>4, <1>6, <1>10
  <2> QED
    BY <1>11, <2>1, <2>2 DEF Bijection, Injection, Surjection, IsInjective
<1>13. ASSUME NEW i \in D, NEW j \in D, i < j PROVE id[p[i]] < id[p[j]]
  <2>1. p[i] \in D /\ p[j] \in D /\ rank[p[i]] = i /\ rank[p[j]] = j
    BY <1>10
  <2>2. ASSUME id[p[j]] < id[p[i]] PROVE FALSE
    <3>1. j < i
      BY <1>5, <2>1, <2>2
    <3> QED
      BY <1>13, <3>1
  <2>3. id[p[i]] # id[p[j]]
    <3>1. i # j
      BY <1>13
    <3> QED
      BY <2>1, <3>1
  <2> QED
    BY <1>2, <2>1, <2>2, <2>3
<1> QED
  BY <1>12, <1>13

(* A list of n workers with different IDs. *)
Listing(s, n) ==
    /\ n \in Nat /\ DOMAIN s = 1 .. n
    /\ \A i \in 1 .. n : s[i].id \in Nat
    /\ \A i, j \in 1 .. n : s[i].id = s[j].id => i = j

Ascending(s, n) == \A i, j \in 1 .. n : i < j => s[i].id < s[j].id

(* sort.Slice rearranges the list so that the IDs ascend. *)
LEMMA ByIDSorts ==
    ASSUME NEW n, NEW s, Listing(s, n)
    PROVE  /\ \E p \in Bijection(1 .. n, 1 .. n) : ByID(s) = [i \in 1 .. n |-> s[p[i]]]
           /\ Ascending(ByID(s), n)
<1> DEFINE D == DOMAIN s
           id == [i \in D |-> s[i].id]
           Arranged == {[i \in D |-> s[p[i]]] : p \in Bijection(D, D)}
<1>0. /\ n \in Nat /\ D = 1 .. n
      /\ \A i \in D : s[i].id \in Nat
      /\ \A i, j \in D : s[i].id = s[j].id => i = j
  BY DEF Listing
<1>1. PICK p \in Bijection(D, D) : \A i, j \in D : i < j => id[p[i]] < id[p[j]]
  <2>1. id \in [D -> Nat] /\ \A i, j \in D : id[i] = id[j] => i = j
    BY <1>0
  <2> HIDE DEF id
  <2> QED
    BY <1>0, <2>1, SortExists
<1>2. p \in [D -> D]
  BY DEF Bijection, Injection
<1> DEFINE t == [i \in D |-> s[p[i]]]
<1>3. t \in Arranged /\ \A i, j \in D : i < j => t[i].id < t[j].id
  BY <1>1, <1>2
<1>4. \A i \in D : t[i].id \in Nat
  BY <1>0, <1>2
<1>5. \A i, j \in D : i < j => t[i].id <= t[j].id
  <2> HIDE DEF t
  <2> QED
    BY <1>3, <1>4
<1>6. ByID(s) = CHOOSE u \in Arranged : \A i, j \in D : i < j => u[i].id <= u[j].id
  BY Zenon DEF ByID
<1> HIDE DEF t
<1>7. ByID(s) \in Arranged /\ \A i, j \in D : i < j => ByID(s)[i].id <= ByID(s)[j].id
  <2> HIDE DEF Arranged
  <2> QED
    BY <1>3, <1>5, <1>6, Zenon
<1>8. PICK q \in Bijection(D, D) : ByID(s) = [i \in D |-> s[q[i]]]
  BY <1>7
<1>9. q \in [D -> D] /\ \A i, j \in D : q[i] = q[j] => i = j
  BY DEF Bijection, Injection, IsInjective
<1>10. ASSUME NEW i \in D, NEW j \in D, i < j PROVE ByID(s)[i].id < ByID(s)[j].id
  <2>1. ByID(s)[i] = s[q[i]] /\ ByID(s)[j] = s[q[j]] /\ q[i] \in D /\ q[j] \in D
    BY <1>8, <1>9
  <2>2. q[i] # q[j]
    <3>1. i # j
      BY <1>0, <1>10
    <3> QED
      BY <1>9, <3>1
  <2>3. s[q[i]].id # s[q[j]].id /\ s[q[i]].id \in Nat /\ s[q[j]].id \in Nat
    BY <1>0, <2>1, <2>2
  <2>4. s[q[i]].id <= s[q[j]].id
    BY <1>7, <1>10, <2>1
  <2> QED
    BY <2>1, <2>3, <2>4
<1> HIDE DEF D
<1> QED
  BY <1>0, <1>8, <1>10 DEF Ascending

(* The loop that collects the eligible ones of a list, up to its m-th round. *)
Collecting(p, x, s, m, f) ==
    f = [n \in 0 .. m |->
            IF n = 0 THEN <<>>
            ELSE IF Eligible(p, s[n], x) THEN Append(f[n - 1], s[n]) ELSE f[n - 1]]

(* The loop is well defined for every number of rounds. *)
LEMMA CollectingExists ==
    ASSUME NEW p, NEW x, NEW s, NEW size \in Nat
    PROVE  \E f : Collecting(p, x, s, size, f)
<1> DEFINE T == {m \in Nat : ~ \E f : Collecting(p, x, s, m, f)}
<1>1. SUFFICES ASSUME T # {} PROVE FALSE
  OBVIOUS
<1>2. PICK m \in T : \A y \in T : m <= y
  <2>1. T \in SUBSET Nat
    OBVIOUS
  <2> HIDE DEF T
  <2> QED
    BY <1>1, <2>1, SmallestNumber
<1>3. m # 0
  <2>1. Collecting(p, x, s, 0, [n \in 0 .. 0 |-> <<>>])
    BY DEF Collecting
  <2> QED
    BY <1>2, <2>1
<1>4. m - 1 \in Nat /\ m - 1 \notin T
  BY <1>2, <1>3
<1>5. PICK f : Collecting(p, x, s, m - 1, f)
  BY <1>4
<1> DEFINE next(before, n) == IF Eligible(p, s[n], x) THEN Append(before, s[n]) ELSE before
           g == [n \in 0 .. m |-> IF n < m THEN f[n] ELSE next(f[m - 1], m)]
<1>6. \A n \in 0 .. m - 1 : f[n] = IF n = 0 THEN <<>> ELSE next(f[n - 1], n)
  <2>1. f = [n \in 0 .. m - 1 |-> IF n = 0 THEN <<>> ELSE next(f[n - 1], n)]
    BY <1>5, Zenon DEF Collecting
  <2> QED
    BY <2>1, Zenon
<1> HIDE DEF next
<1>7. ASSUME NEW n \in 0 .. m
      PROVE  g[n] = IF n = 0 THEN <<>> ELSE next(g[n - 1], n)
  <2>1. CASE n = m
    <3>1. g[n] = next(f[m - 1], m) /\ g[n - 1] = f[m - 1] /\ n # 0
      BY <1>3, <1>4, <2>1
    <3> QED
      BY <2>1, <3>1
  <2>2. CASE n # m /\ n # 0
    <3>1. g[n] = f[n] /\ g[n - 1] = f[n - 1] /\ n \in 0 .. m - 1
      BY <1>4, <2>2
    <3> QED
      BY <1>6, <2>2, <3>1
  <2>3. CASE n = 0 /\ n # m
    <3>1. g[n] = f[0] /\ 0 \in 0 .. m - 1
      BY <1>4, <2>3
    <3> QED
      BY <1>6, <2>3, <3>1
  <2> QED
    BY <2>1, <2>2, <2>3
<1>8. g = [n \in 0 .. m |-> g[n]]
  OBVIOUS
<1> HIDE DEF g
<1>9. g = [n \in 0 .. m |-> IF n = 0 THEN <<>> ELSE next(g[n - 1], n)]
  BY <1>7, <1>8
<1>10. Collecting(p, x, s, m, g)
  BY <1>9, Zenon DEF Collecting, next
<1> QED
  BY <1>2, <1>10

(* The list e holds the eligible ones among the first m workers of s, with    *)
(* ascending IDs.                                                            *)
Collected(p, x, s, m, e) ==
    /\ e \in Seq(ToSet(s))
    /\ Ascending(e, Len(e))
    /\ \A k \in 1 .. Len(e) : \E i \in 1 .. m : e[k] = s[i] /\ Eligible(p, s[i], x)
    /\ \A i \in 1 .. m : Eligible(p, s[i], x) => \E k \in 1 .. Len(e) : e[k] = s[i]

(* One round of the loop. *)
LEMMA CollectedNext ==
    ASSUME NEW p, NEW x, NEW s, NEW n \in Nat, DOMAIN s = 1 .. n, Ascending(s, n),
           NEW m \in 1 .. n, NEW e, Collected(p, x, s, m - 1, e)
    PROVE  Collected(p, x, s, m, IF Eligible(p, s[m], x) THEN Append(e, s[m]) ELSE e)
<1> DEFINE S == ToSet(s)
<1>0. e \in Seq(S) /\ Len(e) \in Nat /\ s[m] \in S
  BY DEF Collected, ToSet
<1> HIDE DEF S
<1>a. \A i \in 1 .. m : i = m \/ i \in 1 .. m - 1
  OBVIOUS
<1>b. \A i \in 1 .. m - 1 : i \in 1 .. m
  OBVIOUS
<1>1. CASE ~ Eligible(p, s[m], x)
  BY <1>1, <1>a, <1>b DEF Collected
<1>2. CASE Eligible(p, s[m], x)
  <2> DEFINE g == Append(e, s[m])
  <2>1. /\ g \in Seq(S) /\ Len(g) = Len(e) + 1 /\ g[Len(e) + 1] = s[m]
        /\ \A k \in 1 .. Len(e) : g[k] = e[k]
    BY <1>0
  <2> HIDE DEF g
  <2>2. \A k \in 1 .. Len(g) : k = Len(e) + 1 \/ k \in 1 .. Len(e)
    BY <1>0, <2>1
  <2>3. \A k \in 1 .. Len(e) : k \in 1 .. Len(g)
    BY <1>0, <2>1
  <2>4. Len(e) + 1 \in 1 .. Len(g)
    BY <1>0, <2>1
  <2>5. ASSUME NEW i \in 1 .. Len(g), NEW j \in 1 .. Len(g), i < j
        PROVE  g[i].id < g[j].id
    <3>1. i \in 1 .. Len(e)
      BY <1>0, <2>1, <2>5
    <3>2. CASE j \in 1 .. Len(e)
      BY <2>1, <2>5, <3>1, <3>2 DEF Collected, Ascending
    <3>3. CASE j = Len(e) + 1
      <4>1. PICK a \in 1 .. m - 1 : e[i] = s[a]
        BY <3>1 DEF Collected
      <4>2. a \in 1 .. n /\ m \in 1 .. n /\ a < m
        OBVIOUS
      <4>3. s[a].id < s[m].id
        BY <4>2 DEF Ascending
      <4> QED
        BY <2>1, <3>1, <3>3, <4>1, <4>3
    <3> QED
      BY <2>2, <3>2, <3>3
  <2>6. ASSUME NEW k \in 1 .. Len(g)
        PROVE  \E i \in 1 .. m : g[k] = s[i] /\ Eligible(p, s[i], x)
    <3>1. CASE k = Len(e) + 1
      <4>1. m \in 1 .. m
        OBVIOUS
      <4> QED
        BY <1>2, <2>1, <3>1, <4>1
    <3>2. CASE k \in 1 .. Len(e)
      <4>1. PICK i \in 1 .. m - 1 : e[k] = s[i] /\ Eligible(p, s[i], x)
        BY <3>2 DEF Collected
      <4> QED
        BY <1>b, <2>1, <3>2, <4>1
    <3> QED
      BY <2>2, <3>1, <3>2
  <2>7. ASSUME NEW i \in 1 .. m, Eligible(p, s[i], x)
        PROVE  \E k \in 1 .. Len(g) : g[k] = s[i]
    <3>1. CASE i = m
      BY <2>1, <2>4, <3>1
    <3>2. CASE i \in 1 .. m - 1
      <4>1. PICK k \in 1 .. Len(e) : e[k] = s[i]
        BY <2>7, <3>2 DEF Collected
      <4> QED
        BY <2>1, <2>3, <4>1
    <3> QED
      BY <1>a, <3>1, <3>2
  <2>8. Collected(p, x, s, m, g)
    BY <2>1, <2>5, <2>6, <2>7 DEF Collected, Ascending, S
  <2> QED
    BY <1>2, <2>8 DEF g
<1> QED
  BY <1>1, <1>2

(* The eligible ones of a sorted list are sorted, and none is missed. *)
LEMMA EligibleCollects ==
    ASSUME NEW p, NEW x, NEW s, NEW n \in Nat, DOMAIN s = 1 .. n, Len(s) = n, Ascending(s, n)
    PROVE  Collected(p, x, s, n, EligibleOf(p, s, x))
<1> DEFINE next(before, k) == IF Eligible(p, s[k], x) THEN Append(before, s[k]) ELSE before
           upTo[k \in 0 .. Len(s)] ==
               IF k = 0 THEN <<>>
               ELSE IF Eligible(p, s[k], x) THEN Append(upTo[k - 1], s[k]) ELSE upTo[k - 1]
<1>1. EligibleOf(p, s, x) = upTo[Len(s)]
  BY Zenon DEF EligibleOf
<1>2. upTo = [k \in 0 .. Len(s) |->
                 IF k = 0 THEN <<>>
                 ELSE IF Eligible(p, s[k], x) THEN Append(upTo[k - 1], s[k]) ELSE upTo[k - 1]]
  <2>1. \E f : Collecting(p, x, s, Len(s), f)
    BY CollectingExists
  <2>2. \E f : f = [k \in 0 .. Len(s) |->
                 IF k = 0 THEN <<>>
                 ELSE IF Eligible(p, s[k], x) THEN Append(f[k - 1], s[k]) ELSE f[k - 1]]
    BY <2>1, Zenon DEF Collecting
  <2> QED
    BY <2>2, Zenon
<1> HIDE DEF upTo
<1>3. \A k \in 0 .. Len(s) : upTo[k] = IF k = 0 THEN <<>> ELSE next(upTo[k - 1], k)
  BY <1>2, Zenon
<1> DEFINE T == {m \in 0 .. n : ~ Collected(p, x, s, m, upTo[m])}
<1>4. T = {}
  <2>1. SUFFICES ASSUME T # {} PROVE FALSE
    OBVIOUS
  <2>2. PICK m \in T : \A y \in T : m <= y
    <3>1. T \in SUBSET Nat
      OBVIOUS
    <3> HIDE DEF T
    <3> QED
      BY <2>1, <3>1, SmallestNumber
  <2>3. m # 0
    <3>1. upTo[0] = <<>>
      BY <1>3
    <3>2. Collected(p, x, s, 0, <<>>)
      BY DEF Collected, Ascending
    <3> QED
      BY <2>2, <3>1, <3>2
  <2>4. m \in 1 .. n /\ m - 1 \in 0 .. n /\ m - 1 \notin T
    BY <2>2, <2>3
  <2>5. Collected(p, x, s, m - 1, upTo[m - 1])
    BY <2>4
  <2>6. upTo[m] = next(upTo[m - 1], m)
    BY <1>3, <2>3, <2>4
  <2>7. Collected(p, x, s, m, next(upTo[m - 1], m))
    BY <2>4, <2>5, CollectedNext
  <2> HIDE DEF next
  <2> QED
    BY <2>2, <2>6, <2>7
<1> QED
  BY <1>1, <1>4

(* The sorted list has the workers of the list it was sorted from. *)
LEMMA ByIDKeeps ==
    ASSUME NEW n, NEW s, Listing(s, n)
    PROVE  /\ Listing(ByID(s), n) /\ ByID(s) = [i \in 1 .. n |-> ByID(s)[i]]
           /\ Len(ByID(s)) = n
           /\ ToSet(ByID(s)) = ToSet(s)
<1> DEFINE t == ByID(s)
<1>0. n \in Nat /\ DOMAIN s = 1 .. n
  BY DEF Listing
<1>1. PICK p \in Bijection(1 .. n, 1 .. n) : t = [i \in 1 .. n |-> s[p[i]]]
  BY ByIDSorts
<1> HIDE DEF t
<1>2. /\ p \in [1 .. n -> 1 .. n]
      /\ \A i, j \in 1 .. n : p[i] = p[j] => i = j
      /\ \A k \in 1 .. n : \E i \in 1 .. n : p[i] = k
  BY DEF Bijection, Injection, Surjection, IsInjective
<1>3. DOMAIN t = 1 .. n /\ \A i \in 1 .. n : t[i] = s[p[i]] /\ p[i] \in 1 .. n
  BY <1>1, <1>2
<1>4. Listing(t, n)
  <2>1. /\ \A i \in 1 .. n : s[i].id \in Nat
        /\ \A i, j \in 1 .. n : s[i].id = s[j].id => i = j
    BY DEF Listing
  <2>2. \A i \in 1 .. n : t[i].id \in Nat
    BY <1>3, <2>1
  <2>3. ASSUME NEW i \in 1 .. n, NEW j \in 1 .. n, t[i].id = t[j].id PROVE i = j
    <3>1. s[p[i]].id = s[p[j]].id /\ p[i] \in 1 .. n /\ p[j] \in 1 .. n
      BY <1>3, <2>3
    <3>2. p[i] = p[j]
      BY <2>1, <3>1
    <3> QED
      BY <1>2, <3>2
  <2> QED
    BY <1>0, <1>3, <2>2, <2>3 DEF Listing
<1>5. ToSet(t) = ToSet(s)
  <2>1. \A v : v \in ToSet(t) <=> \E i \in 1 .. n : v = t[i]
    BY <1>3 DEF ToSet
  <2>2. \A v : v \in ToSet(s) <=> \E i \in 1 .. n : v = s[i]
    BY <1>0 DEF ToSet
  <2>3. \A v : v \in ToSet(t) <=> v \in ToSet(s)
    BY <1>2, <1>3, <2>1, <2>2
  <2> QED
    BY <2>3
<1>6. t = [i \in 1 .. n |-> t[i]] /\ Len(t) = n
  BY <1>0, <1>1
<1> QED
  BY <1>4, <1>5, <1>6 DEF t

(* There is one list of given workers with ascending IDs. *)
LEMMA SortedUnique ==
    ASSUME NEW n, NEW s, NEW t, Listing(s, n), Listing(t, n), Ascending(s, n), Ascending(t, n),
           s = [i \in 1 .. n |-> s[i]], t = [i \in 1 .. n |-> t[i]], ToSet(s) = ToSet(t)
    PROVE  s = t
<1>0. /\ n \in Nat
      /\ \A i \in 1 .. n : s[i].id \in Nat /\ t[i].id \in Nat
  BY DEF Listing
<1>1. /\ \A i \in 1 .. n : \E j \in 1 .. n : s[i] = t[j]
      /\ \A i \in 1 .. n : \E j \in 1 .. n : t[i] = s[j]
  <2>1. DOMAIN s = 1 .. n /\ DOMAIN t = 1 .. n
    BY DEF Listing
  <2>2. \A v : v \in ToSet(s) <=> \E i \in 1 .. n : v = s[i]
    BY <2>1, Zenon DEF ToSet
  <2>3. \A v : v \in ToSet(t) <=> \E i \in 1 .. n : v = t[i]
    BY <2>1, Zenon DEF ToSet
  <2> QED
    BY <2>2, <2>3
<1> DEFINE T == {k \in 1 .. n : s[k] # t[k]}
<1>2. T = {}
  <2>1. SUFFICES ASSUME T # {} PROVE FALSE
    OBVIOUS
  <2>2. PICK k \in T : \A y \in T : k <= y
    <3>1. T \in SUBSET Nat
      BY <1>0
    <3> HIDE DEF T
    <3> QED
      BY <2>1, <3>1, SmallestNumber
  <2>3. k \in 1 .. n /\ s[k] # t[k]
    OBVIOUS
  <2>4. \A j \in 1 .. n : j < k => s[j] = t[j]
    BY <1>0, <2>2, <2>3
  <2>5. t[k].id < s[k].id
    <3>1. PICK j \in 1 .. n : s[k] = t[j]
      BY <1>1, <2>3
    <3>2. j # k
      BY <2>3, <3>1
    <3>3. ASSUME j < k PROVE FALSE
      <4>1. s[j].id < s[k].id /\ s[j] = s[k]
        BY <2>3, <2>4, <3>1, <3>3 DEF Ascending
      <4> QED
        BY <1>0, <2>3, <4>1
    <3>4. k < j
      BY <1>0, <2>3, <3>2, <3>3
    <3> QED
      BY <2>3, <3>1, <3>4 DEF Ascending
  <2>6. s[k].id < t[k].id
    <3>1. PICK j \in 1 .. n : t[k] = s[j]
      BY <1>1, <2>3
    <3>2. j # k
      BY <2>3, <3>1
    <3>3. ASSUME j < k PROVE FALSE
      <4>1. t[j].id < t[k].id /\ t[j] = t[k]
        BY <2>3, <2>4, <3>1, <3>3 DEF Ascending
      <4> QED
        BY <1>0, <2>3, <4>1
    <3>4. k < j
      BY <1>0, <2>3, <3>2, <3>3
    <3> QED
      BY <2>3, <3>1, <3>4 DEF Ascending
  <2> QED
    BY <1>0, <2>3, <2>5, <2>6
<1>3. \A k \in 1 .. n : s[k] = t[k]
  BY <1>2
<1> QED
  BY <1>3

(* Listing every worker once gives a list with different IDs. *)
LEMMA ListedOnce ==
    ASSUME NEW order \in SetToSeqs(Workers)
    PROVE  /\ Listing(Listed(order), Cardinality(Workers))
           /\ ToSet(Listed(order)) = {WorkerAt(w) : w \in Workers}
<1> DEFINE n == Cardinality(Workers)
           s == Listed(order)
<1>1. n \in Nat /\ IsFiniteSet(1 .. n) /\ Cardinality(1 .. n) = n /\ IsFiniteSet(Workers)
  <2>1. IsFiniteSet(Workers)
    BY WidthAssumption
  <2>2. n \in Nat
    BY <2>1, FS_CardinalityType
  <2> HIDE DEF n
  <2> QED
    BY <2>1, <2>2, FS_Interval
<1>2. order \in [1 .. n -> Workers] /\ \A i, j \in 1 .. n : order[i] = order[j] => i = j
  BY DEF SetToSeqs
<1>3. order \in Surjection(1 .. n, Workers)
  <2>1. order \in Injection(1 .. n, Workers)
    BY <1>2 DEF Injection, IsInjective
  <2> QED
    BY <1>1, <2>1, FS_Injection
<1>4. \A w \in Workers : \E i \in 1 .. n : order[i] = w
  BY <1>3 DEF Surjection
<1> HIDE DEF n
<1>5. DOMAIN s = 1 .. n /\ \A i \in 1 .. n : s[i] = WorkerAt(order[i])
  BY <1>2 DEF Listed
<1>6. \A w \in Workers : WorkerAt(w).id = w /\ w \in Nat
  BY WidthAssumption DEF WorkerAt
<1>7. \A i \in 1 .. n : s[i].id = order[i] /\ order[i] \in Nat
  BY <1>2, <1>5, <1>6
<1> HIDE DEF s
<1>8. Listing(s, n)
  BY <1>1, <1>2, <1>5, <1>7 DEF Listing
<1>9. ToSet(s) = {WorkerAt(w) : w \in Workers}
  <2>1. \A v : v \in ToSet(s) <=> \E i \in 1 .. n : v = WorkerAt(order[i])
    BY <1>5 DEF ToSet
  <2>2. \A v : (\E i \in 1 .. n : v = WorkerAt(order[i])) <=> \E w \in Workers : v = WorkerAt(w)
    BY <1>2, <1>4, Zenon
  <2> QED
    BY <2>1, <2>2, Zenon
<1> QED
  BY <1>8, <1>9 DEF n, s

(* The registry lists the workers in some order before it sorts them. *)
LEMMA SnapshotOrder == SetToSeq(Workers) \in SetToSeqs(Workers)
<1> DEFINE D == 1 .. Cardinality(Workers)
<1>1. \E f \in [D -> Workers] : IsInjective(f)
  <2>1. ExistsBijection(D, Workers)
    BY WidthAssumption, FS_CardinalityType
  <2> QED
    BY <2>1 DEF ExistsBijection, Bijection, Injection, IsInjective
<1>2. SetToSeq(Workers) \in [D -> Workers] /\ IsInjective(SetToSeq(Workers))
  BY <1>1, Zenon DEF SetToSeq
<1> QED
  BY <1>2 DEF SetToSeqs, IsInjective

(* The snapshot has every worker once. *)
LEMMA SnapshotListing ==
    /\ Listing(Snapshot, Cardinality(Workers))
    /\ ToSet(Snapshot) = {WorkerAt(w) : w \in Workers}
BY SnapshotOrder, ListedOnce, ByIDKeeps DEF Snapshot

(* What Select considers of a list of workers. *)
LEMMA CandidatesCollect ==
    ASSUME NEW n, NEW s, Listing(s, n), NEW p, NEW x
    PROVE  Collected(p, x, ByID(s), n, Candidates(p, s, x))
<1>1. /\ n \in Nat /\ DOMAIN ByID(s) = 1 .. n /\ Len(ByID(s)) = n
  BY ByIDKeeps DEF Listing
<1>2. Ascending(ByID(s), n)
  BY ByIDSorts
<1>3. Collected(p, x, ByID(s), n, EligibleOf(p, ByID(s), x))
  BY <1>1, <1>2, EligibleCollects
<1> QED
  BY <1>3 DEF Candidates

-----------------------------------------------------------------------------
(* However the workers are listed, Router.Select takes the same one. *)
THEOREM DecisionsAreDeterministic == Spec => []DecisionIsDeterministic
<1>1. DecisionIsDeterministic
  <2> SUFFICES ASSUME NEW s \in Orders, NEW t \in Orders
               PROVE  LET u == Candidates(policy, s, excluded)
                          v == Candidates(policy, t, excluded)
                      IN u = <<>> \/ Selected(policy, request, u, cursor)
                                       = Selected(policy, request, v, cursor)
    BY DEF DecisionIsDeterministic
  <2> DEFINE n == Cardinality(Workers)
  <2>1. /\ Listing(s, n) /\ Listing(t, n)
        /\ ToSet(s) = ToSet(t)
    <3>1. PICK a \in SetToSeqs(Workers) : s = Listed(a)
      BY DEF Orders
    <3>2. PICK b \in SetToSeqs(Workers) : t = Listed(b)
      BY DEF Orders
    <3> QED
      BY <3>1, <3>2, ListedOnce
  <2> HIDE DEF n
  <2>2. ByID(s) = ByID(t)
    <3>1. /\ Listing(ByID(s), n) /\ Listing(ByID(t), n)
          /\ ByID(s) = [i \in 1 .. n |-> ByID(s)[i]] /\ ByID(t) = [i \in 1 .. n |-> ByID(t)[i]]
          /\ ToSet(ByID(s)) = ToSet(ByID(t))
      BY <2>1, ByIDKeeps
    <3>2. Ascending(ByID(s), n) /\ Ascending(ByID(t), n)
      BY <2>1, ByIDSorts
    <3> QED
      BY <3>1, <3>2, SortedUnique
  <2>3. Candidates(policy, s, excluded) = Candidates(policy, t, excluded)
    BY <2>2 DEF Candidates
  <2> QED
    BY <2>3
<1> QED
  BY <1>1, PTL

-----------------------------------------------------------------------------
(* Round robin.  The next cursor points to the next position, or to the first. *)
LEMMA NextPosition ==
    ASSUME NEW n \in Nat \ {0}, NEW c \in Nat
    PROVE  /\ c % n \in 0 .. n - 1
           /\ (c + 1) % n = IF c % n = n - 1 THEN 0 ELSE (c % n) + 1
<1> DEFINE q == c \div n
           r == c % n
<1>1. q \in Int /\ r \in 0 .. n - 1 /\ c = n * q + r
  OBVIOUS
<1>2. ASSUME NEW k \in Int, NEW b \in 0 .. n - 1 PROVE (n * k + b) % n = b
  OBVIOUS
<1> HIDE DEF q, r
<1>3. CASE r = n - 1
  <2>1. c + 1 = n * (q + 1) + 0 /\ q + 1 \in Int /\ 0 \in 0 .. n - 1
    BY <1>1, <1>3
  <2>2. (n * (q + 1) + 0) % n = 0
    BY <1>2, <2>1
  <2> QED
    BY <1>1, <1>3, <2>1, <2>2 DEF r
<1>4. CASE r # n - 1
  <2>1. c + 1 = n * q + (r + 1) /\ r + 1 \in 0 .. n - 1
    BY <1>1, <1>4
  <2>2. (n * q + (r + 1)) % n = r + 1
    BY <1>1, <1>2, <2>1
  <2> QED
    BY <1>1, <1>4, <2>1, <2>2 DEF r
<1> QED
  BY <1>3, <1>4

(* 1 for the positions that the current turn around the ring has served. *)
Turn(i, n, c) == IF i <= c % n THEN 1 ELSE 0

(* The counts, less the current turn, of an earlier and a later position: the *)
(* first turn may have begun between the two, which favours the later one     *)
(* once, and each wrap of the cursor may favour the earlier one once.         *)
Even(n, c, count, wraps) ==
    \A i, j \in 1 .. n : i < j =>
        /\ (count[i] - Turn(i, n, c)) - (count[j] - Turn(j, n, c)) >= -1
        /\ (count[i] - Turn(i, n, c)) - (count[j] - Turn(j, n, c)) <= wraps

(* Nothing is counted yet. *)
LEMMA EvenStart ==
    ASSUME NEW n \in Nat \ {0}, NEW c \in Nat, NEW count, \A i \in 1 .. n : count[i] = 0
    PROVE  Even(n, c, count, 0)
<1>1. c % n \in 0 .. n - 1
  BY NextPosition
<1> DEFINE r == c % n
<1> HIDE DEF r
<1>2. r \in 0 .. n - 1 /\ \A i \in 1 .. n : Turn(i, n, c) = IF i <= r THEN 1 ELSE 0
  BY <1>1 DEF Turn, r
<1> QED
  BY <1>2 DEF Even

(* A selection counts the position of the cursor, which then moves on or wraps. *)
LEMMA EvenNext ==
    ASSUME NEW n \in Nat \ {0}, NEW c \in Nat, NEW wraps \in Nat,
           NEW count \in [1 .. n -> Nat], NEW after \in [1 .. n -> Nat],
           Even(n, c, count, wraps),
           \A i \in 1 .. n : after[i] = IF i = (c % n) + 1 THEN count[i] + 1 ELSE count[i]
    PROVE  Even(n, c + 1, after, wraps) /\ Even(n, 0, after, wraps + 1)
<1> DEFINE r == c % n
           s == (c + 1) % n
<1>1. r \in 0 .. n - 1 /\ s = IF r = n - 1 THEN 0 ELSE r + 1
  BY NextPosition
<1>2. 0 % n = 0
  OBVIOUS
<1>3. /\ \A i \in 1 .. n : Turn(i, n, c) = IF i <= r THEN 1 ELSE 0
      /\ \A i \in 1 .. n : Turn(i, n, c + 1) = IF i <= s THEN 1 ELSE 0
  BY DEF Turn
<1>4. \A i \in 1 .. n : Turn(i, n, 0) = 0
  BY <1>2 DEF Turn
<1>5. \A i \in 1 .. n : after[i] = IF i = r + 1 THEN count[i] + 1 ELSE count[i]
  OBVIOUS
<1> HIDE DEF r, s
<1>6. ASSUME NEW i \in 1 .. n, NEW j \in 1 .. n, i < j
      PROVE  /\ (after[i] - Turn(i, n, c + 1)) - (after[j] - Turn(j, n, c + 1)) >= -1
             /\ (after[i] - Turn(i, n, c + 1)) - (after[j] - Turn(j, n, c + 1)) <= wraps
             /\ (after[i] - Turn(i, n, 0)) - (after[j] - Turn(j, n, 0)) >= -1
             /\ (after[i] - Turn(i, n, 0)) - (after[j] - Turn(j, n, 0)) <= wraps + 1
  <2> DEFINE ti == Turn(i, n, c)
             tj == Turn(j, n, c)
             ui == Turn(i, n, c + 1)
             uj == Turn(j, n, c + 1)
  <2>1. /\ (count[i] - ti) - (count[j] - tj) >= -1
        /\ (count[i] - ti) - (count[j] - tj) <= wraps
    BY <1>6 DEF Even
  <2>2. /\ ti = (IF i <= r THEN 1 ELSE 0) /\ tj = (IF j <= r THEN 1 ELSE 0)
        /\ ui = (IF i <= s THEN 1 ELSE 0) /\ uj = (IF j <= s THEN 1 ELSE 0)
    BY <1>3
  <2>3. Turn(i, n, 0) = 0 /\ Turn(j, n, 0) = 0
    BY <1>4
  <2>4. /\ after[i] = IF i = r + 1 THEN count[i] + 1 ELSE count[i]
        /\ after[j] = IF j = r + 1 THEN count[j] + 1 ELSE count[j]
    BY <1>5
  <2>5. count[i] \in Nat /\ count[j] \in Nat
    OBVIOUS
  <2> HIDE DEF ti, tj, ui, uj
  <2> DEFINE a == count[i]
             b == count[j]
             x == after[i]
             y == after[j]
             Good == /\ (x - ui) - (y - uj) >= -1 /\ (x - ui) - (y - uj) <= wraps
                     /\ x - y >= -1 /\ x - y <= wraps + 1
  <2>6. a \in Nat /\ b \in Nat /\ (a - ti) - (b - tj) >= -1 /\ (a - ti) - (b - tj) <= wraps
    BY <2>1, <2>5
  <2>7. Good
    <3>a. i \in Nat /\ j \in Nat /\ i <= n /\ j <= n /\ r \in Nat /\ r <= n - 1
      BY <1>1
    <3>1. CASE j <= r
      <4>1. ti = 1 /\ tj = 1 /\ x = a /\ y = b
        BY <1>6, <2>2, <2>4, <3>1, <3>a
      <4>2. (ui = 1 /\ uj = 1) \/ (ui = 0 /\ uj = 0)
        BY <1>1, <1>6, <2>2, <3>1, <3>a
      <4> HIDE DEF a, b, x, y
      <4> QED
        BY <2>6, <4>1, <4>2
    <3>2. CASE i <= r /\ j = r + 1
      <4>1. ti = 1 /\ tj = 0 /\ x = a /\ y = b + 1
        BY <1>6, <2>2, <2>4, <3>2, <3>a
      <4>2. (ui = 1 /\ uj = 1) \/ (ui = 0 /\ uj = 0)
        BY <1>1, <1>6, <2>2, <3>2, <3>a
      <4> HIDE DEF a, b, x, y
      <4> QED
        BY <2>6, <4>1, <4>2
    <3>3. CASE i <= r /\ j > r + 1
      <4>1. ti = 1 /\ tj = 0 /\ x = a /\ y = b
        BY <1>6, <2>2, <2>4, <3>3, <3>a
      <4>2. ui = 1 /\ uj = 0
        BY <1>1, <1>6, <2>2, <3>3, <3>a
      <4> HIDE DEF a, b, x, y
      <4> QED
        BY <2>6, <4>1, <4>2
    <3>4. CASE i = r + 1
      <4>1. ti = 0 /\ tj = 0 /\ x = a + 1 /\ y = b
        BY <1>6, <2>2, <2>4, <3>4, <3>a
      <4>2. ui = 1 /\ uj = 0
        BY <1>1, <1>6, <2>2, <3>4, <3>a
      <4> HIDE DEF a, b, x, y
      <4> QED
        BY <2>6, <4>1, <4>2
    <3>5. CASE i > r + 1
      <4>1. ti = 0 /\ tj = 0 /\ x = a /\ y = b
        BY <1>6, <2>2, <2>4, <3>5, <3>a
      <4>2. ui = 0 /\ uj = 0
        BY <1>1, <1>6, <2>2, <3>5, <3>a
      <4> HIDE DEF a, b, x, y
      <4> QED
        BY <2>6, <4>1, <4>2
    <3>6. \/ j <= r \/ (i <= r /\ j = r + 1) \/ (i <= r /\ j > r + 1) \/ i = r + 1 \/ i > r + 1
      BY <1>6, <3>a
    <3> QED
      BY <3>1, <3>2, <3>3, <3>4, <3>5, <3>6
  <2>8. after[i] \in Nat /\ after[j] \in Nat
    OBVIOUS
  <2>9. (x - Turn(i, n, 0)) - (y - Turn(j, n, 0)) = x - y
    <3> HIDE DEF x, y
    <3>1. x \in Nat /\ y \in Nat
      BY <2>8 DEF x, y
    <3> QED
      BY <2>3, <3>1
  <2>10. /\ (x - ui) - (y - uj) >= -1 /\ (x - ui) - (y - uj) <= wraps
         /\ (x - Turn(i, n, 0)) - (y - Turn(j, n, 0)) >= -1
         /\ (x - Turn(i, n, 0)) - (y - Turn(j, n, 0)) <= wraps + 1
    <3> HIDE DEF x, y
    <3> QED
      BY <2>7, <2>9
  <2> QED
    BY <2>10, Zenon DEF ui, uj
<1> QED
  BY <1>6 DEF Even

(* How often each position of a ring was served. *)
Counts(ring, tally) == [i \in 1 .. Len(ring) |-> tally[ring[i]]]

(* A ring of different workers whose counts are even for this cursor. *)
Fair(ring, tally, wraps, c) ==
    /\ ring \in Seq(Nat)
    /\ \A i, j \in 1 .. Len(ring) : ring[i] = ring[j] => i = j
    /\ tally \in [ToSet(ring) -> Nat]
    /\ wraps \in Nat
    /\ Even(Len(ring), c, Counts(ring, tally), wraps)

RingInv ==
    /\ cursor \in 0 .. 2 ^ TokenWidth - 1
    /\ Fair(window.ring, window.tally, window.wraps, cursor)

(* Even counts less the current turn are even counts. *)
LEMMA RingIsEven == RingInv => RoundRobinEven
<1> SUFFICES ASSUME RingInv, NEW v \in ToSet(window.ring), NEW w \in ToSet(window.ring)
             PROVE  window.tally[v] - window.tally[w] <= 1 + window.wraps
  BY DEF RoundRobinEven
<1> DEFINE ring == window.ring
           tally == window.tally
           n == Len(ring)
           wraps == window.wraps
           r == cursor % n
<1>1. /\ ring \in Seq(Nat) /\ tally \in [ToSet(ring) -> Nat] /\ wraps \in Nat /\ cursor \in Nat
      /\ Even(n, cursor, Counts(ring, tally), wraps)
  BY DEF RingInv, Fair
<1> HIDE DEF ring, tally, wraps
<1>2. n \in Nat /\ DOMAIN ring = 1 .. n
  BY <1>1
<1>3. PICK i \in 1 .. n : v = ring[i]
  BY <1>2 DEF ToSet, ring
<1>4. PICK j \in 1 .. n : w = ring[j]
  BY <1>2 DEF ToSet, ring
<1> HIDE DEF n
<1>5. tally[v] \in Nat /\ tally[w] \in Nat
  BY <1>1 DEF ring
<1>6. Counts(ring, tally)[i] = tally[v] /\ Counts(ring, tally)[j] = tally[w]
  BY <1>3, <1>4 DEF Counts, n
<1>7. r \in 0 .. n - 1
  BY <1>1, <1>2, NextPosition
<1> HIDE DEF r
<1>8. /\ Turn(i, n, cursor) = IF i <= r THEN 1 ELSE 0
      /\ Turn(j, n, cursor) = IF j <= r THEN 1 ELSE 0
  BY DEF Turn, r
<1>9. i \in Nat /\ j \in Nat /\ r \in Nat
  BY <1>2, <1>7
<1>10. CASE i = j
  BY <1>1, <1>3, <1>4, <1>5, <1>10 DEF tally, wraps
<1>11. CASE i < j
  <2>1. (tally[v] - Turn(i, n, cursor)) - (tally[w] - Turn(j, n, cursor)) <= wraps
    BY <1>1, <1>6, <1>11 DEF Even
  <2>2. Turn(i, n, cursor) = Turn(j, n, cursor) \/ (Turn(i, n, cursor) = 1 /\ Turn(j, n, cursor) = 0)
    BY <1>8, <1>9, <1>11
  <2>3. tally[v] - tally[w] <= 1 + wraps
    BY <1>1, <1>5, <1>8, <2>1, <2>2
  <2> QED
    BY <2>3 DEF tally, wraps
<1>12. CASE j < i
  <2>1. (tally[w] - Turn(j, n, cursor)) - (tally[v] - Turn(i, n, cursor)) >= -1
    BY <1>1, <1>6, <1>12 DEF Even
  <2>2. Turn(j, n, cursor) = Turn(i, n, cursor) \/ (Turn(j, n, cursor) = 1 /\ Turn(i, n, cursor) = 0)
    BY <1>8, <1>9, <1>12
  <2>3. tally[v] - tally[w] <= 1 + wraps
    BY <1>1, <1>5, <1>8, <2>1, <2>2
  <2> QED
    BY <2>3 DEF tally, wraps
<1> QED
  BY <1>9, <1>10, <1>11, <1>12

\* What a round robin needs of a list of workers: its IDs, all different.
RingOf(list, ring) ==
    /\ Len(list) \in Nat /\ DOMAIN list = 1 .. Len(list)
    /\ list # <<>> => Len(list) # 0
    /\ ring \in Seq(Nat) /\ Len(ring) = Len(list)
    /\ \A i \in 1 .. Len(list) : ring[i] = list[i].id
    /\ \A i, j \in 1 .. Len(list) : ring[i] = ring[j] => i = j

(* The eligible workers form a ring of different IDs. *)
LEMMA CandidateRing ==
    ASSUME NEW p, NEW x
    PROVE  RingOf(Candidates(p, Snapshot, x),
                  [i \in DOMAIN Candidates(p, Snapshot, x) |-> Candidates(p, Snapshot, x)[i].id])
<1> DEFINE e == Candidates(p, Snapshot, x)
           t == ByID(Snapshot)
           N == Cardinality(Workers)
           ring == [i \in DOMAIN e |-> e[i].id]
<1>1. Listing(t, N) /\ Collected(p, x, t, N, e)
  BY SnapshotListing, ByIDKeeps, CandidatesCollect
<1> HIDE DEF e, t, N
<1>2. /\ e \in Seq(ToSet(t)) /\ Ascending(e, Len(e))
  BY <1>1 DEF Collected
<1>3. /\ Len(e) \in Nat /\ DOMAIN e = 1 .. Len(e) /\ (e # <<>> => Len(e) # 0)
      /\ \A i \in 1 .. Len(e) : e[i] \in ToSet(t)
  BY <1>2
<1>4. \A v \in ToSet(t) : v.id \in Nat
  BY <1>1 DEF Listing, ToSet
<1>5. \A i \in 1 .. Len(e) : e[i].id \in Nat
  BY <1>3, <1>4
<1>6. ring \in Seq(Nat) /\ Len(ring) = Len(e) /\ \A i \in 1 .. Len(e) : ring[i] = e[i].id
  BY <1>3, <1>5
<1>7. ASSUME NEW i \in 1 .. Len(e), NEW j \in 1 .. Len(e), e[i].id = e[j].id PROVE i = j
  <2>1. ~ (i < j) /\ ~ (j < i)
    BY <1>2, <1>5, <1>7 DEF Ascending
  <2> QED
    BY <1>3, <2>1
<1> HIDE DEF ring
<1>8. \A i, j \in 1 .. Len(e) : ring[i] = ring[j] => i = j
  BY <1>6, <1>7
<1>9. RingOf(e, ring)
  BY <1>3, <1>6, <1>8 DEF RingOf
<1> QED
  BY <1>9 DEF e, ring

(* Counting the worker of the cursor's position keeps a ring fair. *)
LEMMA FairNext ==
    ASSUME NEW ring, NEW tally, NEW wraps, NEW c \in Nat, Fair(ring, tally, wraps, c),
           Len(ring) # 0
    PROVE  LET counted == [tally EXCEPT ![ring[(c % Len(ring)) + 1]] = @ + 1]
           IN  Fair(ring, counted, wraps, c + 1) /\ Fair(ring, counted, wraps + 1, 0)
<1> DEFINE n == Len(ring)
           k == (c % n) + 1
           counted == [tally EXCEPT ![ring[k]] = @ + 1]
           count == Counts(ring, tally)
           after == Counts(ring, counted)
<1>1. /\ ring \in Seq(Nat) /\ tally \in [ToSet(ring) -> Nat] /\ wraps \in Nat
      /\ \A i, j \in 1 .. n : ring[i] = ring[j] => i = j
      /\ Even(n, c, count, wraps)
  BY DEF Fair
<1>2. n \in Nat \ {0} /\ DOMAIN ring = 1 .. n
  BY <1>1
<1>3. \A i \in 1 .. n : ring[i] \in ToSet(ring)
  BY <1>2 DEF ToSet
<1> HIDE DEF n
<1>4. k \in 1 .. n
  <2>1. c % n \in 0 .. n - 1
    BY <1>2, NextPosition
  <2> QED
    BY <1>2, <2>1
<1> HIDE DEF k
<1>5. counted \in [ToSet(ring) -> Nat]
  BY <1>1, <1>3, <1>4
<1>6. \A i \in 1 .. n : counted[ring[i]] = IF i = k THEN tally[ring[i]] + 1 ELSE tally[ring[i]]
  BY <1>1, <1>3, <1>4
<1> HIDE DEF counted
<1>7. count \in [1 .. n -> Nat] /\ \A i \in 1 .. n : count[i] = tally[ring[i]]
  BY <1>1, <1>3 DEF Counts, n
<1>8. after \in [1 .. n -> Nat] /\ \A i \in 1 .. n : after[i] = counted[ring[i]]
  BY <1>3, <1>5 DEF Counts, n
<1> HIDE DEF count, after
<1>9. \A i \in 1 .. n : after[i] = IF i = (c % n) + 1 THEN count[i] + 1 ELSE count[i]
  BY <1>6, <1>7, <1>8 DEF k
<1>10. Even(n, c + 1, after, wraps) /\ Even(n, 0, after, wraps + 1)
  BY <1>1, <1>2, <1>7, <1>8, <1>9, EvenNext
<1>11. wraps + 1 \in Nat
  BY <1>1
<1>12. Fair(ring, counted, wraps, c + 1) /\ Fair(ring, counted, wraps + 1, 0)
  BY <1>1, <1>5, <1>10, <1>11 DEF Fair, n, after
<1> QED
  BY <1>12 DEF counted, k, n

(* A selection keeps the ring fair, whether the list is the one of the last    *)
(* selection or a new one.                                                   *)
LEMMA RingSelect ==
    ASSUME RingInv, SelectWorker, policy = "round_robin"
    PROVE  RingInv'
<1> DEFINE e == Candidates(policy, Snapshot, excluded)
           ring == [i \in DOMAIN e |-> e[i].id]
           k == (cursor % Len(ring)) + 1
           same == window.ring = ring
           tally == IF same THEN window.tally ELSE [v \in ToSet(ring) |-> 0]
           wraps == IF same THEN window.wraps ELSE 0
           counted == [tally EXCEPT ![ring[k]] = @ + 1]
           M == 2 ^ TokenWidth
<1>0. cursor \in 0 .. M - 1 /\ cursor \in Nat /\ M \in Nat \ {0}
  BY WidthAssumption DEF RingInv
<1>1. /\ Len(e) \in Nat /\ Len(ring) = Len(e) /\ Len(ring) # 0 /\ ring \in Seq(Nat)
      /\ \A i \in 1 .. Len(ring) : ring[i] = e[i].id
      /\ \A i, j \in 1 .. Len(ring) : ring[i] = ring[j] => i = j
  <2>1. e # <<>>
    BY DEF SelectWorker
  <2>2. RingOf(e, ring)
    BY CandidateRing, Zenon
  <2> HIDE DEF e, ring
  <2> QED
    BY <2>1, <2>2 DEF RingOf
<1> HIDE DEF M
<1>2. k \in 1 .. Len(ring)
  <2> DEFINE n == Len(ring)
  <2>1. n \in Nat \ {0}
    BY <1>1
  <2> HIDE DEF n
  <2>2. cursor % n \in 0 .. n - 1
    BY <1>0, <2>1, NextPosition
  <2>3. (cursor % n) + 1 \in 1 .. n
    BY <2>1, <2>2
  <2> QED
    BY <2>3 DEF n
<1>3. Selected(policy, request, e, cursor).id = ring[k]
  <2>1. Selected(policy, request, e, cursor) = e[(cursor % Len(e)) + 1]
    BY DEF Selected
  <2> HIDE DEF e
  <2> QED
    BY <1>1, <1>2, <2>1
<1>4. /\ cursor' = Advanced(cursor)
      /\ window' = Counted(ring, ring[k])
  <2>1. window' = Counted(ring, Selected(policy, request, e, cursor).id) /\ cursor' = Advanced(cursor)
    BY Zenon DEF SelectWorker
  <2> HIDE DEF ring, e
  <2> QED
    BY <1>3, <2>1
<1> HIDE DEF e, k
<1>5. Fair(ring, tally, wraps, cursor)
  <2>1. CASE same
    BY <2>1 DEF RingInv
  <2>2. CASE ~ same
    <3> DEFINE zero == [v \in ToSet(ring) |-> 0]
    <3> HIDE DEF ring
    <3>1. zero \in [ToSet(ring) -> Nat] /\ Len(ring) \in Nat \ {0} /\ DOMAIN ring = 1 .. Len(ring)
      BY <1>1
    <3>2. \A i \in 1 .. Len(ring) : Counts(ring, zero)[i] = 0
      BY <3>1 DEF Counts, ToSet
    <3> HIDE DEF zero
    <3>3. Even(Len(ring), cursor, Counts(ring, zero), 0)
      BY <1>0, <3>1, <3>2, EvenStart
    <3>4. Fair(ring, zero, 0, cursor)
      BY <1>1, <3>1, <3>3 DEF Fair
    <3> QED
      BY <2>2, <3>4 DEF zero
  <2> QED
    BY <2>1, <2>2
<1>6. Fair(ring, counted, wraps, cursor + 1) /\ Fair(ring, counted, wraps + 1, 0)
  <2> HIDE DEF ring, tally, wraps
  <2> QED
    BY <1>0, <1>1, <1>5, FairNext DEF k
<1>7. /\ window'.ring = ring
      /\ window'.tally = counted
      /\ window'.wraps = wraps + (IF Advanced(cursor) = 0 THEN 1 ELSE 0)
  BY <1>4 DEF Counted
<1> HIDE DEF ring, counted, tally
<1>8. wraps \in Nat
  BY <1>5 DEF Fair
<1> HIDE DEF wraps
<1>9. Advanced(cursor) = (cursor + 1) % M
  BY DEF Advanced, M
<1>10. CASE cursor + 1 = M
  <2>1. M % M = 0
    BY <1>0
  <2>2. cursor' = 0 /\ window'.wraps = wraps + 1
    BY <1>4, <1>7, <1>9, <1>10, <2>1
  <2>3. cursor' \in 0 .. M - 1
    BY <1>0, <2>2
  <2> QED
    BY <1>6, <1>7, <2>2, <2>3 DEF RingInv, M
<1>11. CASE cursor + 1 # M
  <2>1. cursor + 1 \in 0 .. M - 1
    BY <1>0, <1>11
  <2>2. (cursor + 1) % M = cursor + 1
    BY <1>0, <2>1
  <2>3. cursor' = cursor + 1 /\ window'.wraps = wraps
    BY <1>0, <1>4, <1>7, <1>8, <1>9, <2>2
  <2> QED
    BY <1>6, <1>7, <2>1, <2>3 DEF RingInv, M
<1> QED
  BY <1>10, <1>11

(* The ring of the last selections stays fair. *)
LEMMA RingHolds == Spec => []RingInv
<1>1. Init => RingInv
  <2> SUFFICES ASSUME Init PROVE RingInv
    OBVIOUS
  <2>1. cursor \in 0 .. 2 ^ TokenWidth - 1
    BY WidthAssumption DEF Init
  <2>2. window.ring = <<>> /\ window.tally = <<>> /\ window.wraps = 0
    BY DEF Init, NoWindow
  <2>3. Fair(<<>>, <<>>, 0, cursor)
    BY DEF Fair, Even, ToSet
  <2> QED
    BY <2>1, <2>2, <2>3 DEF RingInv
<1>2. RingInv /\ [Next]_vars => RingInv'
  <2> SUFFICES ASSUME RingInv, [Next]_vars PROVE RingInv'
    OBVIOUS
  <2>1. CASE UNCHANGED <<cursor, window>>
    BY <2>1 DEF RingInv
  <2>2. CASE SelectWorker
    <3>1. CASE policy = "round_robin"
      BY <2>2, <3>1, RingSelect
    <3>2. CASE policy # "round_robin"
      BY <2>1, <2>2, <3>2 DEF SelectWorker, historyVars
    <3> QED
      BY <3>1, <3>2
  <2>3. CASE BadRequest \/ Admitted \/ Retry \/ AttemptOver \/ NoEligibleWorker \/ UNCHANGED vars
    BY <2>1, <2>3
    DEF BadRequest, Admitted, Retry, AttemptOver, NoEligibleWorker, NobodyEligible, vars, historyVars
  <2>4. CASE \E body \in Bodies, header \in Headers : ParseRequest(body, header)
    BY <2>1, <2>4 DEF ParseRequest, historyVars
  <2>5. CASE \E w \in Workers : \E report \in Reports[policy] : Report(w, report)
    BY <2>1, <2>5 DEF Report, historyVars
  <2> QED
    BY <2>2, <2>3, <2>4, <2>5 DEF Next
<1> QED
  BY <1>1, <1>2, PTL DEF Spec

(* Round-robin selections over an unchanged list are even up to one, and one   *)
(* more for each wrap of the cursor.                                         *)
THEOREM RoundRobinIsEven == Spec => []RoundRobinEven
BY RingHolds, RingIsEven, PTL

-----------------------------------------------------------------------------
(* Scores.  An element that no other exceeds is the maximum. *)
LEMMA MaxIs ==
    ASSUME NEW S \in SUBSET Int, NEW x \in S, \A y \in S : y <= x
    PROVE  Max(S) = x
<1>1. Max(S) \in S /\ \A y \in S : Max(S) >= y
  <2>1. \E z \in S : \A y \in S : z >= y
    OBVIOUS
  <2> QED
    BY <2>1, Zenon DEF Max
<1> DEFINE m == Max(S)
<1>2. m \in S /\ m \in Int /\ x \in Int /\ m >= x /\ m <= x
  BY <1>1
<1> HIDE DEF m
<1>3. m = x
  BY <1>2
<1> QED
  BY <1>3 DEF m

(* The greater of two numbers. *)
LEMMA MaxOfTwo ==
    ASSUME NEW a \in Int, NEW b \in Int
    PROVE  Max({a, b}) = IF a >= b THEN a ELSE b
<1>1. CASE a >= b
  BY <1>1, MaxIs
<1>2. CASE ~ (a >= b)
  BY <1>2, MaxIs
<1> QED
  BY <1>1, <1>2

(* Numbers below a bound have a maximum among them. *)
LEMMA MaxExists ==
    ASSUME NEW S \in SUBSET Nat, NEW b \in Nat, S # {}, \A y \in S : y <= b
    PROVE  Max(S) \in S /\ \A y \in S : y <= Max(S)
<1> DEFINE T == {k \in Nat : \A y \in S : y <= k}
<1>1. PICK k \in T : \A z \in T : k <= z
  <2>1. T \in SUBSET Nat /\ b \in T
    OBVIOUS
  <2> HIDE DEF T
  <2> QED
    BY <2>1, SmallestNumber
<1>2. k \in S
  <2>1. SUFFICES ASSUME k \notin S PROVE FALSE
    OBVIOUS
  <2>2. \A y \in S : y < k
    BY <2>1
  <2>a. PICK y \in S : TRUE
    OBVIOUS
  <2>b. y \in Nat /\ k \in Nat /\ y < k
    BY <2>2, <2>a
  <2>3. k - 1 \in Nat
    BY <2>b
  <2>4. ASSUME NEW z \in S PROVE z <= k - 1
    <3>1. z \in Nat /\ z < k /\ k \in Nat
      BY <2>2
    <3> QED
      BY <3>1
  <2>5. k - 1 \in T
    BY <2>3, <2>4
  <2> QED
    BY <1>1, <2>5
<1>3. Max(S) = k
  BY <1>2, MaxIs
<1> QED
  BY <1>2, <1>3

(* Two scores count as equal when neither exceeds the other by more than the  *)
(* tolerance.                                                                *)
LEMMA IndistinctMeans ==
    ASSUME NEW p, NEW a \in Int, NEW b \in Int
    PROVE  LET t == IF p = "least_waiting_tokens" THEN 0 ELSE Tolerance
           IN  Indistinct(p, a, b) <=> (a <= b + t /\ b <= a + t)
<1> DEFINE t == IF p = "least_waiting_tokens" THEN 0 ELSE Tolerance
<1>1. t \in Nat
  BY ReportAssumption DEF ReportAssumption
<1>2. Indistinct(p, a, b) <=> Max({a - b, b - a}) <= t
  BY Zenon DEF Indistinct
<1> HIDE DEF t
<1>3. Max({a - b, b - a}) = IF a - b >= b - a THEN a - b ELSE b - a
  BY MaxOfTwo
<1>4. Indistinct(p, a, b) <=> (a <= b + t /\ b <= a + t)
  BY <1>1, <1>2, <1>3
<1> QED
  BY <1>4 DEF t

(* The numbers of whole blocks of a prompt that a worker has cached. *)
Held(blocks, cached) ==
    {n \in 1 .. Len(blocks) : \E c \in ToSet(cached) : c.sha = SubSeq(blocks, 1, n)}

(* A product grows with its factor. *)
LEMMA ProductGrows ==
    ASSUME NEW b \in Nat, NEW h \in Nat, NEW m \in Nat, h <= m
    PROVE  b * h \in Nat /\ b * m \in Nat /\ b * h <= b * m
<1>1. m - h \in Nat /\ m = h + (m - h)
  OBVIOUS
<1>2. ASSUME NEW d \in Nat PROVE b * (h + d) = b * h + b * d /\ b * d \in Nat /\ b * h \in Nat
  OBVIOUS
<1>3. b * m = b * h + b * (m - h) /\ b * (m - h) \in Nat /\ b * h \in Nat
  BY <1>1, <1>2
<1> QED
  BY <1>3

(* The greatest length cached under a prefix's hash is the prefix's length if  *)
(* the prefix is cached, and not otherwise.                                  *)
LEMMA CachedLength ==
    ASSUME NEW sha, NEW k \in Nat \ {0}, Len(sha) = k, NEW cached,
           \A c \in ToSet(cached) : c.tokenCount = BlockTokens * Len(c.sha)
    PROVE  (Max({0} \union {c.tokenCount : c \in {d \in ToSet(cached) : d.sha = sha}}) = k * BlockTokens)
               <=> \E c \in ToSet(cached) : c.sha = sha
<1> DEFINE C == {0} \union {c.tokenCount : c \in {d \in ToSet(cached) : d.sha = sha}}
           t == k * BlockTokens
<1>1. t \in Nat /\ t # 0 /\ BlockTokens * k = t
  BY ReportAssumption DEF ReportAssumption
<1>2. \A c \in ToSet(cached) : c.sha = sha => c.tokenCount = t
  BY <1>1
<1> HIDE DEF t
<1>3. CASE \E c \in ToSet(cached) : c.sha = sha
  <2>1. C = {0, t}
    BY <1>2, <1>3
  <2> HIDE DEF C
  <2>2. Max(C) = t
    BY <1>1, <2>1, MaxIs
  <2> QED
    BY <1>3, <2>2 DEF C, t
<1>4. CASE ~ \E c \in ToSet(cached) : c.sha = sha
  <2>1. C = {0}
    BY <1>4
  <2> HIDE DEF C
  <2>2. Max(C) = 0
    BY <2>1, MaxIs
  <2> QED
    BY <1>1, <1>4, <2>2 DEF C, t
<1> QED
  BY <1>3, <1>4

(* What a request matches is its longest cached prefix, for a cache whose     *)
(* lengths are the prefixes' own.                                            *)
LEMMA MatchIsLongest ==
    ASSUME NEW S, NEW blocks \in Seq(S), NEW cached,
           \A c \in ToSet(cached) : c.tokenCount = BlockTokens * Len(c.sha)
    PROVE  /\ LongestMatch(Fingerprints(blocks), cached) = BlockTokens * Max({0} \union Held(blocks, cached))
           /\ LongestMatch(Fingerprints(blocks), cached) \in Nat
<1> DEFINE n == Len(blocks)
           F == Fingerprints(blocks)
           held == Held(blocks, cached)
           cache(sha) == Max({0} \union {c.tokenCount : c \in {d \in ToSet(cached) : d.sha = sha}})
           D == {0} \union {f.tokenCount : f \in {g \in ToSet(F) : cache(g.sha) = g.tokenCount}}
           H == {0} \union held
           m == Max(H)
           B == BlockTokens
<1>1. LongestMatch(F, cached) = Max(D)
  BY Zenon DEF LongestMatch
<1>2. n \in Nat /\ B \in Nat \ {0}
  BY ReportAssumption DEF ReportAssumption
<1>3. DOMAIN F = 1 .. n /\ \A k \in 1 .. n : F[k].tokenCount = k * B /\ F[k].sha = SubSeq(blocks, 1, k)
  BY DEF Fingerprints
<1>4. ASSUME NEW k \in 1 .. n PROVE cache(F[k].sha) = F[k].tokenCount <=> k \in held
  <2>1. Len(SubSeq(blocks, 1, k)) = k /\ k \in Nat \ {0}
    <3>1. \A i \in 1 .. k : blocks[i] \in S
      BY <1>2
    <3> QED
      BY <1>2, <3>1, SubSeqProperties
  <2>2. cache(SubSeq(blocks, 1, k)) = k * B <=> \E c \in ToSet(cached) : c.sha = SubSeq(blocks, 1, k)
    BY <2>1, CachedLength
  <2>3. k \in held <=> \E c \in ToSet(cached) : c.sha = SubSeq(blocks, 1, k)
    BY DEF Held
  <2> HIDE DEF cache, held
  <2> QED
    BY <1>3, <2>2, <2>3
<1>5. held \subseteq 1 .. n
  BY DEF Held
<1> HIDE DEF cache, held, F
<1>6. \A v : v \in D <=> v = 0 \/ \E k \in held : v = k * B
  <2>1. \A g : g \in ToSet(F) <=> \E k \in 1 .. n : g = F[k]
    BY <1>3, Zenon DEF ToSet
  <2>2. \A v : v \in D <=> v = 0 \/ \E g \in ToSet(F) : cache(g.sha) = g.tokenCount /\ v = g.tokenCount
    OBVIOUS
  <2> HIDE DEF D
  <2>3. ASSUME NEW v \in D, v # 0 PROVE \E k \in held : v = k * B
    <3>1. PICK g \in ToSet(F) : cache(g.sha) = g.tokenCount /\ v = g.tokenCount
      BY <2>2, <2>3
    <3>2. PICK k \in 1 .. n : g = F[k]
      BY <2>1
    <3>3. k \in held
      BY <1>4, <3>1, <3>2
    <3>4. v = k * B
      BY <1>3, <3>1, <3>2
    <3> QED
      BY <3>3, <3>4
  <2>4. ASSUME NEW k \in held PROVE k * B \in D
    <3>1. k \in 1 .. n /\ F[k] \in ToSet(F)
      BY <1>5, <2>1
    <3>2. cache(F[k].sha) = F[k].tokenCount
      BY <1>4, <3>1
    <3>3. F[k].tokenCount = k * B
      BY <1>3, <3>1
    <3> QED
      BY <2>2, <3>1, <3>2, <3>3
  <2>5. 0 \in D
    BY <2>2
  <2> QED
    BY <2>3, <2>4, <2>5
<1> HIDE DEF n, B
<1>7. m \in H /\ \A y \in H : y <= m
  <2>1. H \in SUBSET Nat /\ H # {} /\ \A y \in H : y <= n
    BY <1>2, <1>5
  <2> HIDE DEF H
  <2> QED
    BY <1>2, <2>1, MaxExists
<1> HIDE DEF m, D
<1>8. m \in Nat /\ B * m \in Nat /\ B * m \in D
  <2>1. CASE m = 0
    BY <1>2, <1>6, <2>1
  <2>2. CASE m \in held
    <3>1. m \in Nat
      BY <1>2, <1>5, <2>2
    <3>2. B * m = m * B /\ B * m \in Nat
      BY <1>2, <3>1
    <3> QED
      BY <1>6, <2>2, <3>1, <3>2
  <2> QED
    BY <1>7, <2>1, <2>2
<1>9. ASSUME NEW v \in D PROVE v \in Nat /\ v <= B * m
  <2>1. CASE v = 0
    BY <1>8, <2>1
  <2>2. CASE \E k \in held : v = k * B
    <3>1. PICK k \in held : v = k * B
      BY <2>2
    <3>2. k \in Nat /\ k <= m /\ v = B * k
      BY <1>2, <1>5, <1>7, <3>1
    <3> QED
      BY <1>2, <1>8, <3>2, ProductGrows
  <2> QED
    BY <1>6, <2>1, <2>2
<1>10. Max(D) = B * m
  <2>1. D \in SUBSET Int
    BY <1>9
  <2> QED
    BY <1>8, <1>9, <2>1, MaxIs
<1> QED
  BY <1>1, <1>8, <1>10 DEF F, B, m, held

-----------------------------------------------------------------------------
(* What comparisons need of a worker. *)
Scored(p, q, w) ==
    Score(p, q, w) \in Int /\ MatchedTokens(q, w) \in Int /\ w.id \in Nat

(* Equal scores, or scores clearly apart. *)
Apart(p, q, v, w) ==
    \/ Score(p, q, v) = Score(p, q, w)
    \/ ~ Indistinct(p, Score(p, q, v), Score(p, q, w))

(* The documented order: the score, more matched tokens, the ID. *)
Better(p, q, v, w) ==
    \/ Score(p, q, v) < Score(p, q, w)
    \/ /\ Score(p, q, v) = Score(p, q, w)
       /\ IF p = "least_waiting_tokens" \/ MatchedTokens(q, v) = MatchedTokens(q, w)
          THEN v.id < w.id ELSE MatchedTokens(q, v) > MatchedTokens(q, w)

(* less prefers a worker only if its score exceeds the other's by at most the  *)
(* tolerance, and is the documented order for scores equal or clearly apart.  *)
LEMMA LessMeans ==
    ASSUME NEW p, NEW q, NEW v, NEW w, Scored(p, q, v), Scored(p, q, w)
    PROVE  /\ Less(p, q, v, w) => Score(p, q, v) <= Score(p, q, w) + Tolerance
           /\ ~ Less(p, q, v, w) => Score(p, q, w) <= Score(p, q, v) + Tolerance
           /\ Apart(p, q, v, w) => (Less(p, q, v, w) <=> Better(p, q, v, w))
<1> DEFINE a == Score(p, q, v)
           b == Score(p, q, w)
           m == MatchedTokens(q, v)
           n == MatchedTokens(q, w)
           lwt == p = "least_waiting_tokens"
           close == Indistinct(p, a, b)
<1>1. a \in Int /\ b \in Int /\ m \in Int /\ n \in Int /\ v.id \in Nat /\ w.id \in Nat
  BY DEF Scored
<1>2. Tolerance \in Nat
  BY ReportAssumption DEF ReportAssumption
<1>3. /\ close => a <= b + Tolerance /\ b <= a + Tolerance
      /\ a = b => close
  <2> HIDE DEF a, b
  <2>1. close <=> LET t == IF lwt THEN 0 ELSE Tolerance IN a <= b + t /\ b <= a + t
    BY <1>1, IndistinctMeans
  <2> HIDE DEF close
  <2> QED
    BY <1>1, <1>2, <2>1
<1>4. Less(p, q, v, w) <=> (IF ~ close THEN a < b ELSE IF ~ lwt /\ m # n THEN m > n ELSE v.id < w.id)
  BY Zenon DEF Less
<1>5. Better(p, q, v, w) <=> (a < b \/ (a = b /\ (IF lwt \/ m = n THEN v.id < w.id ELSE m > n)))
  BY Zenon DEF Better
<1>6. Apart(p, q, v, w) <=> (a = b \/ ~ close)
  BY Zenon DEF Apart
<1> HIDE DEF a, b, m, n, lwt, close
<1>7. /\ Less(p, q, v, w) => a <= b + Tolerance
      /\ ~ Less(p, q, v, w) => b <= a + Tolerance
  BY <1>1, <1>2, <1>3, <1>4
<1>8. Apart(p, q, v, w) => (Less(p, q, v, w) <=> Better(p, q, v, w))
  BY <1>1, <1>3, <1>4, <1>5, <1>6
<1> QED
  BY <1>7, <1>8 DEF a, b

(* The documented order is one: it is transitive, and ranks any two workers. *)
LEMMA BetterOrders ==
    ASSUME NEW p, NEW q, NEW u, NEW v, NEW w, Scored(p, q, u), Scored(p, q, v), Scored(p, q, w)
    PROVE  /\ Better(p, q, u, v) /\ Better(p, q, v, w) => Better(p, q, u, w)
           /\ u.id # v.id => Better(p, q, u, v) \/ Better(p, q, v, u)
<1>1. /\ Score(p, q, u) \in Int /\ Score(p, q, v) \in Int /\ Score(p, q, w) \in Int
      /\ MatchedTokens(q, u) \in Int /\ MatchedTokens(q, v) \in Int /\ MatchedTokens(q, w) \in Int
      /\ u.id \in Nat /\ v.id \in Nat /\ w.id \in Nat
  BY DEF Scored
<1>2. CASE p = "least_waiting_tokens"
  BY <1>1, <1>2 DEF Better
<1>3. CASE p # "least_waiting_tokens"
  BY <1>1, <1>3 DEF Better
<1> QED
  BY <1>2, <1>3

(* The scan over the first m candidates. *)
Scanning(p, q, e, m, f) ==
    f = [n \in 1 .. m |->
            IF n = 1 THEN e[1]
            ELSE IF Less(p, q, e[n], f[n - 1]) THEN e[n] ELSE f[n - 1]]

(* The scan is well defined for every number of candidates. *)
LEMMA ScanningExists ==
    ASSUME NEW p, NEW q, NEW e, NEW size \in Nat
    PROVE  \E f : Scanning(p, q, e, size, f)
<1> DEFINE T == {m \in Nat : ~ \E f : Scanning(p, q, e, m, f)}
<1>1. SUFFICES ASSUME T # {} PROVE FALSE
  OBVIOUS
<1>2. PICK m \in T : \A y \in T : m <= y
  <2>1. T \in SUBSET Nat
    OBVIOUS
  <2> HIDE DEF T
  <2> QED
    BY <1>1, <2>1, SmallestNumber
<1>3. m # 0
  <2>1. 1 .. 0 = {}
    OBVIOUS
  <2>2. Scanning(p, q, e, 0, [n \in 1 .. 0 |-> e[1]])
    BY <2>1 DEF Scanning
  <2> QED
    BY <1>2, <2>2
<1>4. m - 1 \in Nat /\ m - 1 \notin T
  BY <1>2, <1>3
<1>5. PICK f : Scanning(p, q, e, m - 1, f)
  BY <1>4
<1> DEFINE next(before, n) == IF Less(p, q, e[n], before) THEN e[n] ELSE before
           g == [n \in 1 .. m |->
                   IF n < m THEN f[n] ELSE IF n = 1 THEN e[1] ELSE next(f[m - 1], m)]
<1>6. \A n \in 1 .. m - 1 : f[n] = IF n = 1 THEN e[1] ELSE next(f[n - 1], n)
  <2>1. f = [n \in 1 .. m - 1 |-> IF n = 1 THEN e[1] ELSE next(f[n - 1], n)]
    BY <1>5, Zenon DEF Scanning
  <2> QED
    BY <2>1, Zenon
<1> HIDE DEF next
<1>7. ASSUME NEW n \in 1 .. m
      PROVE  g[n] = IF n = 1 THEN e[1] ELSE next(g[n - 1], n)
  <2>1. CASE n = m /\ n # 1
    <3>1. g[n] = next(f[m - 1], m) /\ g[n - 1] = f[m - 1]
      BY <1>3, <1>4, <2>1
    <3> QED
      BY <2>1, <3>1
  <2>2. CASE n # m /\ n # 1
    <3>1. g[n] = f[n] /\ g[n - 1] = f[n - 1] /\ n \in 1 .. m - 1
      BY <1>4, <2>2
    <3> QED
      BY <1>6, <2>2, <3>1
  <2>3. CASE n = 1 /\ n # m
    <3>1. g[n] = f[1] /\ 1 \in 1 .. m - 1
      BY <1>4, <2>3
    <3> QED
      BY <1>6, <2>3, <3>1
  <2>4. CASE n = 1 /\ n = m
    BY <2>4
  <2> QED
    BY <2>1, <2>2, <2>3, <2>4
<1>8. g = [n \in 1 .. m |-> g[n]]
  OBVIOUS
<1> HIDE DEF g
<1>9. g = [n \in 1 .. m |-> IF n = 1 THEN e[1] ELSE next(g[n - 1], n)]
  BY <1>7, <1>8
<1>10. Scanning(p, q, e, m, g)
  BY <1>9, Zenon DEF Scanning, next
<1> QED
  BY <1>2, <1>10

(* Candidates that can be compared, in ascending order of their IDs. *)
Comparable(p, q, e) ==
    /\ Len(e) \in Nat /\ Ascending(e, Len(e))
    /\ \A i \in 1 .. Len(e) : Scored(p, q, e[i])

(* Any two scores are equal or clearly apart. *)
Clear(p, q, e) == \A i, j \in 1 .. Len(e) : Apart(p, q, e[i], e[j])

(* The worker b is the best of the first n candidates, but for a tolerance for *)
(* each comparison, or exactly when the scores are clear.                    *)
Best(p, q, e, n, b) ==
    \E k \in 1 .. n :
        /\ b = e[k]
        /\ \A i \in 1 .. n : Score(p, q, b) <= Score(p, q, e[i]) + (n - 1) * Tolerance
        /\ Clear(p, q, e) => \A i \in 1 .. n : i # k => Better(p, q, b, e[i])

(* One more comparison. *)
LEMMA BestNext ==
    ASSUME NEW p, NEW q, NEW e, Comparable(p, q, e), NEW n \in 2 .. Len(e), NEW b,
           Best(p, q, e, n - 1, b)
    PROVE  Best(p, q, e, n, IF Less(p, q, e[n], b) THEN e[n] ELSE b)
<1> DEFINE score(w) == Score(p, q, w)
           before == (n - 2) * Tolerance
           after == (n - 1) * Tolerance
<1>1. PICK k \in 1 .. n - 1 :
        /\ b = e[k]
        /\ \A i \in 1 .. n - 1 : score(b) <= score(e[i]) + ((n - 1) - 1) * Tolerance
        /\ Clear(p, q, e) => \A i \in 1 .. n - 1 : i # k => Better(p, q, b, e[i])
  BY Zenon DEF Best
<1>2. /\ Len(e) \in Nat /\ n \in 1 .. Len(e) /\ k \in 1 .. Len(e)
      /\ \A i \in 1 .. n : i \in 1 .. Len(e)
      /\ \A i \in 1 .. n : i = n \/ i \in 1 .. n - 1
  BY DEF Comparable
<1>3. /\ \A i \in 1 .. n : Scored(p, q, e[i])
      /\ Scored(p, q, b)
  BY <1>1, <1>2 DEF Comparable
<1>4. /\ before \in Nat /\ after = before + Tolerance /\ Tolerance \in Nat
      /\ ((n - 1) - 1) * Tolerance = before
  <2>1. Tolerance \in Nat /\ n - 2 \in Nat
    BY ReportAssumption, <1>2 DEF ReportAssumption
  <2>2. ASSUME NEW m \in Nat PROVE m * Tolerance \in Nat /\ (m + 1) * Tolerance = m * Tolerance + Tolerance
    BY <2>1
  <2>3. n - 1 = (n - 2) + 1 /\ (n - 1) - 1 = n - 2
    BY <1>2
  <2>4. (n - 2) * Tolerance \in Nat /\ ((n - 2) + 1) * Tolerance = (n - 2) * Tolerance + Tolerance
    BY <2>1, <2>2
  <2> QED
    BY <2>1, <2>3, <2>4
<1>5. \A i \in 1 .. n - 1 : score(b) <= score(e[i]) + before
  BY <1>1, <1>4
<1> HIDE DEF before, after
<1>6. score(b) \in Int /\ \A i \in 1 .. n : score(e[i]) \in Int
  BY <1>3 DEF Scored
<1>a. n \in 1 .. n /\ k \in 1 .. n /\ k # n
  BY <1>2
<1>7. CASE Less(p, q, e[n], b)
  <2>1. score(e[n]) <= score(b) + Tolerance
    BY <1>3, <1>7, <1>a, LessMeans
  <2>2. ASSUME NEW i \in 1 .. n PROVE score(e[n]) <= score(e[i]) + after
    <3> HIDE DEF score
    <3>1. CASE i = n
      BY <1>4, <1>6, <3>1
    <3>2. CASE i \in 1 .. n - 1
      BY <1>4, <1>5, <1>6, <1>a, <2>1, <3>2
    <3> QED
      BY <1>2, <3>1, <3>2
  <2>3. ASSUME Clear(p, q, e), NEW i \in 1 .. n, i # n PROVE Better(p, q, e[n], e[i])
    <3>1. Better(p, q, e[n], b)
      <4>1. Apart(p, q, e[n], b)
        BY <1>1, <1>2, <2>3 DEF Clear
      <4> QED
        BY <1>3, <1>7, <1>a, <4>1, LessMeans
    <3>2. CASE i = k
      BY <1>1, <3>1, <3>2
    <3>3. CASE i # k
      <4>1. Better(p, q, b, e[i])
        BY <1>1, <1>2, <2>3, <3>3
      <4> QED
        BY <1>3, <1>a, <3>1, <4>1, BetterOrders
    <3> QED
      BY <3>2, <3>3
  <2>4. Best(p, q, e, n, e[n])
    BY <1>a, <2>2, <2>3, Zenon DEF Best, after
  <2> QED
    BY <1>7, <2>4
<1>8. CASE ~ Less(p, q, e[n], b)
  <2>1. score(b) <= score(e[n]) + Tolerance
    BY <1>3, <1>8, <1>a, LessMeans
  <2>2. ASSUME NEW i \in 1 .. n PROVE score(b) <= score(e[i]) + after
    <3> HIDE DEF score
    <3>1. CASE i = n
      BY <1>4, <1>6, <1>a, <2>1, <3>1
    <3>2. CASE i \in 1 .. n - 1
      BY <1>4, <1>5, <1>6, <3>2
    <3> QED
      BY <1>2, <3>1, <3>2
  <2>3. ASSUME Clear(p, q, e), NEW i \in 1 .. n, i # k PROVE Better(p, q, b, e[i])
    <3>1. CASE i = n
      <4>1. Apart(p, q, e[n], b)
        BY <1>1, <1>2, <2>3 DEF Clear
      <4>2. ~ Better(p, q, e[n], b)
        BY <1>3, <1>8, <1>a, <4>1, LessMeans
      <4>3. e[k].id # e[n].id
        <5>1. k < n /\ e[k].id < e[n].id
          BY <1>2 DEF Comparable, Ascending
        <5>2. e[k].id \in Nat /\ e[n].id \in Nat
          BY <1>3, <1>a DEF Scored
        <5> QED
          BY <5>1, <5>2
      <4> QED
        BY <1>1, <1>3, <1>a, <3>1, <4>2, <4>3, BetterOrders
    <3>2. CASE i # n
      BY <1>1, <1>2, <2>3, <3>2
    <3> QED
      BY <3>1, <3>2
  <2>4. Best(p, q, e, n, b)
    BY <1>1, <1>a, <2>2, <2>3, Zenon DEF Best, after
  <2> QED
    BY <1>8, <2>4
<1> QED
  BY <1>7, <1>8

(* The scan finds the best candidate. *)
LEMMA ScanFindsBest ==
    ASSUME NEW p, NEW q, NEW e, Comparable(p, q, e), Len(e) # 0
    PROVE  Best(p, q, e, Len(e), Scan(p, q, e))
<1> DEFINE next(before, n) == IF Less(p, q, e[n], before) THEN e[n] ELSE before
           best[n \in 1 .. Len(e)] ==
               IF n = 1 THEN e[1]
               ELSE IF Less(p, q, e[n], best[n - 1]) THEN e[n] ELSE best[n - 1]
<1>0. Len(e) \in Nat \ {0}
  BY DEF Comparable
<1>1. Scan(p, q, e) = best[Len(e)]
  BY Zenon DEF Scan
<1>2. best = [n \in 1 .. Len(e) |->
                 IF n = 1 THEN e[1]
                 ELSE IF Less(p, q, e[n], best[n - 1]) THEN e[n] ELSE best[n - 1]]
  <2>1. \E f : Scanning(p, q, e, Len(e), f)
    BY <1>0, ScanningExists
  <2>2. \E f : f = [n \in 1 .. Len(e) |->
                 IF n = 1 THEN e[1]
                 ELSE IF Less(p, q, e[n], f[n - 1]) THEN e[n] ELSE f[n - 1]]
    BY <2>1, Zenon DEF Scanning
  <2> QED
    BY <2>2, Zenon
<1> HIDE DEF best
<1>3. \A n \in 1 .. Len(e) : best[n] = IF n = 1 THEN e[1] ELSE next(best[n - 1], n)
  BY <1>2, Zenon
<1> DEFINE T == {n \in 1 .. Len(e) : ~ Best(p, q, e, n, best[n])}
<1>4. T = {}
  <2>1. SUFFICES ASSUME T # {} PROVE FALSE
    OBVIOUS
  <2>2. PICK n \in T : \A y \in T : n <= y
    <3>1. T \in SUBSET Nat
      OBVIOUS
    <3> HIDE DEF T
    <3> QED
      BY <2>1, <3>1, SmallestNumber
  <2>3. n # 1
    <3>1. 1 \in 1 .. Len(e) /\ best[1] = e[1]
      BY <1>0, <1>3
    <3>2. Score(p, q, e[1]) <= Score(p, q, e[1]) + (1 - 1) * Tolerance
      BY <3>1, ReportAssumption DEF ReportAssumption, Comparable, Scored
    <3>3. 1 \in 1 .. 1 /\ \A i \in 1 .. 1 : i = 1
      OBVIOUS
    <3>4. Best(p, q, e, 1, e[1])
      BY <3>2, <3>3, Zenon DEF Best
    <3> QED
      BY <2>2, <3>1, <3>4
  <2>4. n \in 2 .. Len(e) /\ n - 1 \in 1 .. Len(e) /\ n - 1 \notin T
    BY <1>0, <2>2, <2>3
  <2>5. Best(p, q, e, n - 1, best[n - 1])
    BY <2>4
  <2>6. best[n] = next(best[n - 1], n)
    BY <1>3, <2>3, <2>4
  <2>7. Best(p, q, e, n, next(best[n - 1], n))
    BY <2>4, <2>5, BestNext
  <2> HIDE DEF next
  <2> QED
    BY <2>2, <2>6, <2>7
<1>5. Len(e) \in 1 .. Len(e)
  BY <1>0
<1> QED
  BY <1>1, <1>4, <1>5

-----------------------------------------------------------------------------
(* What routing reads is well formed. *)
RouteInv ==
    /\ policy \in Policies
    /\ registry \in [Workers -> Reports[policy]]
    /\ request.estimate \in Nat
    /\ request.blocks \in Seq(ToSet(request.blocks))

(* The numbers routing reads of a worker. *)
LEMMA ReportTyped ==
    ASSUME RouteInv, NEW w \in Workers
    PROVE  /\ registry[w].waiting \in Nat /\ registry[w].runningWork \in Nat
           /\ registry[w].running \in Nat /\ registry[w].quantum \in Nat
           /\ registry[w].prefillTime \in Nat /\ registry[w].decodeTime \in Nat
           /\ registry[w].faults \subseteq Disqualifying(policy)
           /\ \A c \in ToSet(registry[w].cached) : c.tokenCount = BlockTokens * Len(c.sha)
<1>1. policy \in Policies /\ registry[w] \in Reports[policy]
  BY DEF RouteInv
<1> QED
  BY <1>1, ReportAssumption, Zenon DEF ReportAssumption

(* A remainder is a natural number, and a small number its own remainder. *)
LEMMA Remainder ==
    ASSUME NEW a \in Nat, NEW m \in Nat \ {0}
    PROVE  a % m \in Nat /\ (a < m => a % m = a)
OBVIOUS

(* A worker's score is a number, computed from its longest cached prefix, and  *)
(* the documented formula's value when the sum and the product fit.          *)
LEMMA WorkerScores ==
    ASSUME RouteInv, NEW w \in Workers
    PROVE  LET v == WorkerAt(w)
           IN  /\ Scored(policy, request, v)
               /\ MatchedTokens(request, v) = LongestCached(w)
               /\ /\ registry[w].running * registry[w].quantum < 2 ^ CountWidth
                  /\ registry[w].waiting + registry[w].runningWork < 2 ^ TokenWidth
                  => Score(policy, request, v) = TrueScore(w)
<1> DEFINE r == registry[w]
           v == WorkerAt(w)
           load == r.waiting + r.runningWork
           work == r.running * r.quantum
           N == 2 ^ TokenWidth
           M == 2 ^ CountWidth
           matched == MatchedTokens(request, v)
           uncached == Max({0, request.estimate - matched})
<1>1. /\ v.id = w /\ v.waiting = r.waiting /\ v.runningWork = r.runningWork /\ v.running = r.running
      /\ v.quantum = r.quantum /\ v.prefillTime = r.prefillTime /\ v.decodeTime = r.decodeTime
      /\ v.cached = r.cached
  BY DEF WorkerAt
<1>2. /\ r.waiting \in Nat /\ r.runningWork \in Nat /\ r.running \in Nat /\ r.quantum \in Nat
      /\ r.prefillTime \in Nat /\ r.decodeTime \in Nat
      /\ \A c \in ToSet(r.cached) : c.tokenCount = BlockTokens * Len(c.sha)
  BY ReportTyped
<1>3. N \in Nat \ {0} /\ M \in Nat \ {0} /\ w \in Nat /\ request.estimate \in Nat
  BY WidthAssumption, ReportAssumption DEF WidthAssumption, ReportAssumption, RouteInv
<1> HIDE DEF N, M, v, r
<1>4. matched \in Nat /\ matched = LongestCached(w)
  <2>1. request.blocks \in Seq(ToSet(request.blocks))
    BY DEF RouteInv
  <2>2. /\ LongestMatch(Fingerprints(request.blocks), r.cached)
              = BlockTokens * Max({0} \union Held(request.blocks, r.cached))
        /\ LongestMatch(Fingerprints(request.blocks), r.cached) \in Nat
    BY <1>2, <2>1, MatchIsLongest
  <2>3. matched = LongestMatch(Fingerprints(request.blocks), r.cached)
    BY <1>1 DEF MatchedTokens
  <2>4. LongestCached(w) = BlockTokens * Max({0} \union Held(request.blocks, r.cached))
    BY Zenon DEF LongestCached, Held, r
  <2> QED
    BY <2>2, <2>3, <2>4
<1>5. uncached \in Nat
  <2> HIDE DEF matched
  <2>1. Max({0, request.estimate - matched})
          = IF 0 >= request.estimate - matched THEN 0 ELSE request.estimate - matched
    BY <1>3, <1>4, MaxOfTwo
  <2> QED
    BY <1>3, <1>4, <2>1
<1> HIDE DEF uncached
<1>6. /\ QueueDelay(v) = (load % N) * r.prefillTime
      /\ PrefillDelay(request, v) = uncached * r.prefillTime
      /\ OverloadPenalty(v) = (work % M) * r.decodeTime
  BY <1>1 DEF QueueDelay, PrefillDelay, OverloadPenalty, N, M, uncached
<1>7. load \in Nat /\ work \in Nat
  BY <1>2
<1> HIDE DEF load, work, matched
<1>8. /\ load % N \in Nat /\ (load < N => load % N = load)
      /\ work % M \in Nat /\ (work < M => work % M = work)
  BY <1>3, <1>7, Remainder
<1>9. QueueDelay(v) \in Nat /\ PrefillDelay(request, v) \in Nat /\ OverloadPenalty(v) \in Nat
  <2>1. \A x, y \in Nat : x * y \in Nat
    OBVIOUS
  <2> DEFINE queue == load % N
             penalty == work % M
  <2>2. queue \in Nat /\ penalty \in Nat
    BY <1>8
  <2> HIDE DEF queue, penalty
  <2>3. queue * r.prefillTime \in Nat /\ uncached * r.prefillTime \in Nat /\ penalty * r.decodeTime \in Nat
    BY <1>2, <1>5, <2>1, <2>2, Zenon
  <2> QED
    BY <1>6, <2>3, Zenon DEF queue, penalty
<1>10. Score(policy, request, v) \in Nat
  BY <1>1, <1>2, <1>9 DEF Score
<1>11. Scored(policy, request, v)
  BY <1>1, <1>3, <1>4, <1>10 DEF Scored, matched
<1>12. ASSUME work < M, load < N PROVE Score(policy, request, v) = TrueScore(w)
  <2>1. /\ QueueDelay(v) = load * r.prefillTime
        /\ OverloadPenalty(v) = work * r.decodeTime
    BY <1>6, <1>8, <1>12
  <2>2. uncached = Max({0, request.estimate - LongestCached(w)})
    BY <1>4 DEF uncached
  <2>3. TrueScore(w) =
          CASE policy = "least_waiting_tokens" -> r.waiting
            [] policy = "prefix_affinity" -> load * r.prefillTime + uncached * r.prefillTime
            [] OTHER -> load * r.prefillTime + uncached * r.prefillTime + work * r.decodeTime
    BY <2>2 DEF TrueScore, r, load, work
  <2> QED
    BY <1>1, <1>6, <2>1, <2>3 DEF Score
<1> QED
  BY <1>4, <1>11, <1>12 DEF v, r, matched, load, work, N, M

(* The candidates, by ID, are exactly the workers the documents call eligible. *)
Considered(e) ==
    /\ Len(e) \in Nat /\ Ascending(e, Len(e))
    /\ e = <<>> <=> Len(e) = 0
    /\ \A i \in 1 .. Len(e) : e[i].id \in EligibleNow /\ e[i] = WorkerAt(e[i].id)
    /\ \A w \in EligibleNow : \E i \in 1 .. Len(e) : e[i] = WorkerAt(w)

(* Router.Select considers the eligible workers. *)
LEMMA CandidatesConsidered ==
    ASSUME RouteInv
    PROVE  Considered(Candidates(policy, Snapshot, excluded))
<1> DEFINE e == Candidates(policy, Snapshot, excluded)
           t == ByID(Snapshot)
           n == Cardinality(Workers)
<1>1. Listing(t, n) /\ Collected(policy, excluded, t, n, e) /\ ToSet(t) = {WorkerAt(w) : w \in Workers}
  BY SnapshotListing, ByIDKeeps, CandidatesCollect
<1> HIDE DEF e, t, n
<1>2. /\ n \in Nat /\ DOMAIN t = 1 .. n
      /\ \A v : v \in ToSet(t) <=> \E i \in 1 .. n : v = t[i]
  BY <1>1 DEF Listing, ToSet
<1>3. /\ e \in Seq(ToSet(t)) /\ Ascending(e, Len(e))
      /\ \A k \in 1 .. Len(e) : \E i \in 1 .. n : e[k] = t[i] /\ Eligible(policy, t[i], excluded)
      /\ \A i \in 1 .. n : Eligible(policy, t[i], excluded) => \E k \in 1 .. Len(e) : e[k] = t[i]
  BY <1>1 DEF Collected
<1>4. Len(e) \in Nat /\ (e = <<>> <=> Len(e) = 0)
  BY <1>3
<1>5. ASSUME NEW w \in Workers
      PROVE  WorkerAt(w).id = w /\ (Eligible(policy, WorkerAt(w), excluded) <=> w \in EligibleNow)
  <2>1. WorkerAt(w).id = w /\ WorkerAt(w).faults = registry[w].faults
    BY DEF WorkerAt
  <2>2. registry[w].faults \subseteq Disqualifying(policy)
    BY ReportTyped
  <2>3. registry[w].faults \intersect Disqualifying(policy) = {} <=> registry[w].faults = {}
    BY <2>2
  <2> QED
    BY <2>1, <2>3 DEF Eligible, EligibleNow
<1>6. ASSUME NEW k \in 1 .. Len(e) PROVE e[k].id \in EligibleNow /\ e[k] = WorkerAt(e[k].id)
  <2>1. PICK i \in 1 .. n : e[k] = t[i] /\ Eligible(policy, t[i], excluded)
    BY <1>3
  <2>2. PICK w \in Workers : t[i] = WorkerAt(w)
    BY <1>1, <1>2
  <2> QED
    BY <1>5, <2>1, <2>2
<1>7. ASSUME NEW w \in EligibleNow PROVE \E k \in 1 .. Len(e) : e[k] = WorkerAt(w)
  <2>1. w \in Workers
    BY DEF EligibleNow
  <2>2. PICK i \in 1 .. n : WorkerAt(w) = t[i]
    BY <1>1, <1>2, <2>1
  <2> QED
    BY <1>3, <1>5, <2>1, <2>2
<1>8. Considered(e)
  BY <1>3, <1>4, <1>6, <1>7 DEF Considered
<1> QED
  BY <1>8 DEF e

(* No more candidates than eligible workers. *)
LEMMA ConsideredCount ==
    ASSUME NEW e, Considered(e)
    PROVE  Cardinality(EligibleNow) \in Nat /\ Len(e) <= Cardinality(EligibleNow)
<1> DEFINE n == Len(e)
           f == [i \in 1 .. n |-> e[i].id]
<1>1. n \in Nat /\ Ascending(e, n) /\ \A i \in 1 .. n : e[i].id \in EligibleNow
  BY DEF Considered
<1>2. IsFiniteSet(EligibleNow) /\ EligibleNow \subseteq Nat
  <2>1. EligibleNow \subseteq Workers /\ Workers \subseteq Nat /\ IsFiniteSet(Workers)
    BY WidthAssumption DEF WidthAssumption, EligibleNow
  <2> QED
    BY <2>1, FS_Subset
<1> HIDE DEF n
<1>3. ASSUME NEW i \in 1 .. n, NEW j \in 1 .. n, e[i].id = e[j].id PROVE i = j
  <2>1. e[i].id \in Nat /\ e[j].id \in Nat
    BY <1>1, <1>2
  <2>2. ~ (i < j) /\ ~ (j < i)
    BY <1>1, <1>3, <2>1 DEF Ascending
  <2> QED
    BY <1>1, <2>2
<1>4. f \in Injection(1 .. n, EligibleNow)
  BY <1>1, <1>3 DEF Injection, IsInjective
<1> HIDE DEF f
<1>5. Cardinality(1 .. n) <= Cardinality(EligibleNow)
  BY <1>2, <1>4, FS_Injection
<1>6. Cardinality(1 .. n) = n /\ Cardinality(EligibleNow) \in Nat
  BY <1>1, <1>2, FS_Interval, FS_CardinalityType
<1> QED
  BY <1>5, <1>6 DEF n

(* The best of the eligible workers is the one the documents name. *)
LEMMA BestIsSelection ==
    ASSUME RouteInv, NEW e, Considered(e), NEW b, Best(policy, request, e, Len(e), b)
    PROVE  /\ b.id \in EligibleNow
           /\ \A w \in EligibleNow :
                Score(policy, request, WorkerAt(b.id))
                    <= Score(policy, request, WorkerAt(w)) + (Cardinality(EligibleNow) - 1) * Tolerance
           /\ WellScaled => \A w \in EligibleNow \ {b.id} : Before(b.id, w)
<1> DEFINE n == Len(e)
           score(v) == Score(policy, request, v)
<1>1. PICK k \in 1 .. n :
        /\ b = e[k]
        /\ \A i \in 1 .. n : score(b) <= score(e[i]) + (n - 1) * Tolerance
        /\ Clear(policy, request, e) => \A i \in 1 .. n : i # k => Better(policy, request, b, e[i])
  BY Zenon DEF Best
<1>2. /\ n \in Nat /\ \A i \in 1 .. n : e[i].id \in EligibleNow /\ e[i] = WorkerAt(e[i].id)
      /\ \A w \in EligibleNow : \E i \in 1 .. n : e[i] = WorkerAt(w)
  BY DEF Considered
<1>3. \A w \in EligibleNow : w \in Workers
  BY DEF EligibleNow
<1>4. b.id \in EligibleNow /\ b = WorkerAt(b.id)
  BY <1>1, <1>2
<1>5. \A w \in EligibleNow :
        /\ Scored(policy, request, WorkerAt(w))
        /\ MatchedTokens(request, WorkerAt(w)) = LongestCached(w)
        /\ WellScaled => score(WorkerAt(w)) = TrueScore(w)
        /\ WorkerAt(w).id = w
  <2> SUFFICES ASSUME NEW w \in EligibleNow
               PROVE  /\ Scored(policy, request, WorkerAt(w))
                      /\ MatchedTokens(request, WorkerAt(w)) = LongestCached(w)
                      /\ WellScaled => score(WorkerAt(w)) = TrueScore(w)
                      /\ WorkerAt(w).id = w
    OBVIOUS
  <2>1. WellScaled => /\ registry[w].running * registry[w].quantum < 2 ^ CountWidth
                      /\ registry[w].waiting + registry[w].runningWork < 2 ^ TokenWidth
    BY Zenon DEF WellScaled
  <2>2. WorkerAt(w).id = w
    BY DEF WorkerAt
  <2>3. w \in Workers
    BY <1>3
  <2> QED
    BY <2>1, <2>2, <2>3, WorkerScores, Zenon
<1>6. ASSUME NEW w \in EligibleNow
      PROVE  score(WorkerAt(b.id)) <= score(WorkerAt(w)) + (Cardinality(EligibleNow) - 1) * Tolerance
  <2> DEFINE c == Cardinality(EligibleNow)
             x == (n - 1) * Tolerance
             y == (c - 1) * Tolerance
             B == score(b)
             W == score(WorkerAt(w))
  <2>1. c \in Nat /\ n <= c
    BY ConsideredCount
  <2> HIDE DEF c
  <2>2. x \in Int /\ y \in Int /\ x <= y
    <3>1. n - 1 \in Nat /\ c - 1 \in Nat /\ n - 1 <= c - 1 /\ Tolerance \in Nat
      BY <1>1, <1>2, <2>1, ReportAssumption DEF ReportAssumption
    <3>2. Tolerance * (n - 1) \in Nat /\ Tolerance * (c - 1) \in Nat
          /\ Tolerance * (n - 1) <= Tolerance * (c - 1)
      BY <3>1, ProductGrows
    <3>3. Tolerance * (n - 1) = x /\ Tolerance * (c - 1) = y
      BY <3>1
    <3> QED
      BY <3>2, <3>3
  <2>3. B <= W + x
    <3>1. PICK i \in 1 .. n : e[i] = WorkerAt(w)
      BY <1>2
    <3> QED
      BY <1>1, <3>1
  <2>4. B \in Int /\ W \in Int
    BY <1>4, <1>5 DEF Scored
  <2> HIDE DEF x, y, B, W
  <2>5. B <= W + y
    BY <2>2, <2>3, <2>4
  <2> QED
    BY <1>4, <2>5 DEF B, W, y, c
<1>7. ASSUME WellScaled, NEW w \in EligibleNow \ {b.id} PROVE Before(b.id, w)
  <2>1. Clear(policy, request, e)
    <3> SUFFICES ASSUME NEW i \in 1 .. n, NEW j \in 1 .. n PROVE Apart(policy, request, e[i], e[j])
      BY DEF Clear
    <3> DEFINE u == e[i].id
               v == e[j].id
    <3>1. u \in EligibleNow /\ v \in EligibleNow /\ e[i] = WorkerAt(u) /\ e[j] = WorkerAt(v)
      BY <1>2
    <3> HIDE DEF u, v
    <3>2. TrueScore(u) = TrueScore(v) \/ ~ Indistinct(policy, TrueScore(u), TrueScore(v))
      BY <1>7, <3>1, Zenon DEF WellScaled
    <3>3. score(e[i]) = TrueScore(u) /\ score(e[j]) = TrueScore(v)
      BY <1>5, <1>7, <3>1
    <3> QED
      BY <3>2, <3>3 DEF Apart
  <2>2. PICK i \in 1 .. n : e[i] = WorkerAt(w)
    BY <1>2
  <2>3. i # k
    BY <1>1, <1>5, <2>2
  <2>4. Better(policy, request, WorkerAt(b.id), WorkerAt(w))
    BY <1>1, <1>4, <2>1, <2>2, <2>3
  <2> DEFINE d == b.id
  <2>5. d \in EligibleNow /\ w \in EligibleNow /\ Better(policy, request, WorkerAt(d), WorkerAt(w))
    BY <1>4, <2>4
  <2> HIDE DEF d
  <2>6. Before(d, w)
    BY <1>5, <1>7, <2>5 DEF Better, Before
  <2> QED
    BY <2>6 DEF d
<1> QED
  BY <1>4, <1>6, <1>7

(* What routing reads stays well formed. *)
LEMMA RouteHolds == Spec => []RouteInv
<1>1. Init => RouteInv
  <2> SUFFICES ASSUME Init PROVE RouteInv
    OBVIOUS
  <2>1. policy \in Policies /\ registry \in [Workers -> Reports[policy]]
    BY DEF Init
  <2>2. request.estimate = 0 /\ request.blocks = <<>>
    BY DEF Init, NoRequest
  <2> QED
    BY <2>1, <2>2 DEF RouteInv
<1>2. RouteInv /\ [Next]_vars => RouteInv'
  <2> SUFFICES ASSUME RouteInv, [Next]_vars PROVE RouteInv'
    OBVIOUS
  <2>1. CASE UNCHANGED <<policy, registry, request>>
    BY <2>1 DEF RouteInv
  <2>2. ASSUME request' = NoRequest, UNCHANGED <<policy, registry>> PROVE RouteInv'
    BY <2>2 DEF RouteInv, NoRequest
  <2>3. CASE BadRequest \/ Admitted \/ Retry \/ UNCHANGED vars
    BY <2>1, <2>3 DEF BadRequest, Admitted, Retry, vars, requestVars
  <2>4. CASE SelectWorker
    BY <2>1, <2>4 DEF SelectWorker, requestVars
  <2>5. CASE NoEligibleWorker \/ AttemptOver
    BY <2>2, <2>5 DEF NoEligibleWorker, NobodyEligible, AttemptOver, Return
  <2>6. CASE \E body \in Bodies, header \in Headers : ParseRequest(body, header)
    <3>1. PICK body \in Bodies, header \in Headers : ParseRequest(body, header)
      BY <2>6
    <3>2. /\ UNCHANGED <<policy, registry>>
          /\ request'.estimate = body.estimate /\ request'.blocks = body.blocks
      BY <3>1 DEF ParseRequest
    <3>3. body.estimate \in Nat /\ body.blocks \in Seq(ToSet(body.blocks))
      BY InputAssumption, ReportAssumption DEF InputAssumption, ReportAssumption
    <3> QED
      BY <3>2, <3>3 DEF RouteInv
  <2>7. CASE \E w \in Workers : \E report \in Reports[policy] : Report(w, report)
    BY <2>7 DEF Report, RouteInv, requestVars
  <2> QED
    BY <2>3, <2>4, <2>5, <2>6, <2>7 DEF Next
<1> QED
  BY <1>1, <1>2, PTL DEF Spec

(* A step of Router.Select meets the documents. *)
LEMMA SelectMeets == ASSUME RouteInv, RingInv, SelectWorker PROVE SelectionStep
<1> DEFINE e == Candidates(policy, Snapshot, excluded)
           b == Selected(policy, request, e, cursor)
<1>1. pc = "routing" /\ pc' = "serving" /\ e # <<>> /\ chosen' = b.id
  BY Zenon DEF SelectWorker
<1>2. Considered(e)
  BY CandidatesConsidered
<1> HIDE DEF e
<1>3. Len(e) \in Nat \ {0}
  BY <1>1, <1>2 DEF Considered
<1>4. CASE policy = "round_robin"
  <2> DEFINE n == Len(e)
             k == (cursor % n) + 1
  <2>1. n \in Nat \ {0} /\ cursor \in Nat
    BY <1>3, WidthAssumption DEF RingInv, WidthAssumption
  <2>2. b = e[k]
    BY <1>4 DEF Selected
  <2> HIDE DEF b, n
  <2>3. cursor % n \in 0 .. n - 1
    BY <2>1, NextPosition
  <2>4. k \in 1 .. n
    BY <2>1, <2>3
  <2> HIDE DEF k
  <2>5. chosen' \in EligibleNow
    BY <1>1, <1>2, <2>2, <2>4 DEF Considered, n
  <2> QED
    BY <1>1, <1>4, <2>5, Zenon DEF SelectionStep
<1>5. CASE policy # "round_robin"
  <2>1. b = Scan(policy, request, e)
    BY <1>5 DEF Selected
  <2>2. Comparable(policy, request, e)
    <3>1. \A i \in 1 .. Len(e) : e[i].id \in Workers /\ e[i] = WorkerAt(e[i].id)
      BY <1>2 DEF Considered, EligibleNow
    <3>2. \A w \in Workers : Scored(policy, request, WorkerAt(w))
      BY WorkerScores, Zenon
    <3>3. \A i \in 1 .. Len(e) : Scored(policy, request, e[i])
      BY <3>1, <3>2
    <3> QED
      BY <1>2, <3>3 DEF Considered, Comparable
  <2>3. Best(policy, request, e, Len(e), b)
    BY <1>3, <2>1, <2>2, ScanFindsBest
  <2> HIDE DEF b
  <2>4. /\ chosen' \in EligibleNow
        /\ \A w \in EligibleNow :
             Score(policy, request, WorkerAt(chosen'))
                 <= Score(policy, request, WorkerAt(w)) + (Cardinality(EligibleNow) - 1) * Tolerance
        /\ WellScaled => \A w \in EligibleNow \ {chosen'} : Before(chosen', w)
    BY <1>1, <1>2, <2>3, BestIsSelection
  <2> QED
    BY <1>1, <2>4, Zenon DEF SelectionStep
<1> QED
  BY <1>4, <1>5

(* Every decision of Router.Select takes an eligible worker of least score, up  *)
(* to one tolerance per rival, and the documented one when scores are clear;   *)
(* it fails only when no worker is eligible.                                 *)
THEOREM SelectionsAreMinimal == Spec => SelectionMinimal
<1>1. RouteInv /\ RingInv /\ [Next]_vars => [SelectionStep]_vars
  <2> SUFFICES ASSUME RouteInv, RingInv, [Next]_vars PROVE [SelectionStep]_vars
    OBVIOUS
  <2>1. CASE SelectWorker
    BY <2>1, SelectMeets
  <2>2. CASE NoEligibleWorker
    <3> DEFINE e == Candidates(policy, Snapshot, excluded)
    <3>1. Considered(e)
      BY CandidatesConsidered
    <3>2. e = <<>> /\ pc' = "idle"
      BY <2>2 DEF NoEligibleWorker, NobodyEligible, Return
    <3> HIDE DEF e
    <3>3. EligibleNow = {}
      BY <3>1, <3>2 DEF Considered
    <3>4. SelectionStep
      BY <3>2, <3>3, Zenon DEF SelectionStep
    <3> QED
      BY <3>4
  <2>3. ASSUME \/ pc # "routing"
               \/ pc' \notin {"serving", "idle"}
        PROVE  SelectionStep
    BY <2>3, Zenon DEF SelectionStep
  <2>4. CASE BadRequest \/ Admitted \/ Retry \/ AttemptOver
    BY <2>3, <2>4 DEF BadRequest, Admitted, Retry, AttemptOver, vars
  <2>5. CASE \E body \in Bodies, header \in Headers : ParseRequest(body, header)
    BY <2>3, <2>5 DEF ParseRequest
  <2>6. CASE \E w \in Workers : \E report \in Reports[policy] : Report(w, report)
    BY <2>3, <2>6 DEF Report
  <2>7. CASE UNCHANGED vars
    BY <2>7
  <2> QED
    BY <2>1, <2>2, <2>4, <2>5, <2>6, <2>7 DEF Next
<1>2. [](RouteInv /\ RingInv) /\ [][Next]_vars => [][SelectionStep]_vars
  BY <1>1, PTL
<1> QED
  BY <1>2, RouteHolds, RingHolds, PTL DEF Spec, SelectionMinimal
=============================================================================
