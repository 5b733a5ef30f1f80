------------------------------- MODULE TokenSum -------------------------------
(***************************************************************************)
(* The sum of a function of bounded natural numbers, as the cardinality of  *)
(* the set of its units <<x, i>> with i in 1..f[x].  In this form the sum's *)
(* laws follow from the cardinality theorems of the library, so that every  *)
(* accounting proof can cite them.  FiniteSetTheorems and TLAPS are needed  *)
(* by the lemmas only; TLC evaluates Total as it stands.                    *)
(***************************************************************************)
EXTENDS Integers, FiniteSets, FiniteSetTheorems, TLAPS

Units(f, limit) == {u \in (DOMAIN f) \X (1 .. limit) : u[2] <= f[u[1]]}

\* The units of every value but f[x].
OtherUnits(f, limit, x) == {u \in Units(f, limit) : u[1] # x}

\* The sum of all f[x], for an f whose values do not exceed limit.
Total(f, limit) == Cardinality(Units(f, limit))

-----------------------------------------------------------------------------
(* The units of a bounded function on a finite set are finite in number. *)
LEMMA UnitsFinite ==
    ASSUME NEW S, IsFiniteSet(S), NEW limit \in Nat, NEW f \in [S -> 0 .. limit]
    PROVE  IsFiniteSet(Units(f, limit)) /\ Total(f, limit) \in Nat
<1>1. IsFiniteSet(1 .. limit)
  BY FS_Interval
<1>2. IsFiniteSet(S \X (1 .. limit))
  BY <1>1, FS_Product
<1>3. Units(f, limit) \in SUBSET (S \X (1 .. limit))
  BY DEF Units
<1>4. IsFiniteSet(Units(f, limit))
  BY <1>2, <1>3, FS_Subset
<1> QED
  BY <1>4, FS_CardinalityType DEF Total

(* The sum splits into one value and the sum of the others. *)
LEMMA TotalSplit ==
    ASSUME NEW S, IsFiniteSet(S), NEW limit \in Nat, NEW f \in [S -> 0 .. limit],
           NEW x \in S
    PROVE  /\ Cardinality(OtherUnits(f, limit, x)) \in Nat
           /\ Total(f, limit) = Cardinality(OtherUnits(f, limit, x)) + f[x]
<1> DEFINE Rest == OtherUnits(f, limit, x)
           Row == {x} \X (1 .. f[x])
<1>1. IsFiniteSet(Units(f, limit))
  BY UnitsFinite
<1>2. IsFiniteSet(Rest) /\ Cardinality(Rest) \in Nat
  <2>1. Rest \in SUBSET Units(f, limit)
    BY DEF OtherUnits
  <2> QED
    BY <1>1, <2>1, FS_Subset, FS_CardinalityType
<1>3. f[x] \in 0 .. limit
  OBVIOUS
<1>4. IsFiniteSet(Row) /\ Cardinality(Row) = f[x]
  <2>1. IsFiniteSet(1 .. f[x]) /\ Cardinality(1 .. f[x]) = f[x]
    BY <1>3, FS_Interval
  <2>2. IsFiniteSet({x}) /\ Cardinality({x}) = 1
    BY FS_Singleton
  <2>3. IsFiniteSet(Row) /\ Cardinality(Row) = 1 * f[x]
    BY <2>1, <2>2, FS_Product
  <2> QED
    BY <1>3, <2>3
<1>5. Units(f, limit) = Rest \cup Row
  <2>1. ASSUME NEW u \in Units(f, limit), u[1] = x
        PROVE  u \in Row
    BY <2>1, <1>3 DEF Units
  <2>2. Row \subseteq Units(f, limit)
    BY <1>3 DEF Units
  <2> QED
    BY <2>1, <2>2 DEF OtherUnits
<1>6. Rest \cap Row = {}
  BY DEF OtherUnits
<1>7. Cardinality(Rest \cap Row) = 0
  BY <1>6, FS_EmptySet
<1>8. Cardinality(Rest \cup Row) = Cardinality(Rest) + Cardinality(Row) - Cardinality(Rest \cap Row)
  BY <1>2, <1>4, FS_Union
<1> HIDE DEF Row
<1> QED
  BY <1>2, <1>3, <1>4, <1>5, <1>7, <1>8 DEF Total

(* Two functions that differ in one value only have sums that differ by as  *)
(* much.                                                                     *)
LEMMA TotalUpdate ==
    ASSUME NEW S, IsFiniteSet(S), NEW limit \in Nat, NEW x \in S,
           NEW f \in [S -> 0 .. limit], NEW g \in [S -> 0 .. limit],
           \A y \in S \ {x} : g[y] = f[y]
    PROVE  Total(g, limit) = Total(f, limit) - f[x] + g[x]
<1>1. OtherUnits(f, limit, x) = OtherUnits(g, limit, x)
  BY DEF Units, OtherUnits
<1>2. /\ Cardinality(OtherUnits(f, limit, x)) \in Nat
      /\ Total(f, limit) = Cardinality(OtherUnits(f, limit, x)) + f[x]
  BY TotalSplit
<1>3. Total(g, limit) = Cardinality(OtherUnits(g, limit, x)) + g[x]
  BY TotalSplit
<1> QED
  BY <1>1, <1>2, <1>3

(* No value exceeds the sum. *)
LEMMA TotalBoundsValue ==
    ASSUME NEW S, IsFiniteSet(S), NEW limit \in Nat, NEW f \in [S -> 0 .. limit],
           NEW x \in S
    PROVE  f[x] <= Total(f, limit)
<1>1. /\ Cardinality(OtherUnits(f, limit, x)) \in Nat
      /\ Total(f, limit) = Cardinality(OtherUnits(f, limit, x)) + f[x]
  BY TotalSplit
<1> QED
  BY <1>1

(* The sum of the constant function 0 is 0. *)
LEMMA TotalZero ==
    ASSUME NEW S, NEW limit \in Nat
    PROVE  Total([x \in S |-> 0], limit) = 0
<1>1. Units([x \in S |-> 0], limit) = {}
  BY DEF Units
<1> QED
  BY <1>1, FS_EmptySet DEF Total
=============================================================================
