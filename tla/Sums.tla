--------------------------------- MODULE Sums ---------------------------------
(***************************************************************************)
(* Sums over finite sets, which the models write with MapThenSumSet,       *)
(* greatest elements, which they write with Max, sets listed in an order,  *)
(* and folds of sequences.                                                 *)
(*                                                                         *)
(* A sum of natural numbers is the number of units that its elements hold, *)
(* a sum of integers that of its gains less that of its losses.  A set on  *)
(* which a formula about sums fails has a smallest subset on which it      *)
(* fails; that one is not empty, and leaving an element out contradicts.   *)
(***************************************************************************)
EXTENDS Integers, SequencesExt, Listing, FiniteSetTheorems, TLAPS

-----------------------------------------------------------------------------
(* Finite sets *)

\* Among the subsets of a finite set that have a property, one is minimal.
LEMMA MinimalSubset ==
  ASSUME NEW S, IsFiniteSet(S), NEW Bad, Bad \subseteq SUBSET S, Bad # {}
  PROVE  \E T \in Bad : \A U \in Bad : U \subseteq T => U = T
<1>1. FiniteSubsetsOf(S) = SUBSET S
  BY FS_FiniteSubsetsOfFinite
<1>2. IsWellFoundedOn(StrictSubsetOrdering(S), SUBSET S)
  BY <1>1, FS_StrictSubsetOrderingWellFounded
<1>3. PICK T \in Bad : \A U \in Bad : ~(<<U, T>> \in StrictSubsetOrdering(S))
  BY <1>2, WFMin
<1> QED BY <1>3 DEF StrictSubsetOrdering

\* A bounded set of numbers has a greatest one.
LEMMA GreatestExists ==
  ASSUME NEW N \in Nat, NEW S, S \subseteq 0..N, S # {}
  PROVE  Max(S) \in S /\ \A x \in S : x <= Max(S)
<1> DEFINE Bad == {m..N : m \in S}
<1> DEFINE all == 0..N
<1>1. IsFiniteSet(all)
  BY FS_Interval
<1>2. PICK T \in Bad : \A U \in Bad : U \subseteq T => U = T
  <2>1. \A m \in S : m..N \subseteq all
    OBVIOUS
  <2>2. Bad \subseteq SUBSET all
    BY <2>1
  <2>3. Bad # {}
    OBVIOUS
  <2> HIDE DEF Bad, all
  <2> QED BY <1>1, <2>2, <2>3, MinimalSubset
<1>3. PICK m \in S : T = m..N
  BY <1>2
<1>4. ASSUME NEW x \in S, x > m PROVE FALSE
  <2>1. x \in 0..N /\ m \in 0..N
    OBVIOUS
  <2>2. x..N \in Bad /\ x..N \subseteq T /\ m \in T /\ m \notin x..N
    BY <1>3, <1>4, <2>1
  <2> HIDE DEF Bad
  <2> QED BY <1>2, <2>2
<1>5. \A x \in S : m >= x
  BY <1>4
<1>6. \E k \in S : \A x \in S : k >= x
  BY <1>5
<1>7. Max(S) \in S /\ \A x \in S : Max(S) >= x
  BY <1>6 DEF Max
<1> QED BY <1>7

\* A bounded set of numbers has a least one.
LEMMA LeastExists ==
  ASSUME NEW N \in Nat, NEW S, S \subseteq 0..N, S # {}
  PROVE  Min(S) \in S /\ \A x \in S : Min(S) <= x
<1> DEFINE Bad == {0..m : m \in S}
<1> DEFINE all == 0..N
<1>1. IsFiniteSet(all)
  BY FS_Interval
<1>2. PICK T \in Bad : \A U \in Bad : U \subseteq T => U = T
  <2>1. \A m \in S : 0..m \subseteq all
    OBVIOUS
  <2>2. Bad \subseteq SUBSET all
    BY <2>1
  <2>3. Bad # {}
    OBVIOUS
  <2> HIDE DEF Bad, all
  <2> QED BY <1>1, <2>2, <2>3, MinimalSubset
<1>3. PICK m \in S : T = 0..m
  BY <1>2
<1>4. ASSUME NEW x \in S, x < m PROVE FALSE
  <2>1. x \in 0..N /\ m \in 0..N
    OBVIOUS
  <2>2. 0..x \in Bad /\ 0..x \subseteq T /\ m \in T /\ m \notin 0..x
    BY <1>3, <1>4, <2>1
  <2> HIDE DEF Bad
  <2> QED BY <1>2, <2>2
<1>5. \A x \in S : m <= x
  BY <1>4
<1>6. \E k \in S : \A x \in S : k <= x
  BY <1>5
<1>7. Min(S) \in S /\ \A x \in S : Min(S) <= x
  BY <1>6 DEF Min
<1> QED BY <1>7

-----------------------------------------------------------------------------
(* Sums of natural numbers *)

Units(q, s) == {u \in s \X Nat : u[2] \in 1..q[u[1]]}

\* How MapThenSumSet adds up the quantities q of a set S and of its subsets.
AddsUp(sum, q, S) ==
  sum = [s \in SUBSET S |->
    IF s = {} THEN 0 ELSE q[CHOOSE x \in s : TRUE] + sum[s \ {CHOOSE x \in s : TRUE}]]

\* One more element adds its quantity to the units of the others.
LEMMA UnitsOfOneMore ==
  ASSUME NEW S, IsFiniteSet(S), NEW x, x \notin S, NEW q, \A i \in S \cup {x} : q[i] \in Nat,
         IsFiniteSet(Units(q, S))
  PROVE  /\ IsFiniteSet(Units(q, S \cup {x}))
         /\ Cardinality(Units(q, S \cup {x})) = q[x] + Cardinality(Units(q, S))
<1> DEFINE more == {x} \X (1..q[x])
<1>1. IsFiniteSet(more) /\ Cardinality(more) = q[x]
  <2> DEFINE n == q[x]
  <2>1. n \in Nat
    OBVIOUS
  <2> HIDE DEF n
  <2>2. IsFiniteSet({x}) /\ Cardinality({x}) = 1
    BY FS_Singleton
  <2>3. IsFiniteSet(1..n) /\ Cardinality(1..n) = n
    BY <2>1, FS_Interval
  <2> DEFINE one == {x}
             units == 1..n
  <2> HIDE DEF one, units
  <2>4. IsFiniteSet(one) /\ IsFiniteSet(units) /\ Cardinality(one) = 1 /\ Cardinality(units) = n
    BY <2>2, <2>3 DEF one, units
  <2>5. /\ IsFiniteSet(one \X units)
        /\ Cardinality(one \X units) = Cardinality(one) * Cardinality(units)
    BY <2>4, FS_Product
  <2>6. Cardinality(one \X units) = n
    BY <2>1, <2>4, <2>5
  <2> QED BY <2>5, <2>6 DEF n, one, units
<1>2. Units(q, S \cup {x}) = Units(q, S) \cup more
  BY DEF Units
<1>3. Units(q, S) \cap more = {}
  BY DEF Units
<1> HIDE DEF more
<1>4. /\ IsFiniteSet(Units(q, S) \cup more)
      /\ Cardinality(Units(q, S) \cup more) =
           Cardinality(Units(q, S)) + Cardinality(more) - Cardinality({})
  BY <1>1, <1>3, FS_Union
<1>5. Cardinality({}) = 0 /\ Cardinality(Units(q, S)) \in Nat /\ q[x] \in Nat
  BY FS_EmptySet, FS_CardinalityType
<1>6. Cardinality(Units(q, S) \cup more) = q[x] + Cardinality(Units(q, S))
  BY <1>1, <1>4, <1>5
<1> QED BY <1>2, <1>4, <1>6

LEMMA UnitsAreFinite ==
  ASSUME NEW S, IsFiniteSet(S), NEW q, \A i \in S : q[i] \in Nat
  PROVE  IsFiniteSet(Units(q, S))
<1> SUFFICES ASSUME ~IsFiniteSet(Units(q, S)) PROVE FALSE
  OBVIOUS
<1> DEFINE Bad == {T \in SUBSET S : ~IsFiniteSet(Units(q, T))}
<1>1. PICK T \in Bad : \A U \in Bad : U \subseteq T => U = T
  <2>1. Bad \subseteq SUBSET S /\ S \in Bad
    OBVIOUS
  <2> HIDE DEF Bad
  <2> QED BY <2>1, MinimalSubset
<1>2. Units(q, {}) = {}
  BY DEF Units
<1>3. PICK x : x \in T
  BY <1>1, <1>2, FS_EmptySet
<1>4. T \ {x} \in SUBSET S /\ T \ {x} # T /\ (T \ {x}) \cup {x} = T
  BY <1>1, <1>3
<1>5. IsFiniteSet(Units(q, T \ {x}))
  BY <1>1, <1>4
<1>6. IsFiniteSet(T \ {x})
  BY <1>4, FS_Subset
<1>7. IsFiniteSet(Units(q, (T \ {x}) \cup {x}))
  BY <1>1, <1>3, <1>4, <1>5, <1>6, UnitsOfOneMore
<1> QED BY <1>1, <1>4, <1>7

\* Adding up quantities one by one, in whatever order, counts the units.
LEMMA SumCountsUnits ==
  ASSUME NEW S, IsFiniteSet(S), NEW q, \A i \in S : q[i] \in Nat,
         NEW sum, AddsUp(sum, q, S)
  PROVE  \A s \in SUBSET S : sum[s] = Cardinality(Units(q, s))
<1> SUFFICES ASSUME \E s \in SUBSET S : sum[s] # Cardinality(Units(q, s)) PROVE FALSE
  OBVIOUS
<1> USE DEF AddsUp
<1> DEFINE Bad == {s \in SUBSET S : sum[s] # Cardinality(Units(q, s))}
<1>1. PICK T \in Bad : \A U \in Bad : U \subseteq T => U = T
  <2>1. Bad \subseteq SUBSET S /\ Bad # {}
    OBVIOUS
  <2> HIDE DEF Bad
  <2> QED BY <2>1, MinimalSubset
<1>2. T \in SUBSET S /\ sum[T] # Cardinality(Units(q, T))
  BY <1>1
<1>3. CASE T = {}
  <2>1. Units(q, {}) = {}
    BY DEF Units
  <2>2. sum[{}] = 0
    BY <1>2
  <2> QED BY <1>2, <1>3, <2>1, <2>2, FS_EmptySet
<1>4. CASE T # {}
  <2> DEFINE x == CHOOSE y \in T : TRUE
             U == T \ {x}
  <2>1. x \in T
    BY <1>4
  <2>2. sum[T] = q[x] + sum[U]
    BY <1>2, <1>4
  <2> HIDE DEF x
  <2>3. U \in SUBSET S /\ U # T /\ U \cup {x} = T /\ x \notin U
    BY <1>2, <2>1
  <2>4. sum[U] = Cardinality(Units(q, U))
    BY <1>1, <2>3
  <2>5. IsFiniteSet(U) /\ IsFiniteSet(Units(q, U))
    BY <2>3, FS_Subset, UnitsAreFinite
  <2>6. Cardinality(Units(q, U \cup {x})) = q[x] + Cardinality(Units(q, U))
    <3>1. \A i \in U \cup {x} : q[i] \in Nat
      BY <1>2, <2>3
    <3> HIDE DEF U
    <3> QED BY <2>3, <2>5, <3>1, UnitsOfOneMore
  <2> QED BY <1>2, <2>2, <2>3, <2>4, <2>6
<1> QED BY <1>3, <1>4

\* A sum is defined on every finite set.
LEMMA SumExists ==
  ASSUME NEW S, IsFiniteSet(S), NEW q, \A i \in S : q[i] \in Nat
  PROVE  \E sum : AddsUp(sum, q, S)
<1> DEFINE count == [s \in SUBSET S |-> Cardinality(Units(q, s))]
<1>1. ASSUME NEW s \in SUBSET S
      PROVE  count[s] = IF s = {} THEN 0
                        ELSE q[CHOOSE x \in s : TRUE] + count[s \ {CHOOSE x \in s : TRUE}]
  <2>1. CASE s = {}
    <3>1. Units(q, {}) = {}
      BY DEF Units
    <3> QED BY <2>1, <3>1, FS_EmptySet
  <2>2. CASE s # {}
    <3> DEFINE x == CHOOSE y \in s : TRUE
               U == s \ {x}
    <3>1. x \in s
      BY <2>2
    <3> HIDE DEF x
    <3>2. U \in SUBSET S /\ U \cup {x} = s /\ x \notin U
      BY <3>1
    <3>3. IsFiniteSet(U) /\ IsFiniteSet(Units(q, U))
      BY <3>2, FS_Subset, UnitsAreFinite
    <3>4. Cardinality(Units(q, U \cup {x})) = q[x] + Cardinality(Units(q, U))
      <4>1. \A i \in U \cup {x} : q[i] \in Nat
        BY <3>2
      <4> HIDE DEF U
      <4> QED BY <3>2, <3>3, <4>1, UnitsOfOneMore
    <3>5. count[s] = q[x] + count[U]
      BY <3>2, <3>4
    <3> QED BY <2>2, <3>5 DEF x
  <2> QED BY <2>1, <2>2
<1>2. AddsUp(count, q, S)
  BY <1>1 DEF AddsUp
<1> HIDE DEF count
<1> QED BY <1>2
-----------------------------------------------------------------------------
(* Sums of integers *)

Gains(q) == [i \in DOMAIN q |-> IF q[i] > 0 THEN q[i] ELSE 0]
Losses(q) == [i \in DOMAIN q |-> IF q[i] < 0 THEN -q[i] ELSE 0]
Total(q, s) == Cardinality(Units(Gains(q), s)) - Cardinality(Units(Losses(q), s))

\* q gives every element of s an integer.
Measures(q, s) == s \subseteq DOMAIN q /\ \A i \in s : q[i] \in Int

LEMMA GainsAndLosses ==
  ASSUME NEW S, NEW q, Measures(q, S)
  PROVE  /\ \A i \in S : Gains(q)[i] \in Nat /\ Losses(q)[i] \in Nat
         /\ \A i \in S : q[i] = Gains(q)[i] - Losses(q)[i]
BY DEF Gains, Losses, Measures

LEMMA TotalIsInt ==
  ASSUME NEW S, IsFiniteSet(S), NEW q, Measures(q, S)
  PROVE  Total(q, S) \in Int
<1>1. IsFiniteSet(Units(Gains(q), S)) /\ IsFiniteSet(Units(Losses(q), S))
  BY GainsAndLosses, UnitsAreFinite
<1> QED BY <1>1, FS_CardinalityType DEF Total

LEMMA TotalOfNone ==
  ASSUME NEW q PROVE Total(q, {}) = 0
<1>1. Units(Gains(q), {}) = {} /\ Units(Losses(q), {}) = {}
  BY DEF Units
<1> QED BY <1>1, FS_EmptySet DEF Total

LEMMA TotalOfOneMore ==
  ASSUME NEW S, IsFiniteSet(S), NEW x, x \notin S, NEW q, Measures(q, S \cup {x})
  PROVE  Total(q, S \cup {x}) = q[x] + Total(q, S)
<1>1. /\ \A i \in S \cup {x} : Gains(q)[i] \in Nat /\ Losses(q)[i] \in Nat
      /\ q[x] = Gains(q)[x] - Losses(q)[x]
  BY GainsAndLosses
<1> DEFINE g == Gains(q)
           l == Losses(q)
<1> HIDE DEF g, l
<1>2. /\ \A i \in S \cup {x} : g[i] \in Nat /\ l[i] \in Nat
      /\ q[x] = g[x] - l[x]
  BY <1>1 DEF g, l
<1>3. IsFiniteSet(Units(g, S)) /\ IsFiniteSet(Units(l, S))
  BY <1>2, UnitsAreFinite
<1>4. Cardinality(Units(g, S \cup {x})) = g[x] + Cardinality(Units(g, S))
  BY <1>2, <1>3, UnitsOfOneMore
<1>5. Cardinality(Units(l, S \cup {x})) = l[x] + Cardinality(Units(l, S))
  BY <1>2, <1>3, UnitsOfOneMore
<1>6. Cardinality(Units(g, S)) \in Nat /\ Cardinality(Units(l, S)) \in Nat
  BY <1>3, FS_CardinalityType
<1> QED BY <1>2, <1>4, <1>5, <1>6 DEF Total, g, l

\* Measures that agree on a set have the same sum over it.
LEMMA TotalOfEqual ==
  ASSUME NEW S, NEW p, NEW q, Measures(p, S), Measures(q, S), \A i \in S : p[i] = q[i]
  PROVE  Total(p, S) = Total(q, S)
<1>1. \A i \in S : Gains(p)[i] = Gains(q)[i] /\ Losses(p)[i] = Losses(q)[i]
  BY DEF Gains, Losses, Measures
<1>2. Units(Gains(p), S) = Units(Gains(q), S) /\ Units(Losses(p), S) = Units(Losses(q), S)
  BY <1>1 DEF Units
<1> QED BY <1>2 DEF Total

\* Adding up in whatever order yields the sum.
LEMMA SumIsTotal ==
  ASSUME NEW S, IsFiniteSet(S), NEW q, Measures(q, S), NEW sum, AddsUp(sum, q, S)
  PROVE  \A s \in SUBSET S : sum[s] = Total(q, s)
<1> SUFFICES ASSUME \E s \in SUBSET S : sum[s] # Total(q, s) PROVE FALSE
  OBVIOUS
<1> DEFINE Bad == {s \in SUBSET S : sum[s] # Total(q, s)}
<1>1. PICK T \in Bad : \A U \in Bad : U \subseteq T => U = T
  <2>1. Bad \subseteq SUBSET S /\ Bad # {}
    OBVIOUS
  <2> HIDE DEF Bad
  <2> QED BY <2>1, MinimalSubset
<1>2. T \in SUBSET S /\ sum[T] # Total(q, T)
  BY <1>1
<1>3. CASE T = {}
  <2>1. sum[{}] = 0
    BY <1>2 DEF AddsUp
  <2> QED BY <1>2, <1>3, <2>1, TotalOfNone
<1>4. CASE T # {}
  <2> DEFINE x == CHOOSE y \in T : TRUE
             U == T \ {x}
  <2>1. x \in T
    BY <1>4
  <2>2. sum[T] = q[x] + sum[U]
    BY <1>2, <1>4 DEF AddsUp
  <2> HIDE DEF x
  <2>3. U \in SUBSET S /\ U # T /\ U \cup {x} = T /\ x \notin U
    BY <1>2, <2>1
  <2>4. sum[U] = Total(q, U)
    BY <1>1, <2>3
  <2>5. IsFiniteSet(U)
    BY <2>3, FS_Subset
  <2>6. Measures(q, U \cup {x})
    BY <1>2, <2>3 DEF Measures
  <2> HIDE DEF U
  <2>7. Total(q, U \cup {x}) = q[x] + Total(q, U)
    BY <2>3, <2>5, <2>6, TotalOfOneMore
  <2> QED BY <1>2, <2>2, <2>3, <2>4, <2>7
<1> QED BY <1>3, <1>4

LEMMA TotalAddsUp ==
  ASSUME NEW S, IsFiniteSet(S), NEW q, Measures(q, S)
  PROVE  \E sum : AddsUp(sum, q, S)
<1> DEFINE total == [s \in SUBSET S |-> Total(q, s)]
<1>1. ASSUME NEW s \in SUBSET S
      PROVE  total[s] = IF s = {} THEN 0
                        ELSE q[CHOOSE x \in s : TRUE] + total[s \ {CHOOSE x \in s : TRUE}]
  <2>1. CASE s = {}
    BY <2>1, TotalOfNone
  <2>2. CASE s # {}
    <3> DEFINE x == CHOOSE y \in s : TRUE
               U == s \ {x}
    <3>1. x \in s
      BY <2>2
    <3> HIDE DEF x
    <3>2. U \in SUBSET S /\ U \cup {x} = s /\ x \notin U
      BY <3>1
    <3>3. IsFiniteSet(U) /\ Measures(q, U \cup {x})
      BY <3>2, FS_Subset DEF Measures
    <3>4. Total(q, U \cup {x}) = q[x] + Total(q, U)
      <4> HIDE DEF U
      <4> QED BY <3>2, <3>3, TotalOfOneMore
    <3>5. total[s] = q[x] + total[U]
      BY <3>2, <3>4
    <3> QED BY <2>2, <3>5 DEF x
  <2> QED BY <2>1, <2>2
<1>2. AddsUp(total, q, S)
  BY <1>1 DEF AddsUp
<1> HIDE DEF total
<1> QED BY <1>2

LEMMA TotalOfUnion ==
  ASSUME NEW S, IsFiniteSet(S), NEW R, IsFiniteSet(R), S \cap R = {},
         NEW q, Measures(q, S \cup R)
  PROVE  Total(q, S \cup R) = Total(q, S) + Total(q, R)
<1> SUFFICES ASSUME Total(q, S \cup R) # Total(q, S) + Total(q, R) PROVE FALSE
  OBVIOUS
<1> DEFINE Bad == {r \in SUBSET R : Total(q, S \cup r) # Total(q, S) + Total(q, r)}
<1>1. PICK T \in Bad : \A U \in Bad : U \subseteq T => U = T
  <2>1. Bad \subseteq SUBSET R /\ R \in Bad
    OBVIOUS
  <2> HIDE DEF Bad
  <2> QED BY <2>1, MinimalSubset
<1>2. T \in SUBSET R /\ Total(q, S \cup T) # Total(q, S) + Total(q, T)
  BY <1>1
<1>3. Total(q, S) \in Int
  BY TotalIsInt DEF Measures
<1>4. T # {}
  <2>1. S \cup {} = S
    OBVIOUS
  <2> QED BY <1>2, <1>3, <2>1, TotalOfNone
<1>5. PICK x : x \in T
  BY <1>4
<1> DEFINE U == T \ {x}
           V == S \cup U
<1>6. U \in SUBSET R /\ U # T /\ U \cup {x} = T /\ x \notin U /\ x \notin V /\ V \cup {x} = S \cup T
  BY <1>2, <1>5
<1>7. Total(q, V) = Total(q, S) + Total(q, U)
  BY <1>1, <1>6
<1>8. IsFiniteSet(U) /\ IsFiniteSet(V)
  <2>1. IsFiniteSet(U)
    BY <1>6, FS_Subset
  <2> QED BY <2>1, FS_Union
<1>9. Measures(q, U \cup {x}) /\ Measures(q, V \cup {x}) /\ Measures(q, U)
  BY <1>2, <1>6 DEF Measures
<1> HIDE DEF U, V
<1>10. Total(q, U \cup {x}) = q[x] + Total(q, U)
  BY <1>6, <1>8, <1>9, TotalOfOneMore
<1>11. Total(q, V \cup {x}) = q[x] + Total(q, V)
  BY <1>6, <1>8, <1>9, TotalOfOneMore
<1>12. q[x] \in Int /\ Total(q, U) \in Int
  BY <1>8, <1>9, TotalIsInt DEF Measures
<1>13. Total(q, S \cup T) = q[x] + Total(q, V) /\ Total(q, T) = q[x] + Total(q, U)
  BY <1>6, <1>10, <1>11
<1>14. Total(q, S \cup T) = Total(q, S) + Total(q, T)
  BY <1>3, <1>7, <1>12, <1>13
<1> QED BY <1>2, <1>14

\* Items that are added to the account that each belongs to raise the sum of the
\* accounts by the sum of the items.
PartOf(g, N, D) == {n \in N : g[n] \in D}
Moves(before, after, D, q, g, N) ==
  \A d \in D : after[d] = before[d] + Total(q, PartOf(g, N, {d}))

LEMMA TotalByGroup ==
  ASSUME NEW D, IsFiniteSet(D), NEW N, IsFiniteSet(N), NEW g, NEW q, Measures(q, N),
         NEW before, NEW after, Measures(before, D), Measures(after, D),
         Moves(before, after, D, q, g, N)
  PROVE  Total(after, D) = Total(before, D) + Total(q, PartOf(g, N, D))
<1> SUFFICES ASSUME Total(after, D) # Total(before, D) + Total(q, PartOf(g, N, D)) PROVE FALSE
  OBVIOUS
<1> DEFINE Bad == {E \in SUBSET D :
                     Total(after, E) # Total(before, E) + Total(q, PartOf(g, N, E))}
<1>1. PICK T \in Bad : \A U \in Bad : U \subseteq T => U = T
  <2>1. Bad \subseteq SUBSET D /\ D \in Bad
    OBVIOUS
  <2> HIDE DEF Bad
  <2> QED BY <2>1, MinimalSubset
<1>2. T \in SUBSET D /\ Total(after, T) # Total(before, T) + Total(q, PartOf(g, N, T))
  BY <1>1
<1>3. T # {}
  <2>1. PartOf(g, N, {}) = {}
    BY DEF PartOf
  <2> QED BY <1>2, <2>1, TotalOfNone
<1>4. PICK x : x \in T
  BY <1>3
<1> DEFINE U == T \ {x}
<1>5. U \in SUBSET D /\ U # T /\ U \cup {x} = T /\ x \notin U /\ x \in D
  BY <1>2, <1>4
<1>6. Total(after, U) = Total(before, U) + Total(q, PartOf(g, N, U))
  BY <1>1, <1>5
<1>7. IsFiniteSet(U)
  BY <1>5, FS_Subset
<1>8. /\ Measures(before, U) /\ Measures(before, U \cup {x})
      /\ Measures(after, U) /\ Measures(after, U \cup {x})
  BY <1>5 DEF Measures
<1> HIDE DEF U
<1> DEFINE P == PartOf(g, N, U)
           R == PartOf(g, N, {x})
<1>9. /\ IsFiniteSet(P) /\ IsFiniteSet(R) /\ P \cap R = {}
      /\ PartOf(g, N, T) = P \cup R /\ P \subseteq N /\ R \subseteq N
  <2>1. P \subseteq N /\ R \subseteq N /\ P \cap R = {} /\ PartOf(g, N, T) = P \cup R
    BY <1>5 DEF PartOf
  <2> QED BY <2>1, FS_Subset
<1> HIDE DEF P, R
<1>10. Measures(q, P) /\ Measures(q, R) /\ Measures(q, P \cup R)
  BY <1>9 DEF Measures
<1>11. Total(q, P \cup R) = Total(q, P) + Total(q, R)
  BY <1>9, <1>10, TotalOfUnion
<1>12. Total(after, U \cup {x}) = after[x] + Total(after, U)
  BY <1>5, <1>7, <1>8, TotalOfOneMore
<1>13. Total(before, U \cup {x}) = before[x] + Total(before, U)
  BY <1>5, <1>7, <1>8, TotalOfOneMore
<1>14. after[x] = before[x] + Total(q, R)
  BY <1>5 DEF R, Moves
<1>15. /\ Total(q, P) \in Int /\ Total(q, R) \in Int /\ before[x] \in Int
       /\ Total(before, U) \in Int
  BY <1>5, <1>7, <1>8, <1>9, <1>10, TotalIsInt DEF Measures
<1>16. Total(after, U) = Total(before, U) + Total(q, P)
  BY <1>6 DEF P
<1>17. /\ Total(after, T) = after[x] + Total(after, U)
       /\ Total(before, T) = before[x] + Total(before, U)
       /\ Total(q, PartOf(g, N, T)) = Total(q, P) + Total(q, R)
  BY <1>5, <1>9, <1>11, <1>12, <1>13
<1>18. Total(after, T) = Total(before, T) + Total(q, PartOf(g, N, T))
  BY <1>14, <1>15, <1>16, <1>17
<1> QED BY <1>2, <1>18

\* Renaming the elements of a set one to one leaves its sum as it is.
Renamed(f, s) == {f[x] : x \in s}

LEMMA RenamedIsFinite ==
  ASSUME NEW S, IsFiniteSet(S), NEW f PROVE IsFiniteSet(Renamed(f, S))
<1> DEFINE g == [x \in S |-> f[x]]
           T == Renamed(f, S)
<1>1. g \in Surjection(S, T)
  BY DEF Renamed, Surjection
<1> HIDE DEF g, T
<1>2. IsFiniteSet(T)
  BY <1>1, FS_Surjection
<1> QED BY <1>2 DEF T

LEMMA TotalOfRenamed ==
  ASSUME NEW S, IsFiniteSet(S), NEW f, \A x, y \in S : f[x] = f[y] => x = y,
         NEW p, Measures(p, S), NEW q, Measures(q, Renamed(f, S)),
         \A x \in S : p[x] = q[f[x]]
  PROVE  Total(p, S) = Total(q, Renamed(f, S))
<1> SUFFICES ASSUME Total(p, S) # Total(q, Renamed(f, S)) PROVE FALSE
  OBVIOUS
<1> DEFINE Bad == {s \in SUBSET S : Total(p, s) # Total(q, Renamed(f, s))}
<1>1. PICK T \in Bad : \A U \in Bad : U \subseteq T => U = T
  <2>1. Bad \subseteq SUBSET S /\ S \in Bad
    OBVIOUS
  <2> HIDE DEF Bad
  <2> QED BY <2>1, MinimalSubset
<1>2. T \in SUBSET S /\ Total(p, T) # Total(q, Renamed(f, T))
  BY <1>1
<1>3. T # {}
  <2>1. Renamed(f, {}) = {}
    BY DEF Renamed
  <2> QED BY <1>2, <2>1, TotalOfNone
<1>4. PICK x : x \in T
  BY <1>3
<1> DEFINE U == T \ {x}
           V == Renamed(f, U)
<1>5. U \in SUBSET S /\ U # T /\ U \cup {x} = T /\ x \notin U /\ x \in S
  BY <1>2, <1>4
<1>6. Total(p, U) = Total(q, V)
  BY <1>1, <1>5
<1>7. IsFiniteSet(U) /\ IsFiniteSet(V)
  BY <1>5, FS_Subset, RenamedIsFinite
<1>8. Renamed(f, T) = V \cup {f[x]} /\ f[x] \notin V
  BY <1>2, <1>5 DEF Renamed
<1>9. Measures(p, U \cup {x}) /\ Measures(q, V \cup {f[x]})
  BY <1>2, <1>5, <1>8 DEF Measures, Renamed
<1> HIDE DEF U, V
<1>10. Total(p, U \cup {x}) = p[x] + Total(p, U)
  BY <1>5, <1>7, <1>9, TotalOfOneMore
<1>11. Total(q, V \cup {f[x]}) = q[f[x]] + Total(q, V)
  BY <1>7, <1>8, <1>9, TotalOfOneMore
<1> QED BY <1>2, <1>5, <1>6, <1>8, <1>10, <1>11
-----------------------------------------------------------------------------
(* Sets in order *)

\* R orders the elements of S one after the other.
OrdersStrictly(R, S) ==
  /\ \A x \in S : <<x, x>> \notin R
  /\ \A x, y, z \in S : <<x, y>> \in R /\ <<y, z>> \in R => <<x, z>> \in R
  /\ \A x, y \in S : x = y \/ <<x, y>> \in R \/ <<y, x>> \in R

\* ListedBy lists every element of a finite set once, in the order given.
LEMMA ListsInTurn ==
  ASSUME NEW S, IsFiniteSet(S), NEW R, OrdersStrictly(R, S)
  PROVE  /\ ListedBy(S, R) \in Seq(S) /\ Len(ListedBy(S, R)) = Cardinality(S)
         /\ IsInjective(ListedBy(S, R))
         /\ ToSet(ListedBy(S, R)) = S
         /\ \A i, j \in 1..Len(ListedBy(S, R)) :
              i < j => <<ListedBy(S, R)[i], ListedBy(S, R)[j]>> \in R
<1> DEFINE c == Cardinality(S)
           Under(x) == {y \in S : <<y, x>> \in R}
           rank == [x \in S |-> Cardinality(Under(x))]
           ranks == 0..(c - 1)
<1>1. c \in Nat
  BY FS_CardinalityType
<1>2. ASSUME NEW x \in S PROVE IsFiniteSet(Under(x)) /\ rank[x] \in ranks
  <2>1. Under(x) \in SUBSET S /\ Under(x) # S
    BY DEF OrdersStrictly
  <2> HIDE DEF Under
  <2>2. IsFiniteSet(Under(x)) /\ Cardinality(Under(x)) <= c /\ Cardinality(Under(x)) # c
    BY <2>1, FS_Subset
  <2>3. Cardinality(Under(x)) \in Nat
    BY <2>2, FS_CardinalityType
  <2> QED BY <1>1, <2>2, <2>3
<1>3. ASSUME NEW x \in S, NEW y \in S, <<x, y>> \in R PROVE rank[x] < rank[y]
  <2>1. Under(x) \in SUBSET Under(y) /\ Under(x) # Under(y)
    BY <1>3 DEF OrdersStrictly
  <2>2. IsFiniteSet(Under(x)) /\ IsFiniteSet(Under(y))
    BY <1>2
  <2>3. rank[x] = Cardinality(Under(x)) /\ rank[y] = Cardinality(Under(y))
    OBVIOUS
  <2> HIDE DEF Under, rank
  <2>4. Cardinality(Under(x)) <= Cardinality(Under(y)) /\ Cardinality(Under(x)) # Cardinality(Under(y))
    BY <2>1, <2>2, FS_Subset
  <2>5. Cardinality(Under(x)) \in Nat /\ Cardinality(Under(y)) \in Nat
    BY <2>2, FS_CardinalityType
  <2> QED BY <2>3, <2>4, <2>5
<1>4. \A x, y \in S : rank[x] = rank[y] => x = y
  <2> SUFFICES ASSUME NEW x \in S, NEW y \in S, rank[x] = rank[y] PROVE x = y
    OBVIOUS
  <2>1. rank[x] \in ranks /\ rank[y] \in ranks
    BY <1>2
  <2>2. x = y \/ rank[x] < rank[y] \/ rank[y] < rank[x]
    BY <1>3 DEF OrdersStrictly
  <2> HIDE DEF rank, c
  <2>3. rank[x] \in Int /\ rank[y] \in Int
    BY <1>1, <2>1
  <2> QED BY <2>2, <2>3
<1>5. \A k \in ranks : \E x \in S : rank[x] = k
  <2> DEFINE image == Renamed(rank, S)
  <2>1. rank \in Surjection(S, image) /\ rank \in Injection(S, image)
    <3> HIDE DEF ranks
    <3>1. rank = [x \in S |-> rank[x]] /\ \A x \in S : rank[x] \in image
      BY DEF Renamed
    <3>2. \A k \in image : \E x \in S : rank[x] = k
      BY DEF Renamed
    <3> HIDE DEF rank, image
    <3>3. rank \in [S -> image] /\ DOMAIN rank = S
      BY <3>1
    <3> QED BY <1>4, <3>2, <3>3 DEF Surjection, Injection, IsInjective
  <2>2. image \in SUBSET ranks
    BY <1>2 DEF Renamed
  <2> HIDE DEF image
  <2>3. Cardinality(image) = c
    BY <2>1, FS_Surjection
  <2>4. IsFiniteSet(ranks) /\ Cardinality(ranks) = c
    <3>1. 0 \in Int /\ c - 1 \in Int /\ (0 > c - 1 => c = 0) /\ (c - 1) - 0 + 1 = c
      BY <1>1
    <3> HIDE DEF c
    <3> QED BY <3>1, FS_Interval
  <2> HIDE DEF ranks, c
  <2>5. image = ranks
    BY <2>2, <2>3, <2>4, FS_Subset
  <2> QED BY <2>5 DEF image, Renamed
<1> DEFINE s == ListedBy(S, R)
<1>6. /\ s = [k \in 1..c |-> CHOOSE x \in S : Cardinality(Under(x)) = k - 1]
      /\ DOMAIN s = 1..c
      /\ \A k \in 1..c : s[k] = CHOOSE x \in S : Cardinality(Under(x)) = k - 1
  BY DEF ListedBy
<1>7. \A k \in 1..c : s[k] \in S /\ rank[s[k]] = k - 1
  <2> SUFFICES ASSUME NEW k \in 1..c PROVE s[k] \in S /\ rank[s[k]] = k - 1
    OBVIOUS
  <2>1. k - 1 \in ranks
    BY <1>1
  <2>2. \E x \in S : Cardinality(Under(x)) = k - 1
    BY <1>5, <2>1
  <2> HIDE DEF Under, s, c
  <2>3. s[k] \in S /\ Cardinality(Under(s[k])) = k - 1
    BY <1>6, <2>2
  <2> QED BY <2>3
<1>8. s = [k \in 1..c |-> s[k]]
  <2> HIDE DEF s, c, Under
  <2> QED BY <1>6
<1> HIDE DEF s, c, rank
<1>9. s \in Seq(S) /\ Len(s) = c
  <2>1. s \in [1..c -> S]
    BY <1>6, <1>7, <1>8
  <2> QED BY <1>1, <2>1
<1>10. IsInjective(s)
  <2>1. ASSUME NEW i \in 1..c, NEW j \in 1..c, s[i] = s[j] PROVE i = j
    <3>1. i - 1 = j - 1
      BY <1>7, <2>1
    <3>2. i \in Int /\ j \in Int
      BY <1>1
    <3> QED BY <3>1, <3>2
  <2> QED BY <1>6, <2>1 DEF IsInjective
<1>11. ToSet(s) = S
  <2>1. ASSUME NEW x \in S PROVE \E k \in 1..c : s[k] = x
    <3>0. rank[x] \in ranks
      BY <1>2
    <3>1. rank[x] \in ranks /\ rank[x] + 1 \in 1..c /\ (rank[x] + 1) - 1 = rank[x]
      BY <1>1, <3>0
    <3>2. s[rank[x] + 1] = x
      BY <1>4, <1>7, <3>1
    <3> QED BY <3>1, <3>2
  <2> QED BY <1>6, <1>7, <2>1, ZenonT(60) DEF ToSet
<1>12. \A i, j \in 1..c : i < j => <<s[i], s[j]>> \in R
  <2> SUFFICES ASSUME NEW i \in 1..c, NEW j \in 1..c, i < j PROVE <<s[i], s[j]>> \in R
    OBVIOUS
  <2>1. s[i] \in S /\ s[j] \in S /\ rank[s[i]] = i - 1 /\ rank[s[j]] = j - 1
    BY <1>7
  <2>2. i \in Int /\ j \in Int /\ ~(rank[s[j]] < rank[s[i]]) /\ s[i] # s[j]
    BY <1>1, <2>1
  <2> QED BY <1>3, <2>1, <2>2 DEF OrdersStrictly
<1> QED BY <1>9, <1>10, <1>11, <1>12 DEF s, c

LEMMA ListsAll ==
  ASSUME NEW S, IsFiniteSet(S), NEW R, OrdersStrictly(R, S)
  PROVE  /\ ListedBy(S, R) \in Seq(S) /\ Len(ListedBy(S, R)) = Cardinality(S)
         /\ IsInjective(ListedBy(S, R))
         /\ ToSet(ListedBy(S, R)) = S
BY ListsInTurn

LEMMA AscendingListsAll ==
  ASSUME NEW S, IsFiniteSet(S), S \subseteq Int
  PROVE  /\ Ascending(S) \in Seq(S) /\ Len(Ascending(S)) = Cardinality(S)
         /\ IsInjective(Ascending(S))
         /\ ToSet(Ascending(S)) = S
<1> DEFINE R == {pair \in S \X S : pair[1] < pair[2]}
<1>1. \A x, y \in S : <<x, y>> \in R <=> x < y
  OBVIOUS
<1> HIDE DEF R
<1>2. OrdersStrictly(R, S)
  BY <1>1 DEF OrdersStrictly
<1>3. /\ ListedBy(S, R) \in Seq(S) /\ Len(ListedBy(S, R)) = Cardinality(S)
      /\ IsInjective(ListedBy(S, R)) /\ ToSet(ListedBy(S, R)) = S
  BY <1>2, ListsAll
<1> QED BY <1>3 DEF R, Ascending

-----------------------------------------------------------------------------
(* Folds *)

\* Induction up to N: a set of numbers that holds 0 and the successors of its members.
LEMMA UpTo ==
  ASSUME NEW N \in Nat, NEW G, 0 \in G, \A n \in 0..N : n \in G /\ n < N => n + 1 \in G
  PROVE  \A n \in 0..N : n \in G
<1> SUFFICES ASSUME NEW k \in 0..N, k \notin G PROVE FALSE
  OBVIOUS
<1> DEFINE Bad == {n \in 0..N : n \notin G}
<1>1. Min(Bad) \in Bad /\ \A x \in Bad : Min(Bad) <= x
  <2>1. Bad \subseteq 0..N /\ Bad # {}
    OBVIOUS
  <2> HIDE DEF Bad
  <2> QED BY <2>1, LeastExists
<1> DEFINE m == Min(Bad)
<1>2. m \in 0..N /\ m \notin G /\ \A x \in 0..N : x \notin G => m <= x
  BY <1>1
<1> HIDE DEF m, Bad
<1>3. m # 0 /\ m - 1 \in 0..N /\ m - 1 \in G /\ m - 1 < N /\ (m - 1) + 1 = m
  BY <1>2
<1> QED BY <1>2, <1>3

\* What FoldLeft does at the places S, the last one last: g says what one place does.
Folds(step, base, g, N) ==
  \A S \in SUBSET (1..N) :
    step[S] = IF S = {} THEN base ELSE g[<<Max(S), step[S \ {Max(S)}]>>]

LEMMA FoldExists ==
  ASSUME NEW N \in Nat, NEW V, NEW base \in V, NEW g \in [(1..N) \X V -> V]
  PROVE  \E step \in [SUBSET (1..N) -> V] : Folds(step, base, g, N)
<1> DEFINE Upto(n) == \E step \in [SUBSET (1..n) -> V] : Folds(step, base, g, n)
           G == {n \in 0..N : Upto(n)}
<1>1. Upto(0)
  <2> DEFINE step == [S \in SUBSET (1..0) |-> base]
  <2>1. step \in [SUBSET (1..0) -> V]
    OBVIOUS
  <2>2. \A S \in SUBSET (1..0) : S = {}
    OBVIOUS
  <2>3. Folds(step, base, g, 0)
    BY <2>2 DEF Folds
  <2> QED BY <2>1, <2>3
<1>2. ASSUME NEW n \in 0..N, Upto(n), n < N PROVE Upto(n + 1)
  <2>1. PICK step \in [SUBSET (1..n) -> V] : Folds(step, base, g, n)
    BY <1>2
  <2> DEFINE m == n + 1
             next == [S \in SUBSET (1..m) |->
                        IF m \in S THEN g[<<m, step[S \ {m}]>>] ELSE step[S]]
  <2>2. m \in 1..N /\ m \in Nat
    BY <1>2
  <2>3. ASSUME NEW S \in SUBSET (1..m)
        PROVE  /\ S \ {m} \in SUBSET (1..n) /\ (m \notin S => S \in SUBSET (1..n))
               /\ next[S] \in V
               /\ next[S] = IF S = {} THEN base ELSE g[<<Max(S), next[S \ {Max(S)}]>>]
    <3>1. S \ {m} \in SUBSET (1..n) /\ (m \notin S => S \in SUBSET (1..n))
      OBVIOUS
    <3> HIDE DEF m
    <3>2. next[S] = IF m \in S THEN g[<<m, step[S \ {m}]>>] ELSE step[S]
      OBVIOUS
    <3>3. next[S \ {m}] = step[S \ {m}]
      OBVIOUS
    <3>4. next[S] \in V
      BY <2>2, <3>1, <3>2
    <3>5. CASE m \in S
      <4>1. Max(S) = m
        <5>1. S \subseteq 0..m /\ S # {}
          BY <3>5
        <5>2. Max(S) \in S /\ \A x \in S : x <= Max(S)
          BY <2>2, <5>1, GreatestExists
        <5>3. Max(S) \in 0..m
          BY <5>1, <5>2
        <5>4. m <= Max(S)
          BY <3>5, <5>2
        <5> QED BY <2>2, <5>3, <5>4
      <4> QED BY <3>1, <3>2, <3>3, <3>4, <3>5, <4>1
    <3>6. CASE m \notin S
      <4>1. S \in SUBSET (1..n) /\ next[S] = step[S]
        BY <3>1, <3>2, <3>6
      <4>2. next[S] = IF S = {} THEN base ELSE g[<<Max(S), step[S \ {Max(S)}]>>]
        BY <2>1, <4>1 DEF Folds
      <4>3. next[S \ {Max(S)}] = step[S \ {Max(S)}]
        BY <3>6, <4>1
      <4> QED BY <3>1, <3>4, <4>2, <4>3
    <3> QED BY <3>5, <3>6
  <2>4. next \in [SUBSET (1..m) -> V]
    BY <2>3
  <2>5. Folds(next, base, g, m)
    BY <2>3 DEF Folds
  <2> QED BY <2>4, <2>5
<1> HIDE DEF Upto
<1>3. \A n \in 0..N : n \in G
  <2>1. 0 \in G
    BY <1>1
  <2>2. \A n \in 0..N : n \in G /\ n < N => n + 1 \in G
    BY <1>2
  <2> HIDE DEF G
  <2> QED BY <2>1, <2>2, UpTo
<1>4. Upto(N)
  BY <1>3
<1> QED BY <1>4 DEF Upto

\* step takes the places of S in turn, as long as what it has so far is in V.
Steps(step, base, g, N, V) ==
  /\ step[{}] = base
  /\ \A S \in (SUBSET (1..N)) \ {{}} :
       step[S \ {Max(S)}] \in V => step[S] = g[<<Max(S), step[S \ {Max(S)}]>>]

InTurn(step, base, g, N, V) ==
  /\ step[1..0] = base
  /\ \A n \in 0..N : step[1..n] \in V
  /\ \A n \in 1..N : step[1..n] = g[<<n, step[1..(n - 1)]>>]

\* A fold goes through the places 1 to N one after the other, and stays in V.
LEMMA FoldsInTurn ==
  ASSUME NEW N \in Nat, NEW V, NEW base \in V, NEW g \in [(1..N) \X V -> V],
         NEW step, Steps(step, base, g, N, V)
  PROVE  InTurn(step, base, g, N, V)
<1>1. step[1..0] = base
  <2>1. 1..0 = {}
    OBVIOUS
  <2> QED BY <2>1 DEF Steps
<1>2. ASSUME NEW n \in 1..N, step[1..(n - 1)] \in V PROVE step[1..n] = g[<<n, step[1..(n - 1)]>>]
  <2> DEFINE S == 1..n
  <2>1. S \in SUBSET (1..N) /\ S # {} /\ S \subseteq 0..N /\ n \in S /\ \A x \in S : x <= n
    OBVIOUS
  <2>2. S \ {n} = 1..(n - 1) /\ S \subseteq Nat
    OBVIOUS
  <2> HIDE DEF S
  <2>3. Max(S) \in S /\ \A x \in S : x <= Max(S)
    BY <2>1, GreatestExists
  <2>4. Max(S) = n
    BY <2>1, <2>2, <2>3
  <2>5. step[S \ {n}] \in V => step[S] = g[<<n, step[S \ {n}]>>]
    BY <2>1, <2>4 DEF Steps
  <2> QED BY <1>2, <2>2, <2>5 DEF S
<1>3. \A n \in 0..N : step[1..n] \in V
  <2> DEFINE G == {n \in 0..N : step[1..n] \in V}
  <2>1. 0 \in G
    BY <1>1
  <2>2. ASSUME NEW n \in 0..N, n \in G, n < N PROVE n + 1 \in G
    <3>1. n + 1 \in 1..N /\ (n + 1) - 1 = n /\ n + 1 \in 0..N
      BY <2>2
    <3>2. step[1..n] \in V
      BY <2>2
    <3>3. step[1..(n + 1)] = g[<<n + 1, step[1..n]>>]
      BY <1>2, <3>1, <3>2
    <3> QED BY <3>1, <3>2, <3>3
  <2> HIDE DEF G
  <2>3. \A n \in 0..N : n \in G
    BY <2>1, <2>2, UpTo
  <2> QED BY <2>3 DEF G
<1>4. \A n \in 1..N : step[1..n] = g[<<n, step[1..(n - 1)]>>]
  <2> SUFFICES ASSUME NEW n \in 1..N PROVE step[1..n] = g[<<n, step[1..(n - 1)]>>]
    OBVIOUS
  <2>1. n - 1 \in 0..N
    OBVIOUS
  <2> QED BY <1>2, <1>3, <2>1
<1> QED BY <1>1, <1>3, <1>4 DEF InTurn
=============================================================================
