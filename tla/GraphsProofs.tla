----------------------------- MODULE GraphsProofs -----------------------------
(***************************************************************************)
(* Kahn's algorithm sorts the steps of every process and refuses just the  *)
(* ones that cannot be sorted; greedy colouring keeps conflicting steps    *)
(* apart, in as few environments as the conflicts of one step call for.    *)
(*                                                                         *)
(* The depth-first search for a cycle of slot requests finds one in every  *)
(* graph that has one, and slots change hands in whole exchanges.          *)
(*                                                                         *)
(* The search for the ways to a product finds one just when there is one,  *)
(* which leads there, and none that is heavier than any walk there.        *)
(***************************************************************************)
EXTENDS Scheduling, SlotSwaps, Journeys, Sums, SequenceTheorems

-----------------------------------------------------------------------------
(* Sequences without repetition *)

Distinct(s, T) == s \in Seq(T) /\ IsInjective(s)

\* An element put at the end of a sequence that lacks it.
LEMMA AppendedOnce ==
  ASSUME NEW T, NEW s, Distinct(s, T), NEW x \in T, x \notin ToSet(s)
  PROVE  Distinct(Append(s, x), T) /\ ToSet(Append(s, x)) = ToSet(s) \cup {x}
<1> DEFINE n == Len(s)
           a == Append(s, x)
<1>1. s \in Seq(T) /\ n \in Nat /\ DOMAIN s = 1..n /\ \A i, j \in 1..n : s[i] = s[j] => i = j
  BY DEF Distinct, IsInjective
<1>2. /\ a \in Seq(T) /\ DOMAIN a = 1..(n + 1)
      /\ \A i \in 1..(n + 1) : a[i] = IF i = n + 1 THEN x ELSE s[i]
  BY <1>1
<1>3. \A i \in 1..n : s[i] \in ToSet(s)
  BY <1>1 DEF ToSet
<1>4. 1..(n + 1) = (1..n) \cup {n + 1} /\ n + 1 \notin 1..n
  BY <1>1
<1> HIDE DEF n, a
<1>5. IsInjective(a)
  BY <1>1, <1>2, <1>3, <1>4 DEF IsInjective
<1>6. ToSet(a) = ToSet(s) \cup {x}
  BY <1>1, <1>2, <1>4 DEF ToSet
<1> QED BY <1>2, <1>5, <1>6 DEF Distinct, a

LEMMA IncludingAdds ==
  ASSUME NEW T, NEW s, Distinct(s, T), NEW x \in T
  PROVE  Distinct(Including(s, x), T) /\ ToSet(Including(s, x)) = ToSet(s) \cup {x}
BY AppendedOnce DEF Including, ToSet

\* The elements at some places of a sequence.
LEMMA PlacesPicked ==
  ASSUME NEW T, NEW s \in Seq(T), NEW P \in SUBSET DOMAIN s
  PROVE  /\ AtPlaces(s, P) \in Seq(T) /\ ToSet(AtPlaces(s, P)) = {s[k] : k \in P}
         /\ Len(AtPlaces(s, P)) = Cardinality(P)
         /\ IsInjective(s) => IsInjective(AtPlaces(s, P))
<1> DEFINE n == Len(s)
           order == Ascending(P)
           picked == AtPlaces(s, P)
<1>1. n \in Nat /\ DOMAIN s = 1..n
  OBVIOUS
<1>2. IsFiniteSet(P) /\ P \subseteq Int
  <2>1. 0 \in Int /\ n \in Int /\ 1 \in Int /\ P \in SUBSET (1..n) /\ 1..n \subseteq Int
    BY <1>1
  <2> HIDE DEF n
  <2>2. IsFiniteSet(1..n)
    BY <2>1, FS_Interval
  <2> QED BY <2>1, <2>2, FS_Subset
<1>3. /\ order \in Seq(P) /\ IsInjective(order) /\ ToSet(order) = P
      /\ Len(order) = Cardinality(P)
  BY <1>2, AscendingListsAll
<1>4. picked = [k \in DOMAIN order |-> s[order[k]]]
  BY DEF AtPlaces
<1> HIDE DEF order, picked, n
<1> DEFINE m == Len(order)
<1>5. m \in Nat /\ DOMAIN order = 1..m /\ \A k \in 1..m : order[k] \in P
  BY <1>3
<1>6. DOMAIN picked = 1..m /\ \A k \in 1..m : picked[k] = s[order[k]] /\ picked[k] \in T
  BY <1>1, <1>4, <1>5
<1> HIDE DEF m
<1>7. picked \in Seq(T) /\ Len(picked) = m
  <2>1. picked \in [1..m -> T]
    BY <1>4, <1>5, <1>6
  <2> QED BY <1>5, <2>1
<1>8. IsInjective(s) => IsInjective(picked)
  BY <1>1, <1>3, <1>5, <1>6 DEF IsInjective
<1>9. ToSet(picked) = {s[k] : k \in P}
  <2>1. \A k \in P : \E i \in 1..m : order[i] = k
    BY <1>3, <1>5 DEF ToSet
  <2>2. ToSet(picked) = {picked[k] : k \in 1..m}
    BY <1>6 DEF ToSet
  <2>3. \A k \in 1..m : order[k] \in P /\ picked[k] = s[order[k]]
    BY <1>5, <1>6
  <2> QED BY <2>1, <2>2, <2>3
<1> QED BY <1>3, <1>7, <1>8, <1>9 DEF m, picked

\* A sequence without repetition is as long as it has elements.
LEMMA DistinctLength ==
  ASSUME NEW T, NEW s, Distinct(s, T)
  PROVE  /\ IsFiniteSet(ToSet(s)) /\ Cardinality(ToSet(s)) = Len(s) /\ Len(s) \in Nat
         /\ ToSet(s) \subseteq T
<1> DEFINE n == Len(s)
           D == 1..n
           R == ToSet(s)
<1>1. s \in Seq(T) /\ n \in Nat /\ DOMAIN s = D /\ IsInjective(s) /\ R \subseteq T
  BY DEF Distinct, ToSet
<1>2. IsFiniteSet(D) /\ Cardinality(D) = n
  <2>1. 1 \in Int /\ n \in Int
    BY <1>1
  <2>2. IsFiniteSet(D) /\ Cardinality(D) = IF 1 > n THEN 0 ELSE n - 1 + 1
    BY <2>1, FS_Interval
  <2> QED BY <1>1, <2>2
<1>3. s \in Surjection(D, R) /\ s \in Injection(D, R)
  <2>1. s \in [D -> R]
    BY <1>1 DEF ToSet
  <2>2. \A y \in R : \E x \in D : s[x] = y
    BY <1>1 DEF ToSet
  <2> HIDE DEF D, R
  <2> QED BY <1>1, <2>1, <2>2 DEF Surjection, Injection
<1> HIDE DEF D, R, n
<1>4. IsFiniteSet(R) /\ Cardinality(R) = Cardinality(D)
  BY <1>2, <1>3, FS_Surjection
<1> QED BY <1>1, <1>2, <1>4 DEF n, R

-----------------------------------------------------------------------------
(* What the builders keep *)

BuildersInv ==
  /\ Distinct(steps, StepObjects)
  /\ Distinct(dependencies, StepNames \X StepNames)
  /\ \A d \in ToSet(dependencies) :
       \E s, t \in ToSet(steps) : d = <<s.name, t.name>>
  /\ Distinct(apart, StepNames)
  /\ conflicts \in SUBSET (ToSet(apart) \X ToSet(apart))

LEMMA StepNamesOf ==
  \A s \in StepObjects : s.name \in StepNames
BY SchedulingAssumption

LEMMA BuildersStart == GInit => BuildersInv
<1> SUFFICES ASSUME GInit PROVE BuildersInv
  OBVIOUS
<1>1. \A T : Distinct(<<>>, T) /\ ToSet(<<>>) = {}
  BY DEF Distinct, IsInjective, ToSet
<1> QED BY <1>1 DEF GInit, BuildersInv

LEMMA BuildersStep == BuildersInv /\ [ProcessNext \/ ConcurrencyNext]_gvars => BuildersInv'
<1> SUFFICES ASSUME BuildersInv, [ProcessNext \/ ConcurrencyNext]_gvars PROVE BuildersInv'
  OBVIOUS
<1> USE DEF BuildersInv
<1>1. ASSUME NEW s \in StepObjects, AddStep(s) PROVE BuildersInv'
  <2>1. steps' = Including(steps, s) /\ UNCHANGED <<dependencies, apart, conflicts>>
    BY <1>1 DEF AddStep
  <2>2. Distinct(steps', StepObjects) /\ ToSet(steps') = ToSet(steps) \cup {s}
    BY <2>1, IncludingAdds
  <2> QED BY <2>1, <2>2
<1>2. ASSUME NEW s \in StepObjects, NEW t \in StepObjects, AddDependency(s, t)
      PROVE  BuildersInv'
  <2> DEFINE with == Including(steps, s)
             d == <<s.name, t.name>>
  <2>1. /\ steps' = Including(with, t) /\ dependencies' = Including(dependencies, d)
        /\ UNCHANGED <<apart, conflicts>>
    BY <1>2 DEF AddDependency
  <2>2. Distinct(with, StepObjects) /\ ToSet(with) = ToSet(steps) \cup {s}
    BY IncludingAdds
  <2>3. d \in StepNames \X StepNames
    BY StepNamesOf
  <2> HIDE DEF with
  <2>4. Distinct(steps', StepObjects) /\ ToSet(steps') = ToSet(steps) \cup {s, t}
    <3>1. Distinct(steps', StepObjects) /\ ToSet(steps') = ToSet(with) \cup {t}
      BY <2>1, <2>2, IncludingAdds
    <3> QED BY <2>2, <3>1
  <2>5. /\ Distinct(dependencies', StepNames \X StepNames)
        /\ ToSet(dependencies') = ToSet(dependencies) \cup {d}
    <3> HIDE DEF d
    <3> QED BY <2>1, <2>3, IncludingAdds
  <2>6. \A e \in ToSet(dependencies') : \E u, v \in ToSet(steps') : e = <<u.name, v.name>>
    <3>1. \A e \in ToSet(dependencies) : \E u, v \in ToSet(steps') : e = <<u.name, v.name>>
      BY <2>4
    <3>2. \E u, v \in ToSet(steps') : d = <<u.name, v.name>>
      BY <2>4
    <3> QED BY <2>5, <3>1, <3>2
  <2> QED BY <2>1, <2>4, <2>5, <2>6
<1>3. ASSUME NEW n \in StepNames, AddRunner(n) PROVE BuildersInv'
  <2>1. apart' = Including(apart, n) /\ UNCHANGED <<steps, dependencies, conflicts>>
    BY <1>3 DEF AddRunner
  <2>2. Distinct(apart', StepNames) /\ ToSet(apart') = ToSet(apart) \cup {n}
    BY <2>1, IncludingAdds
  <2> QED BY <2>1, <2>2
<1>4. ASSUME NEW m \in StepNames, NEW n \in StepNames, AddConflict(m, n) PROVE BuildersInv'
  <2> DEFINE with == Including(apart, m)
  <2>1. /\ apart' = Including(with, n) /\ conflicts' = conflicts \cup {<<m, n>>}
        /\ UNCHANGED <<steps, dependencies>>
    BY <1>4 DEF AddConflict
  <2>2. Distinct(with, StepNames) /\ ToSet(with) = ToSet(apart) \cup {m}
    BY IncludingAdds
  <2> HIDE DEF with
  <2>3. Distinct(apart', StepNames) /\ ToSet(apart') = ToSet(apart) \cup {m, n}
    <3>1. Distinct(apart', StepNames) /\ ToSet(apart') = ToSet(with) \cup {n}
      BY <2>1, <2>2, IncludingAdds
    <3> QED BY <2>2, <3>1
  <2> QED BY <2>1, <2>3
<1>5. CASE UNCHANGED gvars
  BY <1>5 DEF gvars
<1> QED BY <1>1, <1>2, <1>3, <1>4, <1>5 DEF ProcessNext, ConcurrencyNext

-----------------------------------------------------------------------------
(* The names of the steps *)

\* Names has the name of every step once.
LEMMA NamesAreListed ==
  ASSUME BuildersInv
  PROVE  /\ Distinct(Names, StepNames) /\ ToSet(Names) = {s.name : s \in ToSet(steps)}
         /\ Len(Names) <= Len(steps)
<1> DEFINE N == Len(steps)
           V == Seq(StepNames)
           With(names, k) == Including(names, steps[k].name)
           g == [x \in (1..N) \X V |-> With(x[2], x[1])]
           D == DOMAIN steps
           adds(it) == it = [S \in SUBSET D |->
             IF S = {} THEN <<>> ELSE With(it[S \ {Max(S)}], Max(S))]
           fold == CHOOSE it : adds(it)
<1>1. /\ N \in Nat /\ D = 1..N
      /\ \A k \in 1..N : steps[k] \in StepObjects /\ steps[k].name \in StepNames
  BY StepNamesOf DEF BuildersInv, Distinct
<1>2. Names = fold[D]
  BY DEF Names, FoldLeft, MapThenFoldSet
<1>3. <<>> \in V /\ \A names \in V, k \in 1..N : With(names, k) \in V
  BY <1>1 DEF Including
<1>4. \A names, k : With(names, k) = Including(names, steps[k].name)
  OBVIOUS
<1> HIDE DEF N, V, With
<1>5. g \in [(1..N) \X V -> V] /\ \A k \in 1..N, names \in V : g[<<k, names>>] = With(names, k)
  BY <1>3
<1> HIDE DEF g
<1>6. PICK step \in [SUBSET (1..N) -> V] : Folds(step, <<>>, g, N)
  BY <1>1, <1>3, <1>5, FoldExists
<1>7. ASSUME NEW S \in SUBSET (1..N), S # {} PROVE Max(S) \in 1..N
  <2>1. S \subseteq 0..N
    OBVIOUS
  <2>2. Max(S) \in S
    BY <1>1, <1>7, <2>1, GreatestExists
  <2> QED BY <2>2
<1>8. adds(step)
  <2>1. ASSUME NEW S \in SUBSET (1..N)
        PROVE  step[S] = IF S = {} THEN <<>> ELSE With(step[S \ {Max(S)}], Max(S))
    <3>1. S \ {Max(S)} \in SUBSET (1..N)
      OBVIOUS
    <3>2. step[S] = IF S = {} THEN <<>> ELSE g[<<Max(S), step[S \ {Max(S)}]>>]
      BY <1>6 DEF Folds
    <3>3. step[S \ {Max(S)}] \in V
      BY <1>6, <3>1
    <3> HIDE DEF Max
    <3> QED BY <1>5, <1>7, <3>2, <3>3
  <2> QED BY <1>1, <1>6, <2>1
<1> HIDE DEF adds
<1>9. adds(fold)
  BY <1>8
<1> HIDE DEF fold
<1>10. Steps(fold, <<>>, g, N, V)
  <2>1. fold[{}] = <<>>
    BY <1>9 DEF adds
  <2>2. ASSUME NEW S \in (SUBSET (1..N)) \ {{}}, fold[S \ {Max(S)}] \in V
        PROVE  fold[S] = g[<<Max(S), fold[S \ {Max(S)}]>>]
    <3>1. fold[S] = With(fold[S \ {Max(S)}], Max(S))
      BY <1>1, <1>9 DEF adds
    <3> QED BY <1>5, <1>7, <2>2, <3>1
  <2> QED BY <2>1, <2>2 DEF Steps
<1>11. /\ fold[1..0] = <<>> /\ \A n \in 0..N : fold[1..n] \in V
       /\ \A n \in 1..N : fold[1..n] = g[<<n, fold[1..(n - 1)]>>]
  <2>1. N \in Nat /\ <<>> \in V /\ g \in [(1..N) \X V -> V]
    BY <1>1, <1>3, <1>5
  <2>2. InTurn(fold, <<>>, g, N, V)
    BY <1>10, <2>1, FoldsInTurn
  <2> QED BY <2>2 DEF InTurn
<1> DEFINE h == [n \in 0..N |-> fold[1..n]]
<1>12. /\ h[0] = <<>> /\ h[N] = Names
       /\ \A n \in 0..N : n < N => n + 1 \in 1..N /\ h[n + 1] = With(h[n], n + 1)
  <2>1. h[0] = <<>> /\ h[N] = fold[D] /\ \A n \in 0..N : h[n] \in V /\ h[n] = fold[1..n]
    BY <1>1, <1>11
  <2>2. ASSUME NEW n \in 0..N, n < N PROVE n + 1 \in 1..N /\ h[n + 1] = With(h[n], n + 1)
    <3>1. n + 1 \in 1..N /\ n + 1 \in 0..N /\ (n + 1) - 1 = n
      BY <1>1, <2>2
    <3>2. h[n + 1] = g[<<n + 1, h[n]>>]
      BY <1>11, <2>1, <3>1
    <3> QED BY <1>5, <2>1, <3>1, <3>2
  <2> QED BY <1>2, <2>1, <2>2
<1> HIDE DEF h
<1> DEFINE Upto(n) == {steps[k].name : k \in 1..n}
           G == {n \in 0..N : /\ Distinct(h[n], StepNames) /\ ToSet(h[n]) = Upto(n)
                              /\ Len(h[n]) <= n}
<1>13. \A n \in 0..N : n \in G
  <2>1. 0 \in G
    <3>1. \A T : Distinct(<<>>, T) /\ ToSet(<<>>) = {}
      BY DEF Distinct, IsInjective, ToSet
    <3>2. Upto(0) = {} /\ Len(<<>>) <= 0 /\ 0 \in 0..N
      BY <1>1
    <3> QED BY <1>12, <3>1, <3>2
  <2>2. ASSUME NEW n \in 0..N, n \in G, n < N PROVE n + 1 \in G
    <3> DEFINE x == steps[n + 1].name
    <3>1. /\ n + 1 \in 1..N /\ n + 1 \in 0..N /\ h[n + 1] = Including(h[n], x) /\ x \in StepNames
          /\ Distinct(h[n], StepNames) /\ ToSet(h[n]) = Upto(n) /\ Len(h[n]) <= n
      <4>1. n + 1 \in 1..N /\ n + 1 \in 0..N
        BY <1>1, <2>2
      <4>2. /\ n \in 0..N /\ Distinct(h[n], StepNames) /\ ToSet(h[n]) = Upto(n) /\ Len(h[n]) <= n
        BY <2>2
      <4>3. h[n + 1] = With(h[n], n + 1)
        BY <1>12, <2>2
      <4>4. With(h[n], n + 1) = Including(h[n], x) /\ x \in StepNames
        <5>1. x \in StepNames
          BY <1>1, <4>1
        <5> QED BY <1>4, <5>1
      <4> QED BY <4>1, <4>2, <4>3, <4>4
    <3>2. Upto(n + 1) = Upto(n) \cup {x}
      <4>1. 1..(n + 1) = (1..n) \cup {n + 1}
        BY <1>1
      <4> QED BY <4>1
    <3> HIDE DEF Upto, x
    <3>3. Distinct(h[n + 1], StepNames) /\ ToSet(h[n + 1]) = Upto(n + 1)
      <4>1. /\ Distinct(Including(h[n], x), StepNames)
            /\ ToSet(Including(h[n], x)) = ToSet(h[n]) \cup {x}
        BY <3>1, IncludingAdds
      <4> QED BY <3>1, <3>2, <4>1
    <3>4. Len(h[n + 1]) <= n + 1
      <4>1. h[n] \in Seq(StepNames) /\ Len(h[n]) \in Nat /\ n \in Nat
        BY <3>1 DEF Distinct
      <4> QED BY <3>1, <4>1 DEF Including
    <3> QED BY <3>1, <3>3, <3>4
  <2> HIDE DEF G
  <2> QED BY <1>1, <2>1, <2>2, UpTo
<1>14. Distinct(Names, StepNames) /\ ToSet(Names) = Upto(N) /\ Len(Names) <= N
  <2>1. N \in 0..N
    BY <1>1
  <2> QED BY <1>12, <1>13, <2>1
<1>15. Upto(N) = {s.name : s \in ToSet(steps)}
  BY <1>1 DEF ToSet
<1> QED BY <1>14, <1>15 DEF N

-----------------------------------------------------------------------------
(* Kahn's algorithm *)

Ns == ToSet(Names)
Dependencies == ToSet(dependencies)

\* Dependencies are between steps of the process.
LEMMA DependenciesAreKnown ==
  ASSUME BuildersInv
  PROVE  /\ Distinct(Names, Ns) /\ IsFiniteSet(Ns) /\ Cardinality(Ns) = Len(Names)
         /\ Len(Names) \in Nat /\ Ns \subseteq StepNames
         /\ IsFiniteSet(Dependencies) /\ \A d \in Dependencies : d \in Ns \X Ns
<1>1. Distinct(Names, StepNames) /\ Ns = {s.name : s \in ToSet(steps)}
  BY NamesAreListed DEF Ns
<1>2. Names \in Seq(Ns)
  BY <1>1 DEF Distinct, ToSet, Ns
<1>3. \A d \in Dependencies : d \in Ns \X Ns
  BY <1>1 DEF BuildersInv, Dependencies
<1>4. IsFiniteSet(Dependencies)
  BY DistinctLength DEF BuildersInv, Dependencies
<1>5. /\ IsFiniteSet(Ns) /\ Cardinality(Ns) = Len(Names) /\ Len(Names) \in Nat
      /\ Ns \subseteq StepNames
  BY <1>1, DistinctLength DEF Ns
<1> QED BY <1>1, <1>2, <1>3, <1>4, <1>5 DEF Distinct

LEMMA SuccessorsAre ==
  ASSUME BuildersInv, NEW n \in Ns
  PROVE  /\ Distinct(Successors(n), Ns)
         /\ ToSet(Successors(n)) = {m \in Ns : <<n, m>> \in Dependencies}
<1> DEFINE P == {k \in DOMAIN dependencies : dependencies[k][1] = n}
           mine == AtPlaces(dependencies, P)
           next == Successors(n)
           R == StepNames \X StepNames
<1>1. Distinct(dependencies, R) /\ \A d \in Dependencies : d \in Ns \X Ns
  BY DependenciesAreKnown DEF BuildersInv
<1>2. next = [k \in DOMAIN mine |-> mine[k][2]]
  BY DEF Successors
<1>3. P \in SUBSET DOMAIN dependencies
  OBVIOUS
<1>4. \A d \in {dependencies[k] : k \in P} : d \in Dependencies /\ d[1] = n
  BY DEF ToSet, Dependencies
<1>5. \A m : <<n, m>> \in Dependencies => <<n, m>> \in {dependencies[k] : k \in P}
  BY DEF ToSet, Dependencies
<1> HIDE DEF P, mine, next, R
<1>6. Distinct(mine, R) /\ ToSet(mine) = {dependencies[k] : k \in P}
  BY <1>1, <1>3, PlacesPicked DEF mine, Distinct
<1> DEFINE c == Len(mine)
<1>7. c \in Nat /\ DOMAIN mine = 1..c /\ \A i, j \in 1..c : mine[i] = mine[j] => i = j
  BY <1>6 DEF Distinct, IsInjective
<1> HIDE DEF c
<1>8. \A k \in 1..c : mine[k] \in Dependencies /\ mine[k] = <<n, next[k]>> /\ next[k] \in Ns
  <2> SUFFICES ASSUME NEW k \in 1..c
               PROVE  mine[k] \in Dependencies /\ mine[k] = <<n, next[k]>> /\ next[k] \in Ns
    OBVIOUS
  <2>1. mine[k] \in Dependencies /\ mine[k][1] = n
    BY <1>4, <1>6, <1>7 DEF ToSet
  <2>2. next[k] = mine[k][2]
    BY <1>2, <1>7
  <2> QED BY <1>1, <2>1, <2>2
<1>9. DOMAIN next = 1..c /\ next \in Seq(Ns)
  <2>1. next \in [1..c -> Ns]
    BY <1>2, <1>7, <1>8
  <2> QED BY <1>7, <2>1
<1>10. IsInjective(next)
  BY <1>7, <1>8, <1>9 DEF IsInjective
<1>11. ASSUME NEW m \in Ns, <<n, m>> \in Dependencies PROVE \E k \in 1..c : next[k] = m
  <2>1. <<n, m>> \in ToSet(mine)
    BY <1>5, <1>6, <1>11
  <2>2. PICK k \in 1..c : mine[k] = <<n, m>>
    BY <1>7, <2>1 DEF ToSet
  <2> QED BY <1>8, <2>2
<1>12. ToSet(next) = {m \in Ns : <<n, m>> \in Dependencies}
  BY <1>8, <1>9, <1>11 DEF ToSet
<1> QED BY <1>9, <1>10, <1>12 DEF Distinct, next

LEMMA FreedAre ==
  ASSUME NEW T, NEW names, Distinct(names, T), NEW degrees
  PROVE  /\ Distinct(Freed(names, degrees), T)
         /\ ToSet(Freed(names, degrees)) = {n \in ToSet(names) : degrees[n] = 0}
<1> DEFINE P == {k \in DOMAIN names : degrees[names[k]] = 0}
<1>1. {names[k] : k \in P} = {n \in ToSet(names) : degrees[n] = 0}
  BY DEF ToSet
<1>2. P \in SUBSET DOMAIN names /\ Freed(names, degrees) = AtPlaces(names, P)
  BY DEF Freed
<1> HIDE DEF P
<1> QED BY <1>1, <1>2, PlacesPicked DEF Distinct

\* What a step still waits for.
Waits(n, done) == {d \in Dependencies : d[2] = n /\ d[1] \notin ToSet(done)}

\* Steps are queued or done when they wait for nothing; those done come after
\* the steps they depend on.
Sorting(s) ==
  /\ Distinct(s.queue, Ns) /\ Distinct(s.done, Ns)
  /\ ToSet(s.queue) \cap ToSet(s.done) = {}
  /\ s.degrees = [n \in Ns |-> Cardinality(Waits(n, s.done))]
  /\ \A n \in Ns : n \in ToSet(s.queue) \cup ToSet(s.done) <=> Waits(n, s.done) = {}
  /\ \A d \in Dependencies, k \in DOMAIN s.done :
       s.done[k] = d[2] => \E i \in 1..(k - 1) : s.done[i] = d[1]

LEMMA WaitsAreCounted ==
  ASSUME BuildersInv, NEW done, NEW n
  PROVE  /\ IsFiniteSet(Waits(n, done)) /\ Cardinality(Waits(n, done)) \in Nat
         /\ Cardinality(Waits(n, done)) = 0 <=> Waits(n, done) = {}
<1>1. IsFiniteSet(Waits(n, done))
  <2>1. Waits(n, done) \in SUBSET Dependencies
    BY DEF Waits
  <2> QED BY <2>1, DependenciesAreKnown, FS_Subset
<1> QED BY <1>1, FS_CardinalityType, FS_EmptySet

LEMMA StartIsSorting == BuildersInv => Sorting(Start)
<1> SUFFICES ASSUME BuildersInv PROVE Sorting(Start)
  OBVIOUS
<1> DEFINE degrees == InDegrees
<1>1. \A T : Distinct(<<>>, T) /\ ToSet(<<>>) = {} /\ DOMAIN <<>> = {}
  BY DEF Distinct, IsInjective, ToSet
<1>2. degrees = [n \in Ns |-> Cardinality(Waits(n, <<>>))]
  <2>1. \A n \in Ns : {d \in Dependencies : d[2] = n} = Waits(n, <<>>)
    BY <1>1 DEF Waits
  <2>2. degrees = [n \in Ns |-> Cardinality({d \in Dependencies : d[2] = n})]
    BY DEF InDegrees, Ns, Dependencies
  <2> QED BY <2>1, <2>2
<1>3. Start = [queue |-> Freed(Names, degrees), degrees |-> degrees, done |-> <<>>]
  BY DEF Start
<1> HIDE DEF degrees
<1>4. /\ Distinct(Freed(Names, degrees), Ns)
      /\ ToSet(Freed(Names, degrees)) = {n \in Ns : degrees[n] = 0}
  BY DependenciesAreKnown, FreedAre DEF Ns
<1>5. \A n \in Ns : degrees[n] = 0 <=> Waits(n, <<>>) = {}
  BY <1>2, WaitsAreCounted
<1> QED BY <1>1, <1>2, <1>3, <1>4, <1>5 DEF Sorting

Sortings == [queue : Seq(Ns), degrees : [Ns -> Int], done : Seq(Ns)]

\* The first element of a sequence without repetition, and the rest.
LEMMA FirstAndRest ==
  ASSUME NEW T, NEW s, Distinct(s, T), s # <<>>
  PROVE  /\ Head(s) \in T /\ Distinct(Tail(s), T)
         /\ ToSet(s) = {Head(s)} \cup ToSet(Tail(s)) /\ Head(s) \notin ToSet(Tail(s))
<1> DEFINE n == Len(s)
<1>1. /\ s \in Seq(T) /\ n \in Nat /\ n >= 1 /\ DOMAIN s = 1..n
      /\ \A i, j \in 1..n : s[i] = s[j] => i = j
  BY DEF Distinct, IsInjective
<1>2. /\ Head(s) = s[1] /\ s[1] \in T /\ Tail(s) \in Seq(T) /\ DOMAIN Tail(s) = 1..(n - 1)
      /\ \A i \in 1..(n - 1) : Tail(s)[i] = s[i + 1] /\ i + 1 \in 1..n
  BY <1>1
<1> HIDE DEF n
<1>3. IsInjective(Tail(s))
  <2> SUFFICES ASSUME NEW i \in 1..(n - 1), NEW j \in 1..(n - 1), Tail(s)[i] = Tail(s)[j]
               PROVE  i = j
    BY <1>2 DEF IsInjective
  <2>1. s[i + 1] = s[j + 1] /\ i + 1 \in 1..n /\ j + 1 \in 1..n
    BY <1>2
  <2>2. i + 1 = j + 1
    BY <1>1, <2>1
  <2> QED BY <1>1, <2>2
<1>4. ToSet(s) = {s[1]} \cup ToSet(Tail(s))
  <2>1. ASSUME NEW k \in 1..n PROVE k = 1 \/ \E i \in 1..(n - 1) : Tail(s)[i] = s[k]
    <3>1. k = 1 \/ (k - 1 \in 1..(n - 1) /\ (k - 1) + 1 = k)
      BY <1>1
    <3> QED BY <1>2, <3>1
  <2>2. 1 \in 1..n
    BY <1>1
  <2>3. ToSet(s) = {s[k] : k \in 1..n} /\ ToSet(Tail(s)) = {Tail(s)[i] : i \in 1..(n - 1)}
    BY <1>1, <1>2 DEF ToSet
  <2>4. ASSUME NEW x \in ToSet(s) PROVE x = s[1] \/ x \in ToSet(Tail(s))
    <3>1. PICK k \in 1..n : x = s[k]
      BY <2>3
    <3> QED BY <2>1, <2>3, <3>1
  <2>5. \A i \in 1..(n - 1) : Tail(s)[i] \in ToSet(s)
    BY <1>2, <2>3
  <2>6. s[1] \in ToSet(s)
    BY <2>2, <2>3
  <2> QED BY <2>3, <2>4, <2>5, <2>6
<1>5. s[1] \notin ToSet(Tail(s))
  <2>1. ASSUME NEW i \in 1..(n - 1), Tail(s)[i] = s[1] PROVE FALSE
    <3>1. i + 1 = 1 /\ i >= 1
      BY <1>1, <1>2, <2>1
    <3> QED BY <1>1, <3>1
  <2> QED BY <1>2, <2>1 DEF ToSet
<1> QED BY <1>2, <1>3, <1>4, <1>5 DEF Distinct

\* Sequences without repetition that have nothing in common, put together.
LEMMA PutTogether ==
  ASSUME NEW T, NEW s, Distinct(s, T), NEW t, Distinct(t, T), ToSet(s) \cap ToSet(t) = {}
  PROVE  Distinct(s \o t, T) /\ ToSet(s \o t) = ToSet(s) \cup ToSet(t)
<1> DEFINE m == Len(s)
           n == Len(t)
           both == s \o t
<1>1. /\ s \in Seq(T) /\ m \in Nat /\ DOMAIN s = 1..m /\ \A i, j \in 1..m : s[i] = s[j] => i = j
      /\ t \in Seq(T) /\ n \in Nat /\ DOMAIN t = 1..n /\ \A i, j \in 1..n : t[i] = t[j] => i = j
  BY DEF Distinct, IsInjective
<1>2. /\ both \in Seq(T) /\ DOMAIN both = 1..(m + n)
      /\ \A i \in 1..(m + n) : both[i] = IF i <= m THEN s[i] ELSE t[i - m]
  BY <1>1
<1>3. /\ \A i \in 1..m : s[i] \in ToSet(s)
      /\ \A i \in 1..n : t[i] \in ToSet(t)
  BY <1>1 DEF ToSet
<1> HIDE DEF m, n, both
<1>4. \A i \in 1..(m + n) : \/ i \in 1..m /\ i <= m
                            \/ i - m \in 1..n /\ ~(i <= m)
  BY <1>1
<1>5. IsInjective(both)
  <2> SUFFICES ASSUME NEW i \in 1..(m + n), NEW j \in 1..(m + n), both[i] = both[j]
               PROVE  i = j
    BY <1>2 DEF IsInjective
  <2>1. CASE i \in 1..m /\ i <= m
    BY <1>1, <1>2, <1>3, <1>4, <2>1
  <2>2. CASE i - m \in 1..n /\ ~(i <= m)
    <3>1. j - m \in 1..n /\ t[i - m] = t[j - m]
      BY <1>2, <1>3, <1>4, <2>2
    <3>2. i - m = j - m /\ i \in Int /\ j \in Int
      BY <1>1, <2>2, <3>1
    <3> QED BY <1>1, <3>2
  <2> QED BY <1>4, <2>1, <2>2
<1>6. ToSet(both) = ToSet(s) \cup ToSet(t)
  <2>1. \A k \in 1..m : k \in 1..(m + n) /\ k <= m
    BY <1>1
  <2>2. \A k \in 1..n : m + k \in 1..(m + n) /\ ~(m + k <= m) /\ (m + k) - m = k
    BY <1>1
  <2>3. \A k \in 1..m : both[k] = s[k]
    BY <1>2, <2>1
  <2>4. \A k \in 1..n : both[m + k] = t[k]
    BY <1>2, <2>2
  <2>5. \A i \in 1..(m + n) : both[i] \in ToSet(s) \cup ToSet(t)
    BY <1>2, <1>3, <1>4
  <2>6. /\ ToSet(both) = {both[k] : k \in 1..(m + n)}
        /\ ToSet(s) = {s[k] : k \in 1..m} /\ ToSet(t) = {t[k] : k \in 1..n}
    BY <1>1, <1>2 DEF ToSet
  <2>7. \A x \in ToSet(s) \cup ToSet(t) : x \in ToSet(both)
    <3>1. \A k \in 1..(m + n) : both[k] \in ToSet(both)
      BY <2>6
    <3>2. \A k \in 1..m : s[k] \in ToSet(both)
      BY <2>1, <2>3, <3>1
    <3>3. \A k \in 1..n : t[k] \in ToSet(both)
      BY <2>2, <2>4, <3>1
    <3> QED BY <2>6, <3>2, <3>3
  <2>8. \A x \in ToSet(both) : x \in ToSet(s) \cup ToSet(t)
    BY <2>5, <2>6
  <2> QED BY <2>7, <2>8
<1> QED BY <1>2, <1>5, <1>6 DEF Distinct, both

\* A round takes a step that waits for nothing, and queues those that waited for it alone.
LEMMA RoundSorts ==
  ASSUME BuildersInv, NEW s \in Sortings
  PROVE  /\ Round(s) \in Sortings
         /\ Sorting(s) => Sorting(Round(s))
         /\ s.queue # <<>> => Len(Round(s).done) = Len(s.done) + 1
<1>1. CASE s.queue = <<>>
  BY <1>1 DEF Round
<1>2. CASE s.queue # <<>>
  <2> DEFINE h == Head(s.queue)
             next == Successors(h)
             left == [n \in DOMAIN s.degrees |->
                        IF n \in ToSet(next) THEN s.degrees[n] - 1 ELSE s.degrees[n]]
             new == Freed(next, left)
             r == Round(s)
             rest == Tail(s.queue)
             done == Append(s.done, h)
  <2>1. /\ s.queue \in Seq(Ns) /\ s.degrees \in [Ns -> Int] /\ s.done \in Seq(Ns)
        /\ h \in Ns /\ rest \in Seq(Ns)
    BY <1>2 DEF Sortings
  <2>2. Distinct(next, Ns) /\ ToSet(next) = {m \in Ns : <<h, m>> \in Dependencies}
    BY <2>1, SuccessorsAre
  <2>3. /\ left \in [Ns -> Int]
        /\ \A n \in Ns : left[n] = IF n \in ToSet(next) THEN s.degrees[n] - 1 ELSE s.degrees[n]
    BY <2>1
  <2>4. r = [queue |-> rest \o new, degrees |-> left, done |-> done]
    BY <1>2 DEF Round
  <2> HIDE DEF h, next, left, r, rest
  <2>5. Distinct(new, Ns) /\ ToSet(new) = {n \in ToSet(next) : left[n] = 0}
    BY <2>2, FreedAre
  <2> HIDE DEF new
  <2>6. new \in Seq(Ns) /\ rest \o new \in Seq(Ns) /\ done \in Seq(Ns) /\ Len(done) = Len(s.done) + 1
    BY <2>1, <2>5 DEF Distinct
  <2>7. r \in Sortings /\ Len(r.done) = Len(s.done) + 1
    BY <2>3, <2>4, <2>6 DEF Sortings
  <2>8. ASSUME Sorting(s) PROVE Sorting(r)
    <3>1. /\ Distinct(s.queue, Ns) /\ Distinct(s.done, Ns)
          /\ ToSet(s.queue) \cap ToSet(s.done) = {}
          /\ \A n \in Ns : s.degrees[n] = Cardinality(Waits(n, s.done))
          /\ \A n \in Ns : n \in ToSet(s.queue) \cup ToSet(s.done) <=> Waits(n, s.done) = {}
          /\ \A d \in Dependencies, k \in DOMAIN s.done :
               s.done[k] = d[2] => \E i \in 1..(k - 1) : s.done[i] = d[1]
      BY <2>8 DEF Sorting
    <3>2. /\ Distinct(rest, Ns) /\ ToSet(s.queue) = {h} \cup ToSet(rest) /\ h \notin ToSet(rest)
      BY <1>2, <3>1, FirstAndRest DEF h, rest
    <3>3. Distinct(done, Ns) /\ ToSet(done) = ToSet(s.done) \cup {h} /\ h \notin ToSet(s.done)
      <4>1. h \notin ToSet(s.done)
        BY <3>1, <3>2
      <4> QED BY <2>1, <3>1, <4>1, AppendedOnce
    <3>4. ASSUME NEW n \in Ns
          PROVE  /\ Waits(n, done) = Waits(n, s.done) \ {<<h, n>>}
                 /\ n \in ToSet(next) <=> <<h, n>> \in Waits(n, s.done)
                 /\ left[n] = Cardinality(Waits(n, done))
      <4>1. Waits(n, done) = Waits(n, s.done) \ {<<h, n>>}
        <5>1. \A d \in Dependencies : d[2] = n /\ d[1] = h <=> d = <<h, n>>
          BY DependenciesAreKnown
        <5> QED BY <3>3, <5>1 DEF Waits
      <4>2. n \in ToSet(next) <=> <<h, n>> \in Waits(n, s.done)
        BY <2>2, <3>3 DEF Waits
      <4>3. Cardinality(Waits(n, done)) = IF <<h, n>> \in Waits(n, s.done)
                                            THEN Cardinality(Waits(n, s.done)) - 1
                                            ELSE Cardinality(Waits(n, s.done))
        BY <4>1, WaitsAreCounted, FS_RemoveElement
      <4> QED BY <2>3, <3>1, <4>1, <4>2, <4>3
    <3>5. \A n \in ToSet(new) : n \notin ToSet(s.queue) /\ n \notin ToSet(s.done)
      <4> SUFFICES ASSUME NEW n \in ToSet(new) PROVE n \notin ToSet(s.queue) \cup ToSet(s.done)
        OBVIOUS
      <4>1. n \in ToSet(next) /\ n \in Ns
        BY <2>2, <2>5
      <4>2. Waits(n, s.done) # {}
        BY <3>4, <4>1
      <4> QED BY <3>1, <4>1, <4>2
    <3>6. Distinct(rest \o new, Ns) /\ ToSet(rest \o new) = ToSet(rest) \cup ToSet(new)
      <4>1. ToSet(rest) \cap ToSet(new) = {}
        BY <3>2, <3>5
      <4> QED BY <2>5, <3>2, <4>1, PutTogether
    <3>7. ToSet(rest \o new) \cap ToSet(done) = {}
      BY <3>1, <3>2, <3>3, <3>5, <3>6
    <3>8. left = [n \in Ns |-> Cardinality(Waits(n, done))]
      BY <2>3, <3>4
    <3>9. ASSUME NEW n \in Ns
          PROVE  n \in ToSet(rest \o new) \cup ToSet(done) <=> Waits(n, done) = {}
      <4>1. n \in ToSet(rest \o new) \cup ToSet(done) <=>
              n \in ToSet(s.queue) \cup ToSet(s.done) \/ n \in ToSet(new)
        BY <3>2, <3>3, <3>6
      <4>2. n \in ToSet(new) <=> n \in ToSet(next) /\ Waits(n, done) = {}
        BY <2>5, <3>4, WaitsAreCounted
      <4>3. n \notin ToSet(next) => Waits(n, done) = Waits(n, s.done)
        BY <3>4
      <4>4. Waits(n, s.done) = {} => Waits(n, done) = {}
        BY <3>4
      <4> QED BY <3>1, <4>1, <4>2, <4>3, <4>4
    <3>10. ASSUME NEW d \in Dependencies, NEW k \in DOMAIN done, done[k] = d[2]
           PROVE  \E i \in 1..(k - 1) : done[i] = d[1]
      <4> DEFINE c == Len(s.done)
      <4>1. /\ c \in Nat /\ DOMAIN s.done = 1..c /\ DOMAIN done = 1..(c + 1)
            /\ \A i \in 1..c : done[i] = s.done[i]
            /\ done[c + 1] = h
        BY <2>1
      <4> HIDE DEF c, done
      <4>2. CASE k \in 1..c
        <5>1. PICK i \in 1..(k - 1) : s.done[i] = d[1]
          BY <3>1, <3>10, <4>1, <4>2
        <5>2. i \in 1..c
          BY <4>1, <4>2
        <5> QED BY <4>1, <5>1, <5>2
      <4>3. CASE k = c + 1
        <5>1. d[2] = h /\ Waits(h, s.done) = {}
          BY <2>1, <3>1, <3>2, <3>10, <4>1, <4>3
        <5>2. d[1] \in ToSet(s.done)
          BY <5>1 DEF Waits
        <5>3. PICK i \in 1..c : s.done[i] = d[1]
          BY <4>1, <5>2 DEF ToSet
        <5> QED BY <4>1, <4>3, <5>3
      <4>4. k \in 1..c \/ k = c + 1
        BY <4>1
      <4> QED BY <4>2, <4>3, <4>4
    <3> HIDE DEF done
    <3> QED BY <2>4, <3>3, <3>6, <3>7, <3>8, <3>9, <3>10 DEF Sorting
  <2> QED BY <2>7, <2>8 DEF r
<1> QED BY <1>1, <1>2

\* The rounds of Sorted are enough: nothing is queued after the last one.
LEMMA SortedIsSorting ==
  ASSUME BuildersInv
  PROVE  Sorting(Sorted) /\ Sorted.queue = <<>>
<1> DEFINE N == Len(Names)
           V == Sortings
           With(s, k) == Round(s)
           g == [x \in (1..N) \X V |-> With(x[2], x[1])]
           D == DOMAIN Names
           adds(it) == it = [S \in SUBSET D |->
             IF S = {} THEN Start ELSE With(it[S \ {Max(S)}], Max(S))]
           fold == CHOOSE it : adds(it)
<1>1. /\ N \in Nat /\ D = 1..N /\ IsFiniteSet(Ns) /\ Cardinality(Ns) = N
  BY DependenciesAreKnown DEF Distinct
<1>2. Sorted = fold[D]
  BY DEF Sorted, FoldLeft, MapThenFoldSet
<1>3. Start \in V /\ Sorting(Start)
  <2>1. Sorting(Start) /\ Start = [queue |-> Start.queue, degrees |-> Start.degrees, done |-> Start.done]
    BY StartIsSorting DEF Start
  <2>2. \A n \in Ns : Cardinality(Waits(n, Start.done)) \in Int
    BY WaitsAreCounted
  <2>3. Start.degrees \in [Ns -> Int]
    BY <2>1, <2>2 DEF Sorting
  <2> QED BY <2>1, <2>3 DEF Sorting, Distinct, Sortings
<1>4. \A s \in V : /\ Round(s) \in V /\ (Sorting(s) => Sorting(Round(s)))
                   /\ s.queue # <<>> => Len(Round(s).done) = Len(s.done) + 1
  BY RoundSorts
<1>5. \A s \in V, k \in 1..N : With(s, k) \in V
  BY <1>4
<1>6. \A s, k : With(s, k) = Round(s)
  OBVIOUS
<1> HIDE DEF N, V, With
<1>7. g \in [(1..N) \X V -> V] /\ \A k \in 1..N, s \in V : g[<<k, s>>] = With(s, k)
  BY <1>5
<1> HIDE DEF g
<1>8. PICK step \in [SUBSET (1..N) -> V] : Folds(step, Start, g, N)
  BY <1>1, <1>3, <1>7, FoldExists
<1>9. ASSUME NEW S \in SUBSET (1..N), S # {} PROVE Max(S) \in 1..N
  <2>1. S \subseteq 0..N
    OBVIOUS
  <2>2. Max(S) \in S
    BY <1>1, <1>9, <2>1, GreatestExists
  <2> QED BY <2>2
<1>10. adds(step)
  <2>1. ASSUME NEW S \in SUBSET (1..N)
        PROVE  step[S] = IF S = {} THEN Start ELSE With(step[S \ {Max(S)}], Max(S))
    <3>1. S \ {Max(S)} \in SUBSET (1..N)
      OBVIOUS
    <3>2. step[S] = IF S = {} THEN Start ELSE g[<<Max(S), step[S \ {Max(S)}]>>]
      BY <1>8 DEF Folds
    <3>3. step[S \ {Max(S)}] \in V
      BY <1>8, <3>1
    <3> HIDE DEF Max
    <3> QED BY <1>7, <1>9, <3>2, <3>3
  <2> QED BY <1>1, <1>8, <2>1
<1> HIDE DEF adds
<1>11. adds(fold)
  BY <1>10
<1> HIDE DEF fold
<1>12. Steps(fold, Start, g, N, V)
  <2>1. fold[{}] = Start
    BY <1>11 DEF adds
  <2>2. ASSUME NEW S \in (SUBSET (1..N)) \ {{}}, fold[S \ {Max(S)}] \in V
        PROVE  fold[S] = g[<<Max(S), fold[S \ {Max(S)}]>>]
    <3>1. fold[S] = With(fold[S \ {Max(S)}], Max(S))
      BY <1>1, <1>11 DEF adds
    <3> QED BY <1>7, <1>9, <2>2, <3>1
  <2> QED BY <2>1, <2>2 DEF Steps
<1>13. /\ fold[1..0] = Start /\ \A n \in 0..N : fold[1..n] \in V
       /\ \A n \in 1..N : fold[1..n] = g[<<n, fold[1..(n - 1)]>>]
  <2>1. N \in Nat /\ Start \in V /\ g \in [(1..N) \X V -> V]
    BY <1>1, <1>3, <1>7
  <2>2. InTurn(fold, Start, g, N, V)
    BY <1>12, <2>1, FoldsInTurn
  <2> QED BY <2>2 DEF InTurn
<1> DEFINE h == [n \in 0..N |-> fold[1..n]]
<1>14. /\ h[0] = Start /\ h[N] = Sorted /\ \A n \in 0..N : h[n] \in V
       /\ \A n \in 0..N : n < N => n + 1 \in 1..N /\ h[n + 1] = Round(h[n])
  <2>1. h[0] = Start /\ h[N] = fold[D] /\ \A n \in 0..N : h[n] \in V /\ h[n] = fold[1..n]
    BY <1>1, <1>13
  <2>2. ASSUME NEW n \in 0..N, n < N PROVE n + 1 \in 1..N /\ h[n + 1] = Round(h[n])
    <3>1. n + 1 \in 1..N /\ n + 1 \in 0..N /\ (n + 1) - 1 = n
      BY <1>1, <2>2
    <3>2. h[n + 1] = g[<<n + 1, h[n]>>]
      BY <1>13, <2>1, <3>1
    <3> QED BY <1>6, <1>7, <2>1, <3>1, <3>2
  <2> QED BY <1>2, <2>1, <2>2
<1> HIDE DEF h
<1> DEFINE G == {n \in 0..N : Sorting(h[n]) /\ (h[n].queue = <<>> \/ Len(h[n].done) = n)}
<1>15. \A n \in 0..N : n \in G
  <2>1. 0 \in G
    <3>1. Len(Start.done) = 0
      BY DEF Start
    <3> QED BY <1>1, <1>3, <1>14, <3>1
  <2>2. ASSUME NEW n \in 0..N, n \in G, n < N PROVE n + 1 \in G
    <3>1. /\ n + 1 \in 0..N /\ h[n] \in V /\ h[n + 1] = Round(h[n])
          /\ Sorting(h[n]) /\ (h[n].queue = <<>> \/ Len(h[n].done) = n)
      BY <1>1, <1>14, <2>2
    <3>2. Sorting(h[n + 1])
      BY <1>4, <3>1
    <3>3. h[n + 1].queue = <<>> \/ Len(h[n + 1].done) = n + 1
      <4>1. CASE h[n].queue = <<>>
        BY <3>1, <4>1 DEF Round
      <4>2. CASE h[n].queue # <<>>
        BY <1>4, <3>1, <4>2
      <4> QED BY <4>1, <4>2
    <3> QED BY <3>1, <3>2, <3>3
  <2> HIDE DEF G
  <2> QED BY <1>1, <2>1, <2>2, UpTo
<1>16. Sorting(Sorted) /\ (Sorted.queue = <<>> \/ Len(Sorted.done) = N)
  <2>1. N \in 0..N
    BY <1>1
  <2> QED BY <1>14, <1>15, <2>1
<1>17. ASSUME Sorted.queue # <<>>, Len(Sorted.done) = N PROVE FALSE
  <2>1. /\ Distinct(Sorted.done, Ns) /\ Distinct(Sorted.queue, Ns)
        /\ ToSet(Sorted.queue) \cap ToSet(Sorted.done) = {}
    BY <1>16 DEF Sorting
  <2>2. ToSet(Sorted.done) \in SUBSET Ns /\ Cardinality(ToSet(Sorted.done)) = Cardinality(Ns)
    BY <1>1, <1>17, <2>1, DistinctLength
  <2>3. ToSet(Sorted.done) = Ns
    BY <1>1, <2>2, FS_Subset
  <2>4. Head(Sorted.queue) \in Ns /\ Head(Sorted.queue) \in ToSet(Sorted.queue)
    <3>1. ToSet(Sorted.queue) = {Head(Sorted.queue)} \cup ToSet(Tail(Sorted.queue))
      BY <1>17, <2>1, FirstAndRest
    <3>2. Head(Sorted.queue) \in Ns
      BY <1>17, <2>1, FirstAndRest
    <3> QED BY <3>1, <3>2
  <2> QED BY <2>1, <2>3, <2>4
<1> QED BY <1>16, <1>17

\* The steps that are left wait for one another, and no step that waits like that is done.
LEMMA ScheduleIsSorted ==
  ASSUME BuildersInv
  PROVE  /\ BuildSchedule = Refused <=> Deadlocked \/ Len(Names) # Len(steps)
         /\ BuildSchedule # Refused =>
              /\ Len(BuildSchedule) = Len(Names) /\ ToSet(BuildSchedule) = ToSet(Names)
              /\ \A d \in ToSet(dependencies) :
                   Position(BuildSchedule, d[1]) < Position(BuildSchedule, d[2])
<1> DEFINE done == Sorted.done
           left == Ns \ ToSet(done)
           c == Len(done)
<1>1. /\ Distinct(done, Ns)
      /\ \A n \in Ns : n \in ToSet(done) <=> Waits(n, done) = {}
      /\ \A d \in Dependencies, k \in DOMAIN done :
           done[k] = d[2] => \E i \in 1..(k - 1) : done[i] = d[1]
  <2>1. Sorting(Sorted) /\ ToSet(Sorted.queue) = {}
    BY SortedIsSorting DEF ToSet
  <2> QED BY <2>1 DEF Sorting
<1>2. BuildSchedule = IF c # Len(steps) THEN Refused ELSE done
  BY DEF BuildSchedule
<1> HIDE DEF done, c
<1>3. /\ c \in Nat /\ DOMAIN done = 1..c /\ done \in Seq(Ns)
      /\ \A i, j \in 1..c : done[i] = done[j] => i = j
  BY <1>1 DEF Distinct, IsInjective, c
<1>4. /\ Len(Names) \in Nat /\ Len(Names) <= Len(steps) /\ Len(steps) \in Nat
      /\ IsFiniteSet(Ns) /\ Cardinality(Ns) = Len(Names) /\ Ns \subseteq StepNames
  BY NamesAreListed, DependenciesAreKnown DEF BuildersInv, Distinct
<1>5. /\ ToSet(done) \in SUBSET Ns /\ Cardinality(ToSet(done)) = c
      /\ c <= Len(Names) /\ (c = Len(Names) <=> left = {})
  <2>1. ToSet(done) \in SUBSET Ns /\ Cardinality(ToSet(done)) = c
    BY <1>1, DistinctLength DEF c
  <2>2. c <= Len(Names) /\ (Cardinality(Ns) = c => ToSet(done) = Ns)
    BY <1>4, <2>1, FS_Subset
  <2> QED BY <1>4, <2>1, <2>2
<1>6. left # {} => Deadlocked
  <2> SUFFICES ASSUME left # {} PROVE Deadlocked
    OBVIOUS
  <2>1. ASSUME NEW n \in left PROVE \E m \in left : <<m, n>> \in Dependencies
    <3>1. PICK d \in Dependencies : d[2] = n /\ d[1] \notin ToSet(done)
      BY <1>1 DEF Waits
    <3>2. d \in Ns \X Ns
      BY DependenciesAreKnown
    <3> QED BY <3>1, <3>2
  <2>2. left \in (SUBSET ToSet(Names)) \ {{}}
    BY DEF Ns
  <2> QED BY <2>1, <2>2 DEF Deadlocked, Dependencies
<1>7. Deadlocked => left # {}
  <2> SUFFICES ASSUME Deadlocked, left = {} PROVE FALSE
    OBVIOUS
  <2>1. PICK S \in (SUBSET Ns) \ {{}} : \A n \in S : \E m \in S : <<m, n>> \in Dependencies
    BY DEF Deadlocked, Ns, Dependencies
  <2> DEFINE places == {k \in 1..c : done[k] \in S}
  <2>2. places # {} /\ places \subseteq 0..c
    <3>1. PICK n \in S : n \in ToSet(done)
      BY <2>1
    <3>2. \E k \in 1..c : done[k] = n
      BY <1>3, <3>1 DEF ToSet
    <3> QED BY <1>3, <3>1, <3>2
  <2> HIDE DEF places
  <2>3. PICK k \in places : \A i \in places : k <= i
    BY <1>3, <2>2, LeastExists
  <2>4. k \in 1..c /\ done[k] \in S
    BY <2>3 DEF places
  <2>5. PICK m \in S : <<m, done[k]>> \in Dependencies
    BY <2>1, <2>4
  <2>6. PICK i \in 1..(k - 1) : done[i] = m
    BY <1>1, <1>3, <2>4, <2>5
  <2>7. i \in places /\ i < k
    BY <1>3, <2>4, <2>5, <2>6 DEF places
  <2> QED BY <1>3, <2>3, <2>4, <2>6, <2>7
<1>8. done # Refused
  <2>1. done \in Seq(StepNames)
    BY <1>3, <1>4
  <2> QED BY <2>1, SchedulingAssumption
<1>9. c # Len(steps) <=> Deadlocked \/ Len(Names) # Len(steps)
  BY <1>3, <1>4, <1>5, <1>6, <1>7
<1>10. ASSUME c = Len(steps), NEW d \in Dependencies PROVE Position(done, d[1]) < Position(done, d[2])
  <2>1. ToSet(done) = Ns /\ d[1] \in Ns /\ d[2] \in Ns
    BY <1>4, <1>5, <1>10, DependenciesAreKnown
  <2>2. ASSUME NEW n \in Ns PROVE Position(done, n) \in 1..c /\ done[Position(done, n)] = n
    <3>1. \E k \in 1..c : done[k] = n
      BY <1>3, <2>1 DEF ToSet
    <3> QED BY <1>3, <3>1 DEF Position
  <2>3. PICK i \in 1..(Position(done, d[2]) - 1) : done[i] = d[1]
    BY <1>1, <1>3, <2>1, <2>2
  <2> DEFINE p == Position(done, d[1])
             q == Position(done, d[2])
  <2>4. p \in 1..c /\ done[p] = d[1] /\ q \in 1..c /\ i \in 1..(q - 1) /\ done[i] = d[1]
    BY <2>1, <2>2, <2>3
  <2> HIDE DEF p, q
  <2>5. p = i /\ i < q
    BY <1>3, <2>4
  <2> QED BY <2>5 DEF p, q
<1>11. c = Len(steps) => Len(done) = Len(Names) /\ ToSet(done) = ToSet(Names)
  <2>1. c = Len(steps) => c = Len(Names) /\ ToSet(done) = Ns
    <3>1. c = Len(steps) => c = Len(Names)
      BY <1>3, <1>4, <1>5
    <3>2. left = {} => ToSet(done) = Ns
      BY <1>5
    <3> QED BY <1>5, <3>1, <3>2
  <2> QED BY <2>1 DEF c, Ns
<1> QED BY <1>2, <1>8, <1>9, <1>10, <1>11 DEF Dependencies

-----------------------------------------------------------------------------
(* Greedy colouring *)

Rs == ToSet(apart)
Envs == UNION {[S -> Nat] : S \in SUBSET Rs}

\* Neighbours differ, and an environment is left out only for a neighbour that has it.
Coloured(env) ==
  /\ \A m, n \in DOMAIN env : InConflict(m, n) /\ m # n => env[m] # env[n]
  /\ \A n \in DOMAIN env : \A f \in 0..(env[n] - 1) :
       \E m \in DOMAIN env \ {n} : InConflict(m, n) /\ env[m] = f

LEMMA ApartIsFinite == BuildersInv => IsFiniteSet(Rs)
BY DistinctLength DEF BuildersInv, Rs

LEMMA FunctionsWithout == ASSUME NEW T PROVE [{} -> T] = {<<>>}
<1>1. \A f \in [{} -> T] : f = <<>>
  OBVIOUS
<1>2. <<>> \in [{} -> T]
  OBVIOUS
<1> QED BY <1>1, <1>2

\* A step is placed in the least environment that none of its neighbours has.
LEMMA LeastIsFree ==
  ASSUME BuildersInv, NEW env \in Envs, NEW n
  PROVE  \E e \in Nat : /\ e \notin Taken(env, n) /\ \A f \in 0..(e - 1) : f \in Taken(env, n)
                        /\ Placed(env, n) = [m \in DOMAIN env \cup {n} |->
                                               IF m = n THEN e ELSE env[m]]
<1> DEFINE near == {x \in DOMAIN env : InConflict(n, x)}
           taken == Taken(env, n)
           c == Cardinality(taken)
           IsFree(e) == e \notin taken /\ \A f \in 0..(e - 1) : f \in taken
<1>1. DOMAIN env \in SUBSET Rs /\ \A m \in DOMAIN env : env[m] \in Nat
  BY DEF Envs
<1>2. IsFiniteSet(near)
  <2>1. near \in SUBSET Rs
    BY <1>1
  <2> QED BY <2>1, ApartIsFinite, FS_Subset
<1>3. taken = {env[m] : m \in near} /\ taken \subseteq Nat
  BY <1>1 DEF Taken
<1>4. IsFiniteSet(taken) /\ c \in Nat
  <2> DEFINE colour == [m \in near |-> env[m]]
  <2>1. colour \in Surjection(near, taken)
    <3>1. colour \in [near -> taken] /\ \A y \in taken : \E m \in near : colour[m] = y
      BY <1>3
    <3> HIDE DEF colour
    <3> QED BY <3>1 DEF Surjection
  <2> HIDE DEF colour, near, taken
  <2>2. IsFiniteSet(taken)
    BY <1>2, <2>1, FS_Surjection
  <2> QED BY <2>2, FS_CardinalityType DEF c
<1> HIDE DEF near, taken, c
<1> DEFINE all == 0..c
           open == {e \in all : e \notin taken}
<1>5. open # {}
  <2> SUFFICES ASSUME open = {} PROVE FALSE
    OBVIOUS
  <2>1. all \in SUBSET taken
    OBVIOUS
  <2>2. IsFiniteSet(all) /\ Cardinality(all) = c + 1
    <3>1. 0 \in Int /\ c \in Int
      BY <1>4
    <3>2. Cardinality(all) = IF 0 > c THEN 0 ELSE c - 0 + 1
      BY <3>1, FS_Interval
    <3> QED BY <1>4, <3>1, <3>2, FS_Interval
  <2> HIDE DEF all
  <2>3. Cardinality(all) <= c
    BY <1>4, <2>1, FS_Subset DEF c
  <2> QED BY <1>4, <2>2, <2>3
<1>6. PICK e \in open : \A f \in open : e <= f
  <2>1. open \subseteq 0..c
    OBVIOUS
  <2> HIDE DEF open
  <2> QED BY <1>4, <1>5, <2>1, LeastExists
<1>7. e \in 0..c /\ IsFree(e)
  <2>1. \A f \in 0..(e - 1) : f \in 0..c /\ f < e
    BY <1>4, <1>6
  <2> QED BY <1>4, <1>6, <2>1
<1>8. \A d \in 0..c : IsFree(d) => d = e
  <2> SUFFICES ASSUME NEW d \in 0..c, IsFree(d), d # e PROVE FALSE
    OBVIOUS
  <2>1. d \in 0..(e - 1) \/ e \in 0..(d - 1)
    BY <1>4, <1>7
  <2> QED BY <1>7, <2>1
<1>9. (CHOOSE d \in 0..c : IsFree(d)) = e
  <2> HIDE DEF IsFree
  <2> QED BY <1>7, <1>8
<1>10. Placed(env, n) = [m \in DOMAIN env \cup {n} |->
                           IF m = n THEN CHOOSE d \in 0..c : IsFree(d) ELSE env[m]]
  BY DEF Placed, taken, c
<1>11. e \in Nat
  BY <1>4, <1>7
<1> QED BY <1>7, <1>9, <1>10, <1>11 DEF taken

LEMMA PlacedIsColoured ==
  ASSUME BuildersInv, NEW env \in Envs, NEW n \in Rs
  PROVE  /\ Placed(env, n) \in Envs /\ DOMAIN Placed(env, n) = DOMAIN env \cup {n}
         /\ n \notin DOMAIN env /\ Coloured(env) => Coloured(Placed(env, n))
<1> DEFINE new == Placed(env, n)
           D == DOMAIN env
<1>1. D \in SUBSET Rs /\ \A m \in D : env[m] \in Nat
  BY DEF Envs
<1>2. PICK e \in Nat : /\ e \notin Taken(env, n) /\ \A f \in 0..(e - 1) : f \in Taken(env, n)
                       /\ new = [m \in D \cup {n} |-> IF m = n THEN e ELSE env[m]]
  BY LeastIsFree
<1> HIDE DEF new, D
<1>3. /\ DOMAIN new = D \cup {n} /\ new[n] = e
      /\ \A m \in D : m # n => new[m] = env[m]
  BY <1>2
<1>4. new \in Envs
  <2>1. new \in [D \cup {n} -> Nat] /\ D \cup {n} \in SUBSET Rs
    BY <1>1, <1>2
  <2> QED BY <2>1 DEF Envs
<1>5. ASSUME n \notin D, Coloured(env) PROVE Coloured(new)
  <2>1. /\ \A l, m \in D : InConflict(l, m) /\ l # m => env[l] # env[m]
        /\ \A m \in D : \A f \in 0..(env[m] - 1) :
             \E l \in D \ {m} : InConflict(l, m) /\ env[l] = f
    BY <1>5 DEF Coloured, D
  <2>2. \A l, m : InConflict(l, m) <=> InConflict(m, l)
    BY DEF InConflict
  <2>3. Taken(env, n) = {env[m] : m \in {x \in D : InConflict(n, x)}}
    BY DEF Taken, D
  <2>4. \A m \in D : InConflict(n, m) => env[m] # e
    BY <1>2, <2>3
  <2>5. ASSUME NEW l \in D \cup {n}, NEW m \in D \cup {n}, InConflict(l, m), l # m
        PROVE  new[l] # new[m]
    BY <1>3, <1>5, <2>1, <2>2, <2>4, <2>5
  <2>6. ASSUME NEW m \in D \cup {n}, NEW f \in 0..(new[m] - 1)
        PROVE  \E l \in (D \cup {n}) \ {m} : InConflict(l, m) /\ new[l] = f
    <3>1. CASE m = n
      <4>1. f \in Taken(env, n)
        BY <1>2, <1>3, <2>6, <3>1
      <4>2. PICK l \in D : InConflict(n, l) /\ env[l] = f
        BY <2>3, <4>1
      <4> QED BY <1>3, <1>5, <2>2, <3>1, <4>2
    <3>2. CASE m # n
      <4>1. m \in D /\ f \in 0..(env[m] - 1)
        BY <1>3, <2>6, <3>2
      <4>2. PICK l \in D \ {m} : InConflict(l, m) /\ env[l] = f
        BY <2>1, <4>1
      <4> QED BY <1>3, <1>5, <4>2
    <3> QED BY <3>1, <3>2
  <2> QED BY <1>3, <2>5, <2>6 DEF Coloured
<1> QED BY <1>3, <1>4, <1>5 DEF new, D

\* Environments places every step, and colours them.
LEMMA EnvironmentsAreColoured ==
  ASSUME BuildersInv
  PROVE  /\ Environments \in Envs /\ DOMAIN Environments = Rs
         /\ Coloured(Environments)
<1> DEFINE N == Len(apart)
           V == Envs
           With(env, k) == Placed(env, apart[k])
           g == [x \in (1..N) \X V |-> With(x[2], x[1])]
           D == DOMAIN apart
           adds(it) == it = [S \in SUBSET D |->
             IF S = {} THEN <<>> ELSE With(it[S \ {Max(S)}], Max(S))]
           fold == CHOOSE it : adds(it)
<1>1. /\ N \in Nat /\ D = 1..N /\ \A k \in 1..N : apart[k] \in Rs
      /\ \A i, j \in 1..N : apart[i] = apart[j] => i = j
  BY DEF BuildersInv, Distinct, IsInjective, Rs, ToSet
<1>2. Environments = fold[D]
  BY DEF Environments, FoldLeft, MapThenFoldSet
<1>3. <<>> \in V /\ DOMAIN <<>> = {} /\ Coloured(<<>>)
  <2>1. <<>> \in [{} -> Nat] /\ DOMAIN <<>> = {}
    BY FunctionsWithout
  <2>2. \E S \in SUBSET Rs : <<>> \in [S -> Nat]
    BY <2>1
  <2> QED BY <2>1, <2>2 DEF Envs, Coloured
<1>4. \A env \in V, n \in Rs :
        /\ Placed(env, n) \in V /\ DOMAIN Placed(env, n) = DOMAIN env \cup {n}
        /\ n \notin DOMAIN env /\ Coloured(env) => Coloured(Placed(env, n))
  BY PlacedIsColoured
<1>5. \A env \in V, k \in 1..N : With(env, k) \in V
  BY <1>1, <1>4
<1>6. \A env, k : With(env, k) = Placed(env, apart[k])
  OBVIOUS
<1> HIDE DEF N, V, With
<1>7. g \in [(1..N) \X V -> V] /\ \A k \in 1..N, env \in V : g[<<k, env>>] = With(env, k)
  BY <1>5
<1> HIDE DEF g
<1>8. PICK step \in [SUBSET (1..N) -> V] : Folds(step, <<>>, g, N)
  BY <1>1, <1>3, <1>7, FoldExists
<1>9. ASSUME NEW S \in SUBSET (1..N), S # {} PROVE Max(S) \in 1..N
  <2>1. S \subseteq 0..N
    OBVIOUS
  <2>2. Max(S) \in S
    BY <1>1, <1>9, <2>1, GreatestExists
  <2> QED BY <2>2
<1>10. adds(step)
  <2>1. ASSUME NEW S \in SUBSET (1..N)
        PROVE  step[S] = IF S = {} THEN <<>> ELSE With(step[S \ {Max(S)}], Max(S))
    <3>1. S \ {Max(S)} \in SUBSET (1..N)
      OBVIOUS
    <3>2. step[S] = IF S = {} THEN <<>> ELSE g[<<Max(S), step[S \ {Max(S)}]>>]
      BY <1>8 DEF Folds
    <3>3. step[S \ {Max(S)}] \in V
      BY <1>8, <3>1
    <3> HIDE DEF Max
    <3> QED BY <1>7, <1>9, <3>2, <3>3
  <2> QED BY <1>1, <1>8, <2>1
<1> HIDE DEF adds
<1>11. adds(fold)
  BY <1>10
<1> HIDE DEF fold
<1>12. Steps(fold, <<>>, g, N, V)
  <2>1. fold[{}] = <<>>
    BY <1>11 DEF adds
  <2>2. ASSUME NEW S \in (SUBSET (1..N)) \ {{}}, fold[S \ {Max(S)}] \in V
        PROVE  fold[S] = g[<<Max(S), fold[S \ {Max(S)}]>>]
    <3>1. fold[S] = With(fold[S \ {Max(S)}], Max(S))
      BY <1>1, <1>11 DEF adds
    <3> QED BY <1>7, <1>9, <2>2, <3>1
  <2> QED BY <2>1, <2>2 DEF Steps
<1>13. /\ fold[1..0] = <<>> /\ \A n \in 0..N : fold[1..n] \in V
       /\ \A n \in 1..N : fold[1..n] = g[<<n, fold[1..(n - 1)]>>]
  <2>1. N \in Nat /\ <<>> \in V /\ g \in [(1..N) \X V -> V]
    BY <1>1, <1>3, <1>7
  <2>2. InTurn(fold, <<>>, g, N, V)
    BY <1>12, <2>1, FoldsInTurn
  <2> QED BY <2>2 DEF InTurn
<1> DEFINE h == [n \in 0..N |-> fold[1..n]]
<1>14. /\ h[0] = <<>> /\ h[N] = Environments /\ \A n \in 0..N : h[n] \in V
       /\ \A n \in 0..N : n < N => n + 1 \in 1..N /\ h[n + 1] = Placed(h[n], apart[n + 1])
  <2>1. h[0] = <<>> /\ h[N] = fold[D] /\ \A n \in 0..N : h[n] \in V /\ h[n] = fold[1..n]
    BY <1>1, <1>13
  <2>2. ASSUME NEW n \in 0..N, n < N
        PROVE  n + 1 \in 1..N /\ h[n + 1] = Placed(h[n], apart[n + 1])
    <3>1. n + 1 \in 1..N /\ n + 1 \in 0..N /\ (n + 1) - 1 = n
      BY <1>1, <2>2
    <3>2. h[n + 1] = g[<<n + 1, h[n]>>]
      BY <1>13, <2>1, <3>1
    <3> QED BY <1>6, <1>7, <2>1, <3>1, <3>2
  <2> QED BY <1>2, <2>1, <2>2
<1> HIDE DEF h
<1> DEFINE Upto(n) == {apart[k] : k \in 1..n}
           G == {n \in 0..N : Coloured(h[n]) /\ DOMAIN h[n] = Upto(n)}
<1>15. \A n \in 0..N : n \in G
  <2>1. 0 \in G
    <3>1. Upto(0) = {} /\ 0 \in 0..N
      BY <1>1
    <3> QED BY <1>3, <1>14, <3>1
  <2>2. ASSUME NEW n \in 0..N, n \in G, n < N PROVE n + 1 \in G
    <3> DEFINE x == apart[n + 1]
    <3>1. /\ n + 1 \in 0..N /\ h[n + 1] = Placed(h[n], x) /\ x \in Rs /\ h[n] \in V
          /\ Coloured(h[n]) /\ DOMAIN h[n] = Upto(n)
      BY <1>1, <1>14, <2>2
    <3>2. Upto(n + 1) = Upto(n) \cup {x}
      <4>1. 1..(n + 1) = (1..n) \cup {n + 1}
        BY <1>1
      <4> QED BY <4>1
    <3>3. x \notin Upto(n)
      <4> SUFFICES ASSUME NEW k \in 1..n, apart[k] = apart[n + 1] PROVE FALSE
        OBVIOUS
      <4>1. k \in 1..N /\ n + 1 \in 1..N /\ k # n + 1
        BY <1>1, <2>2
      <4> QED BY <1>1, <4>1
    <3> HIDE DEF Upto, x
    <3>4. DOMAIN h[n + 1] = DOMAIN h[n] \cup {x} /\ (x \notin DOMAIN h[n] => Coloured(h[n + 1]))
      BY <1>4, <3>1
    <3> QED BY <3>1, <3>2, <3>3, <3>4
  <2> HIDE DEF G
  <2> QED BY <1>1, <2>1, <2>2, UpTo
<1>16. Coloured(Environments) /\ DOMAIN Environments = Upto(N) /\ Environments \in V
  <2>1. N \in 0..N
    BY <1>1
  <2> QED BY <1>14, <1>15, <2>1
<1>17. Upto(N) = Rs
  BY <1>1 DEF Rs, ToSet
<1> QED BY <1>16, <1>17 DEF V

\* A coloured step has neighbours in all environments before its own.
LEMMA NeighboursFillIn ==
  ASSUME BuildersInv, NEW env \in Envs, Coloured(env), NEW n \in DOMAIN env
  PROVE  /\ env[n] \in Nat
         /\ Cardinality({m \in DOMAIN env \ {n} : InConflict(m, n)}) \in env[n]..Cardinality(Rs)
<1> DEFINE near == {m \in DOMAIN env \ {n} : InConflict(m, n)}
           c == env[n]
           before == 0..(c - 1)
           T == {m \in near : env[m] \in before}
           colour == [m \in T |-> env[m]]
<1>1. DOMAIN env \in SUBSET Rs /\ c \in Nat /\ IsFiniteSet(Rs)
  BY ApartIsFinite DEF Envs
<1>2. near \in SUBSET Rs /\ T \in SUBSET near
  BY <1>1
<1>3. \A f \in before : \E m \in T : env[m] = f
  BY DEF Coloured
<1>4. IsFiniteSet(before) /\ Cardinality(before) = c
  <2>1. 0 \in Int /\ c - 1 \in Int /\ (0 > c - 1 => c = 0) /\ (c - 1) - 0 + 1 = c
    BY <1>1
  <2> HIDE DEF c
  <2> QED BY <2>1, FS_Interval
<1>5. colour \in Surjection(T, before)
  <2>1. colour \in [T -> before] /\ \A f \in before : \E m \in T : colour[m] = f
    BY <1>3
  <2> HIDE DEF colour, T, before
  <2> QED BY <2>1 DEF Surjection
<1> HIDE DEF colour, T, before, near, c
<1>6. /\ IsFiniteSet(near) /\ Cardinality(near) <= Cardinality(Rs)
      /\ IsFiniteSet(T) /\ Cardinality(T) <= Cardinality(near)
  BY <1>1, <1>2, FS_Subset
<1>7. c <= Cardinality(T)
  BY <1>4, <1>5, <1>6, FS_Surjection
<1>8. Cardinality(T) \in Nat /\ Cardinality(near) \in Nat /\ Cardinality(Rs) \in Nat
  BY <1>1, <1>6, FS_CardinalityType
<1>9. Cardinality(near) \in c..Cardinality(Rs)
  BY <1>1, <1>6, <1>7, <1>8
<1> QED BY <1>1, <1>9 DEF near, c

LEMMA EnvironmentsAreEnough ==
  ASSUME BuildersInv, NEW env, env = Environments
  PROVE  /\ \A m, n \in DOMAIN env : InConflict(m, n) /\ m # n => ~CanRunConcurrently(env, m, n)
         /\ {env[n] : n \in DOMAIN env} = 0 .. EnvironmentCount(env) - 1
         /\ env # <<>> => \E n \in DOMAIN env :
              EnvironmentCount(env) <= Cardinality({m \in DOMAIN env \ {n} : InConflict(m, n)}) + 1
<1> DEFINE D == DOMAIN env
           used == {env[n] : n \in D}
           Degree(n) == Cardinality({m \in D \ {n} : InConflict(m, n)})
           most == Cardinality(Rs)
<1>1. env \in Envs /\ Coloured(env)
  BY EnvironmentsAreColoured
<1>2. \A n \in D : env[n] \in Nat /\ Degree(n) \in env[n]..most
  BY <1>1, NeighboursFillIn
<1>3. most \in Nat
  BY ApartIsFinite, FS_CardinalityType
<1>4. \A m, n \in D : InConflict(m, n) /\ m # n => ~CanRunConcurrently(env, m, n)
  BY <1>1 DEF Coloured, CanRunConcurrently
<1>5. \A n \in D : \A f \in 0..(env[n] - 1) : f \in used
  BY <1>1 DEF Coloured
<1>6. CASE env = <<>>
  <2>1. D = {} /\ EnvironmentCount(env) = 0
    BY <1>6 DEF EnvironmentCount
  <2>2. used = {} /\ 0 .. EnvironmentCount(env) - 1 = {}
    BY <2>1
  <2> QED BY <1>4, <1>6, <2>2
<1>7. CASE env # <<>>
  <2>1. D # {}
    <3> SUFFICES ASSUME D = {} PROVE FALSE
      OBVIOUS
    <3>1. env \in [{} -> Nat]
      BY <1>1 DEF Envs
    <3> QED BY <1>7, <3>1, FunctionsWithout
  <2>2. EnvironmentCount(env) = Max(used) + 1
    BY <1>7 DEF EnvironmentCount
  <2> HIDE DEF Degree, most
  <2>3. used \subseteq 0..most /\ used # {}
    BY <1>2, <1>3, <2>1
  <2>4. Max(used) \in used /\ \A c \in used : c <= Max(used)
    <3> HIDE DEF used
    <3> QED BY <1>3, <2>3, GreatestExists
  <2>5. PICK n \in D : env[n] = Max(used)
    BY <2>4
  <2>6. used = 0..Max(used)
    <3>1. Max(used) \in Nat /\ \A f \in 0..(Max(used) - 1) : f \in used
      BY <1>2, <1>5, <2>5
    <3>2. used \subseteq Nat
      BY <1>2
    <3> HIDE DEF used
    <3> DEFINE m == Max(used)
    <3>3. /\ m \in Nat /\ m \in used /\ \A f \in 0..(m - 1) : f \in used
          /\ \A c \in used : c <= m
      BY <2>4, <3>1
    <3> HIDE DEF m
    <3>4. \A f \in 0..m : f \in used
      BY <3>3
    <3>5. \A f \in used : f \in 0..m
      BY <3>2, <3>3
    <3> QED BY <3>4, <3>5 DEF m
  <2>7. EnvironmentCount(env) <= Degree(n) + 1 /\ EnvironmentCount(env) - 1 = Max(used)
    <3>1. Max(used) \in Nat /\ Degree(n) \in Max(used)..most
      BY <1>2, <2>5
    <3> HIDE DEF used
    <3> QED BY <1>3, <2>2, <3>1
  <2>8. EnvironmentCount(env) <= Cardinality({m \in DOMAIN env \ {n} : InConflict(m, n)}) + 1
    BY <2>7 DEF Degree
  <2> QED BY <1>4, <2>5, <2>6, <2>7, <2>8
<1> QED BY <1>6, <1>7

-----------------------------------------------------------------------------

\* Every process is sorted or refused as SchedulesAreSound says, and conflicting
\* steps are kept apart, whatever was added in whichever order
\* (ProcessBuilder.build, ConcurrencyBuilder.build).
THEOREM SchedulesStaySound == GSpec => []SchedulesAreSound
<1>1. GSpec => []BuildersInv
  BY BuildersStart, BuildersStep, PTL DEF GSpec
<1>2. BuildersInv => SchedulesAreSound
  BY ScheduleIsSorted, EnvironmentsAreEnough DEF SchedulesAreSound
<1> QED BY <1>1, <1>2, PTL

-----------------------------------------------------------------------------
(* The graphs of a batch *)

\* The greatest of some places is one of them.
LEMMA LastPlace ==
  ASSUME NEW N \in Nat, NEW S \in SUBSET (1..N), S # {}
  PROVE  Max(S) \in 1..N
<1>1. S \subseteq 0..N
  OBVIOUS
<1>2. Max(S) \in S
  BY <1>1, GreatestExists
<1> QED BY <1>2

Edges(edges) == ToSet(edges)
Ends(edges) == {e.from : e \in ToSet(edges)} \cup {e.to : e \in ToSet(edges)}
Nodes(edges) == ToSet(NodesInOrder(edges))

\* NodesInOrder has the ends of every edge once.
LEMMA NodesAreListed ==
  ASSUME NEW T, NEW edges \in Seq(T)
  PROVE  /\ Nodes(edges) = Ends(edges) /\ Distinct(NodesInOrder(edges), Nodes(edges))
         /\ IsFiniteSet(Nodes(edges)) /\ Cardinality(Nodes(edges)) = Len(NodesInOrder(edges))
         /\ Len(NodesInOrder(edges)) \in Nat
<1> DEFINE N == Len(edges)
           X == Ends(edges)
           V == Seq(X)
           With(v, k) == Including(Including(v, edges[k].from), edges[k].to)
           base == <<>>
           g == [x \in (1..N) \X V |-> With(x[2], x[1])]
           D == DOMAIN edges
           adds(it) == it = [S \in SUBSET D |->
             IF S = {} THEN base ELSE With(it[S \ {Max(S)}], Max(S))]
           fold == CHOOSE it : adds(it)
<1>1. N \in Nat /\ D = 1..N /\ \A k \in 1..N : edges[k].from \in X /\ edges[k].to \in X
  BY DEF Ends, ToSet
<1>2. NodesInOrder(edges) = fold[D]
  BY DEF NodesInOrder, FoldLeft, MapThenFoldSet
<1>3. base \in V /\ \A v \in V, k \in 1..N : With(v, k) \in V
  BY <1>1 DEF Including
<1> DEFINE from(k) == edges[k].from
           to(k) == edges[k].to
<1>4. \A v, k : With(v, k) = Including(Including(v, from(k)), to(k))
  OBVIOUS
<1>5. base = <<>> /\ \A k \in 1..N : from(k) \in X /\ to(k) \in X
  BY <1>1
<1>6. X = {from(k) : k \in 1..N} \cup {to(k) : k \in 1..N}
  <2>1. ToSet(edges) = {edges[k] : k \in 1..N}
    BY <1>1 DEF ToSet
  <2> HIDE DEF D
  <2> QED BY <2>1 DEF Ends
<1> HIDE DEF X, from, to
<1> HIDE DEF N, V, With, base
<1>7. g \in [(1..N) \X V -> V] /\ \A k \in 1..N, v \in V : g[<<k, v>>] = With(v, k)
  BY <1>3
<1> HIDE DEF g
<1>8. PICK step \in [SUBSET (1..N) -> V] : Folds(step, base, g, N)
  BY <1>1, <1>3, <1>7, FoldExists
<1>9. adds(step)
  <2>1. ASSUME NEW S \in SUBSET (1..N)
        PROVE  step[S] = IF S = {} THEN base ELSE With(step[S \ {Max(S)}], Max(S))
    <3>1. S \ {Max(S)} \in SUBSET (1..N)
      OBVIOUS
    <3>2. step[S] = IF S = {} THEN base ELSE g[<<Max(S), step[S \ {Max(S)}]>>]
      BY <1>8 DEF Folds
    <3>3. step[S \ {Max(S)}] \in V
      BY <1>8, <3>1
    <3>4. S # {} => Max(S) \in 1..N
      BY <1>1, LastPlace
    <3> HIDE DEF Max
    <3> QED BY <1>7, <3>2, <3>3, <3>4
  <2> QED BY <1>1, <1>8, <2>1
<1> HIDE DEF adds
<1>10. adds(fold)
  BY <1>9
<1> HIDE DEF fold
<1>11. Steps(fold, base, g, N, V)
  <2>1. fold[{}] = base
    BY <1>10 DEF adds
  <2>2. ASSUME NEW S \in (SUBSET (1..N)) \ {{}}, fold[S \ {Max(S)}] \in V
        PROVE  fold[S] = g[<<Max(S), fold[S \ {Max(S)}]>>]
    <3>1. fold[S] = With(fold[S \ {Max(S)}], Max(S))
      BY <1>1, <1>10 DEF adds
    <3>2. Max(S) \in 1..N
      BY <1>1, LastPlace
    <3> QED BY <1>7, <2>2, <3>1, <3>2
  <2> QED BY <2>1, <2>2 DEF Steps
<1>12. /\ fold[1..0] = base /\ \A n \in 0..N : fold[1..n] \in V
      /\ \A n \in 1..N : fold[1..n] = g[<<n, fold[1..(n - 1)]>>]
  <2>1. N \in Nat /\ base \in V /\ g \in [(1..N) \X V -> V]
    BY <1>1, <1>3, <1>7
  <2>2. InTurn(fold, base, g, N, V)
    BY <1>11, <2>1, FoldsInTurn
  <2> QED BY <2>2 DEF InTurn
<1> DEFINE h == [n \in 0..N |-> fold[1..n]]
<1>13. /\ h[0] = base /\ h[N] = NodesInOrder(edges) /\ \A n \in 0..N : h[n] \in V
       /\ \A n \in 0..N : n < N => n + 1 \in 1..N /\ h[n + 1] = With(h[n], n + 1)
  <2>1. h[0] = base /\ h[N] = fold[D] /\ \A n \in 0..N : h[n] \in V /\ h[n] = fold[1..n]
    BY <1>1, <1>12
  <2>2. ASSUME NEW n \in 0..N, n < N PROVE n + 1 \in 1..N /\ h[n + 1] = With(h[n], n + 1)
    <3>1. n + 1 \in 1..N /\ n + 1 \in 0..N /\ (n + 1) - 1 = n
      BY <1>1, <2>2
    <3>2. h[n + 1] = g[<<n + 1, h[n]>>]
      BY <1>12, <2>1, <3>1
    <3> QED BY <1>7, <2>1, <3>1, <3>2
  <2> QED BY <1>2, <2>1, <2>2
<1> HIDE DEF h
<1> DEFINE Upto(n) == {from(k) : k \in 1..n} \cup {to(k) : k \in 1..n}
           G == {n \in 0..N : Distinct(h[n], X) /\ ToSet(h[n]) = Upto(n)}
<1>14. \A n \in 0..N : n \in G
  <2>1. 0 \in G
    <3>1. \A T1 : Distinct(<<>>, T1) /\ ToSet(<<>>) = {}
      BY DEF Distinct, IsInjective, ToSet
    <3>2. Upto(0) = {} /\ 0 \in 0..N
      BY <1>1
    <3> QED BY <1>5, <1>13, <3>1, <3>2
  <2>2. ASSUME NEW n \in 0..N, n \in G, n < N PROVE n + 1 \in G
    <3> DEFINE a == from(n + 1)
               b == to(n + 1)
               v == Including(h[n], a)
    <3>1. /\ n + 1 \in 1..N /\ n + 1 \in 0..N /\ h[n + 1] = Including(v, b)
          /\ a \in X /\ b \in X /\ Distinct(h[n], X) /\ ToSet(h[n]) = Upto(n)
      <4>1. n + 1 \in 1..N /\ n + 1 \in 0..N /\ h[n + 1] = With(h[n], n + 1)
        BY <1>1, <1>13, <2>2
      <4> QED BY <1>4, <1>5, <2>2, <4>1
    <3>2. Upto(n + 1) = Upto(n) \cup {a} \cup {b}
      <4>1. 1..(n + 1) = (1..n) \cup {n + 1}
        BY <1>1
      <4> QED BY <4>1
    <3>3. Distinct(v, X) /\ ToSet(v) = ToSet(h[n]) \cup {a}
      BY <3>1, IncludingAdds
    <3> HIDE DEF Upto, a, b, v
    <3>4. Distinct(Including(v, b), X) /\ ToSet(Including(v, b)) = ToSet(v) \cup {b}
      BY <3>1, <3>3, IncludingAdds
    <3> QED BY <3>1, <3>2, <3>3, <3>4
  <2> HIDE DEF G
  <2> QED BY <1>1, <2>1, <2>2, UpTo
<1>15. Distinct(NodesInOrder(edges), X) /\ ToSet(NodesInOrder(edges)) = X
  <2>1. N \in 0..N
    BY <1>1
  <2> QED BY <1>6, <1>13, <1>14, <2>1
<1>16. /\ IsFiniteSet(X) /\ Cardinality(X) = Len(NodesInOrder(edges))
       /\ Len(NodesInOrder(edges)) \in Nat
  BY <1>15, DistinctLength
<1> QED BY <1>15, <1>16 DEF Nodes, X

-----------------------------------------------------------------------------
(* The search for a cycle *)

Results(edges) == [cycle : Seq(Edges(edges)), visited : SUBSET Nodes(edges)]
Searches(edges) == [Calls(edges) -> Results(edges)]

LEMMA EdgesHaveEnds ==
  ASSUME NEW T, NEW edges \in Seq(T), NEW e \in Edges(edges)
  PROVE  e.from \in Nodes(edges) /\ e.to \in Nodes(edges)
<1>1. e.from \in Ends(edges) /\ e.to \in Ends(edges)
  BY DEF Edges, Ends
<1> QED BY <1>1, NodesAreListed

LEMMA CallsAre ==
  ASSUME NEW edges
  PROVE  Calls(edges) = [node : Nodes(edges), path : Seq(Edges(edges)), visited : SUBSET Nodes(edges)]
BY DEF Calls, Nodes, Edges

\* A path with an edge that leaves a node has the stretch from there on.
LEMMA StretchOfPath ==
  ASSUME NEW E, NEW path \in Seq(E), NEW n, n \in {d.from : d \in ToSet(path)}
  PROVE  \E i \in DOMAIN path : path[i].from = n /\ FromNode(path, n) = SubSeq(path, i, Len(path))
<1> DEFINE i == CHOOSE k \in DOMAIN path : path[k].from = n
<1>1. i \in DOMAIN path /\ path[i].from = n
  BY DEF ToSet
<1>2. FromNode(path, n) = SubSeq(path, i, Len(path))
  BY DEF FromNode
<1> QED BY <1>1, <1>2

LEMMA TriedIsResult ==
  ASSUME NEW T, NEW edges \in Seq(T), NEW search \in Searches(edges),
         NEW call \in Calls(edges), NEW found \in Results(edges), NEW e \in Edges(edges)
  PROVE  Tried(search, call, found, e) \in Results(edges)
<1> DEFINE E == Edges(edges)
           nodes == Nodes(edges)
           n == call.node
           path == call.path
           deeper == [node |-> e.to, path |-> Append(path, e), visited |-> found.visited]
<1>1. /\ n \in nodes /\ path \in Seq(E) /\ found.cycle \in Seq(E)
      /\ found.visited \in SUBSET nodes /\ e \in E /\ e.to \in nodes
      /\ found = [cycle |-> found.cycle, visited |-> found.visited]
  BY CallsAre, EdgesHaveEnds DEF Results
<1>2. \A s \in Seq(E) : [found EXCEPT !.cycle = s] \in Results(edges)
  BY <1>1 DEF Results
<1>3. search[deeper] \in Results(edges)
  <2>1. Append(path, e) \in Seq(E)
    BY <1>1
  <2>2. deeper \in Calls(edges)
    BY <1>1, <2>1, CallsAre
  <2> HIDE DEF deeper
  <2> QED BY <2>2 DEF Searches
<1>4. ASSUME e.to \in {d.from : d \in ToSet(path)} \cup {n}, e.to # n
      PROVE  Append(FromNode(path, e.to), e) \in Seq(E)
  <2>1. PICK i \in DOMAIN path : FromNode(path, e.to) = SubSeq(path, i, Len(path))
    BY <1>1, <1>4, StretchOfPath
  <2>2. SubSeq(path, i, Len(path)) \in Seq(E)
    <3>1. i \in 1..Len(path) /\ Len(path) \in Nat /\ \A k \in 1..Len(path) : path[k] \in E
      BY <1>1
    <3>2. \A k \in i..Len(path) : path[k] \in E
      BY <3>1
    <3> HIDE DEF path
    <3> QED BY <1>1, <3>1, <3>2, SubSeqProperties
  <2> QED BY <1>1, <2>1, <2>2
<1>5. <<e>> \in Seq(E)
  BY <1>1
<1> HIDE DEF E, nodes, n, path, deeper
<1>6. \/ Tried(search, call, found, e) = found
      \/ Tried(search, call, found, e) = [found EXCEPT !.cycle = <<e>>]
      \/ /\ e.to \in {d.from : d \in ToSet(path)} \cup {n} /\ e.to # n
         /\ Tried(search, call, found, e) = [found EXCEPT !.cycle = Append(FromNode(path, e.to), e)]
      \/ Tried(search, call, found, e) = search[deeper]
  BY DEF Tried, path, n, deeper
<1> QED BY <1>2, <1>3, <1>4, <1>5, <1>6

LEMMA EdgesFromAre ==
  ASSUME NEW T, NEW edges \in Seq(T), NEW n
  PROVE  /\ EdgesFrom(edges, n) \in Seq(Edges(edges))
         /\ ToSet(EdgesFrom(edges, n)) = {e \in Edges(edges) : e.from = n}
<1> DEFINE out == EdgesFrom(edges, n)
           P == {k \in DOMAIN edges : edges[k].from = n}
<1>1. out = AtPlaces(edges, P) /\ P \in SUBSET DOMAIN edges
  BY DEF EdgesFrom
<1>2. edges \in Seq(Edges(edges))
  BY DEF Edges, ToSet
<1>3. {edges[k] : k \in P} = {e \in Edges(edges) : e.from = n}
  BY DEF Edges, ToSet
<1> HIDE DEF P, out
<1>4. out \in Seq(Edges(edges)) /\ ToSet(out) = {edges[k] : k \in P}
  BY <1>1, <1>2, PlacesPicked
<1> QED BY <1>3, <1>4 DEF out

\* What has been found after each of the edges that leave the node of a call.
Tries(h, edges, search, call) ==
  LET out == EdgesFrom(edges, call.node) IN
  /\ h \in [0..Len(out) -> Results(edges)]
  /\ h[0] = [cycle |-> <<>>, visited |-> call.visited \cup {call.node}]
  /\ h[Len(out)] = Deeper(edges, search)[call]
  /\ \A k \in 0..Len(out) : k < Len(out) =>
       k + 1 \in 1..Len(out) /\ h[k + 1] = Tried(search, call, h[k], out[k + 1])

LEMMA DeeperTries ==
  ASSUME NEW T, NEW edges \in Seq(T), NEW search \in Searches(edges), NEW call \in Calls(edges)
  PROVE  \E h : Tries(h, edges, search, call)
<1> DEFINE out == EdgesFrom(edges, call.node)
           N == Len(out)
           V == Results(edges)
           With(v, k) == Tried(search, call, v, out[k])
           base == [cycle |-> <<>>, visited |-> call.visited \cup {call.node}]
           g == [x \in (1..N) \X V |-> With(x[2], x[1])]
           D == DOMAIN out
           adds(it) == it = [S \in SUBSET D |->
             IF S = {} THEN base ELSE With(it[S \ {Max(S)}], Max(S))]
           fold == CHOOSE it : adds(it)
<1>1. N \in Nat /\ D = 1..N /\ out \in Seq(Edges(edges))
  BY EdgesFromAre
<1>2. Deeper(edges, search)[call] = fold[D]
  BY DEF Deeper, FoldLeft, MapThenFoldSet
<1> HIDE DEF out
<1>3. base \in V /\ \A v \in V, k \in 1..N : With(v, k) \in V
  <2>1. base \in V
    <3>1. call.visited \in SUBSET Nodes(edges) /\ call.node \in Nodes(edges)
      BY CallsAre
    <3>2. <<>> \in Seq(Edges(edges))
      OBVIOUS
    <3> QED BY <3>1, <3>2 DEF Results
  <2>2. \A k \in 1..N : out[k] \in Edges(edges)
    BY <1>1
  <2> QED BY <2>1, <2>2, TriedIsResult
<1>4. \A v, k : With(v, k) = Tried(search, call, v, out[k])
  OBVIOUS
<1>5. base = [cycle |-> <<>>, visited |-> call.visited \cup {call.node}]
  OBVIOUS
<1> HIDE DEF N, V, With, base
<1>6. g \in [(1..N) \X V -> V] /\ \A k \in 1..N, v \in V : g[<<k, v>>] = With(v, k)
  BY <1>3
<1> HIDE DEF g
<1>7. PICK step \in [SUBSET (1..N) -> V] : Folds(step, base, g, N)
  BY <1>1, <1>3, <1>6, FoldExists
<1>8. adds(step)
  <2>1. ASSUME NEW S \in SUBSET (1..N)
        PROVE  step[S] = IF S = {} THEN base ELSE With(step[S \ {Max(S)}], Max(S))
    <3>1. S \ {Max(S)} \in SUBSET (1..N)
      OBVIOUS
    <3>2. step[S] = IF S = {} THEN base ELSE g[<<Max(S), step[S \ {Max(S)}]>>]
      BY <1>7 DEF Folds
    <3>3. step[S \ {Max(S)}] \in V
      BY <1>7, <3>1
    <3>4. S # {} => Max(S) \in 1..N
      BY <1>1, LastPlace
    <3> HIDE DEF Max
    <3> QED BY <1>6, <3>2, <3>3, <3>4
  <2> QED BY <1>1, <1>7, <2>1
<1> HIDE DEF adds
<1>9. adds(fold)
  BY <1>8
<1> HIDE DEF fold
<1>10. Steps(fold, base, g, N, V)
  <2>1. fold[{}] = base
    BY <1>9 DEF adds
  <2>2. ASSUME NEW S \in (SUBSET (1..N)) \ {{}}, fold[S \ {Max(S)}] \in V
        PROVE  fold[S] = g[<<Max(S), fold[S \ {Max(S)}]>>]
    <3>1. fold[S] = With(fold[S \ {Max(S)}], Max(S))
      BY <1>1, <1>9 DEF adds
    <3>2. Max(S) \in 1..N
      BY <1>1, LastPlace
    <3> QED BY <1>6, <2>2, <3>1, <3>2
  <2> QED BY <2>1, <2>2 DEF Steps
<1>11. /\ fold[1..0] = base /\ \A n \in 0..N : fold[1..n] \in V
      /\ \A n \in 1..N : fold[1..n] = g[<<n, fold[1..(n - 1)]>>]
  <2>1. N \in Nat /\ base \in V /\ g \in [(1..N) \X V -> V]
    BY <1>1, <1>3, <1>6
  <2>2. InTurn(fold, base, g, N, V)
    BY <1>10, <2>1, FoldsInTurn
  <2> QED BY <2>2 DEF InTurn
<1> DEFINE h == [n \in 0..N |-> fold[1..n]]
<1>12. /\ h[0] = base /\ h[N] = Deeper(edges, search)[call] /\ \A n \in 0..N : h[n] \in V
       /\ \A n \in 0..N : n < N => n + 1 \in 1..N /\ h[n + 1] = With(h[n], n + 1)
  <2>1. h[0] = base /\ h[N] = fold[D] /\ \A n \in 0..N : h[n] \in V /\ h[n] = fold[1..n]
    BY <1>1, <1>11
  <2>2. ASSUME NEW n \in 0..N, n < N PROVE n + 1 \in 1..N /\ h[n + 1] = With(h[n], n + 1)
    <3>1. n + 1 \in 1..N /\ n + 1 \in 0..N /\ (n + 1) - 1 = n
      BY <1>1, <2>2
    <3>2. h[n + 1] = g[<<n + 1, h[n]>>]
      BY <1>11, <2>1, <3>1
    <3> QED BY <1>6, <2>1, <3>1, <3>2
  <2> QED BY <1>2, <2>1, <2>2
<1> HIDE DEF h
<1>13. h \in [0..N -> V]
  <2>1. h = [n \in 0..N |-> h[n]]
    BY DEF h
  <2> QED BY <1>12, <2>1
<1>14. /\ h[0] = [cycle |-> <<>>, visited |-> call.visited \cup {call.node}]
       /\ h[N] = Deeper(edges, search)[call]
       /\ \A k \in 0..N : k < N => k + 1 \in 1..N /\ h[k + 1] = Tried(search, call, h[k], out[k + 1])
  BY <1>4, <1>5, <1>12
<1>15. Tries(h, edges, search, call)
  BY <1>13, <1>14 DEF Tries, out, N, V
<1> QED BY <1>15

LEMMA DeeperIsSearch ==
  ASSUME NEW T, NEW edges \in Seq(T), NEW search \in Searches(edges)
  PROVE  Deeper(edges, search) \in Searches(edges)
<1> DEFINE deeper == Deeper(edges, search)
<1>1. ASSUME NEW call \in Calls(edges) PROVE deeper[call] \in Results(edges)
  <2> DEFINE out == EdgesFrom(edges, call.node)
             N == Len(out)
  <2>1. out \in Seq(Edges(edges))
    BY EdgesFromAre
  <2>2. PICK h : Tries(h, edges, search, call)
    BY DeeperTries
  <2>3. h \in [0..N -> Results(edges)] /\ h[N] = deeper[call]
    BY <2>2 DEF Tries
  <2>4. N \in Nat /\ N \in 0..N
    BY <2>1
  <2> HIDE DEF N, out, deeper
  <2> QED BY <2>3, <2>4
<1>2. deeper = [call \in Calls(edges) |-> deeper[call]]
  BY DEF Deeper
<1> HIDE DEF deeper
<1>3. deeper \in [Calls(edges) -> Results(edges)]
  BY <1>1, <1>2
<1> QED BY <1>3 DEF deeper, Searches

\* A search for every depth, each of them one step deeper than the one before.
LEMMA SearchesGoDeeper ==
  ASSUME NEW T, NEW edges \in Seq(T)
  PROVE  LET depth == Len(NodesInOrder(edges)) IN
         \E s \in [0..depth -> Searches(edges)] :
           /\ s[depth] = Search(edges)
           /\ \A k \in 0..depth : k < depth => s[k + 1] = Deeper(edges, s[k])
<1> DEFINE N == Len(NodesInOrder(edges))
           V == Searches(edges)
           base == [call \in Calls(edges) |-> [cycle |-> <<>>, visited |-> call.visited]]
           goes(s) == s = [left \in 0..N |-> IF left = 0 THEN base ELSE Deeper(edges, s[left - 1])]
           search == CHOOSE s : goes(s)
           g == [x \in (1..N) \X V |-> Deeper(edges, x[2])]
<1>1. N \in Nat
  BY NodesAreListed
<1>2. Search(edges) = search[N]
  BY DEF Search
<1>3. base \in V
  <2>1. ASSUME NEW call \in Calls(edges)
        PROVE  [cycle |-> <<>>, visited |-> call.visited] \in Results(edges)
    <3>1. call.visited \in SUBSET Nodes(edges)
      BY CallsAre
    <3>2. <<>> \in Seq(Edges(edges))
      OBVIOUS
    <3> QED BY <3>1, <3>2 DEF Results
  <2> QED BY <2>1 DEF Searches
<1>4. \A s \in V : Deeper(edges, s) \in V
  BY DeeperIsSearch
<1> HIDE DEF N, V, base
<1>5. g \in [(1..N) \X V -> V] /\ \A k \in 1..N, s \in V : g[<<k, s>>] = Deeper(edges, s)
  BY <1>4
<1> HIDE DEF g
<1>6. PICK step \in [SUBSET (1..N) -> V] : Folds(step, base, g, N)
  BY <1>1, <1>3, <1>5, FoldExists
<1>7. /\ step[1..0] = base /\ \A n \in 0..N : step[1..n] \in V
      /\ \A n \in 1..N : step[1..n] = g[<<n, step[1..(n - 1)]>>]
  <2>1. Steps(step, base, g, N, V)
    <3>1. {} \in SUBSET (1..N)
      OBVIOUS
    <3> QED BY <1>6, <3>1 DEF Folds, Steps
  <2>2. InTurn(step, base, g, N, V)
    BY <1>1, <1>3, <1>5, <2>1, FoldsInTurn
  <2> QED BY <2>2 DEF InTurn
<1> DEFINE upto == [n \in 0..N |-> step[1..n]]
<1>8. goes(upto)
  <2>1. ASSUME NEW n \in 0..N
        PROVE  upto[n] = IF n = 0 THEN base ELSE Deeper(edges, upto[n - 1])
    <3>1. CASE n = 0
      BY <1>7, <3>1
    <3>2. CASE n # 0
      <4>1. n \in 1..N /\ n - 1 \in 0..N
        BY <1>1, <3>2
      <4>2. upto[n] = g[<<n, upto[n - 1]>>] /\ upto[n - 1] \in V
        BY <1>7, <4>1
      <4> QED BY <1>5, <3>2, <4>1, <4>2
    <3> QED BY <3>1, <3>2
  <2> QED BY <2>1
<1>9. goes(search)
  BY <1>8
<1> HIDE DEF search, upto
<1>10. /\ search[0] = base
       /\ \A n \in 0..N : n < N => search[n + 1] = Deeper(edges, search[n])
  <2>1. 0 \in 0..N
    BY <1>1
  <2>2. ASSUME NEW n \in 0..N, n < N PROVE search[n + 1] = Deeper(edges, search[n])
    <3>1. n + 1 \in 0..N /\ n + 1 # 0 /\ (n + 1) - 1 = n
      BY <1>1, <2>2
    <3> QED BY <1>9, <3>1
  <2> QED BY <1>9, <2>1, <2>2
<1>11. \A n \in 0..N : search[n] \in V
  <2> DEFINE G == {n \in 0..N : search[n] \in V}
  <2>1. 0 \in G
    BY <1>1, <1>3, <1>10
  <2>2. ASSUME NEW n \in 0..N, n \in G, n < N PROVE n + 1 \in G
    <3>1. n + 1 \in 0..N
      BY <1>1, <2>2
    <3> QED BY <1>4, <1>10, <2>2, <3>1
  <2> HIDE DEF G
  <2>3. \A n \in 0..N : n \in G
    BY <1>1, <2>1, <2>2, UpTo
  <2> QED BY <2>3 DEF G
<1>12. search \in [0..N -> V]
  <2>1. search = [n \in 0..N |-> search[n]]
    BY <1>9
  <2> QED BY <1>11, <2>1
<1> QED BY <1>2, <1>10, <1>12 DEF N, V

\* The first nodes of the edges of a path.
Firsts(path) == {d.from : d \in ToSet(path)}

\* The edges of a path follow one another to n, from different nodes.
LeadsTo(path, n) ==
  /\ \A i, j \in DOMAIN path : path[i].from = path[j].from => i = j
  /\ \A i \in DOMAIN path : path[i].to = IF i = Len(path) THEN n ELSE path[i + 1].from

\* No edge leads out of a set of nodes, and no cycle is in it.
Settled(S, edges) ==
  /\ \A e \in Edges(edges) : e.from \in S => e.to \in S
  /\ \A U \in SUBSET S : (\A n \in U : \E e \in Edges(edges) : e.from = n /\ e.to \in U) => U = {}

\* How a call is made, with at most left nodes to visit.
Begun(left, call, edges) ==
  /\ LeadsTo(call.path, call.node) /\ Firsts(call.path) \subseteq call.visited
  /\ call.node \notin call.visited
  /\ Settled(call.visited \ Firsts(call.path), edges)
  /\ Cardinality(Nodes(edges) \ call.visited) <= left

\* What a call leaves when no cycle goes through a node it visits but those of its path.
Ended(call, found, edges) ==
  IF found.cycle = <<>>
    THEN /\ call.visited \cup {call.node} \subseteq found.visited
         /\ Settled(found.visited \ Firsts(call.path), edges)
    ELSE IsCycle(found.cycle, edges)

\* The same while it tries its edges, those to the nodes in tried so far.
Trying(call, found, edges, tried) ==
  IF found.cycle = <<>>
    THEN LET settled == found.visited \ (Firsts(call.path) \cup {call.node}) IN
         /\ call.visited \cup {call.node} \subseteq found.visited
         /\ Settled(settled, edges) /\ tried \subseteq settled
    ELSE IsCycle(found.cycle, edges)

\* The arithmetic of a stretch from place i to the end m of a path, closed by one
\* more edge, the l-th: its k-th edge, but for the last, is the path's at(k)-th.
PlacesFit(i, m) ==
  LET l == m - i + 2
      at(k) == i + k - 1
  IN /\ l \in Nat /\ l \in 1..l /\ 1 \in 1..l /\ 1 # l /\ at(1) = i
     /\ \A k \in 1..l : k # l => k + 1 \in 1..l /\ at(k) \in 1..m /\ at(k + 1) = at(k) + 1
     /\ \A k \in 1..l : k # l => (at(k) = m <=> k + 1 = l)
     /\ \A k, j \in 1..l : at(k) = at(j) => k = j
     /\ \A k \in 1..l : k # l => k \in 1..(m - i + 1)
     /\ l = (m - i + 1) + 1

LEMMA PlacesOfStretch ==
  ASSUME NEW i \in Nat, NEW m \in Nat, 1 <= i, i <= m
  PROVE  PlacesFit(i, m)
BY DEF PlacesFit

\* A sequence t of elements of S that is s with x at its end, place by place.
OneLonger(t, s, x, S) ==
  /\ t \in Seq(S) /\ Len(t) = Len(s) + 1 /\ DOMAIN t = 1..(Len(s) + 1)
  /\ Len(s) \in Nat /\ DOMAIN s = 1..Len(s)
  /\ \A k \in 1..(Len(s) + 1) : t[k] = IF k = Len(s) + 1 THEN x ELSE s[k]

LEMMA AppendedPlaces ==
  ASSUME NEW S, NEW s \in Seq(S), NEW x \in S
  PROVE  OneLonger(Append(s, x), s, x, S)
BY DEF OneLonger

\* The stretch of a path from the node its next edge leads to, and that edge.
LEMMA PathCloses ==
  ASSUME NEW T, NEW edges \in Seq(T), NEW path \in Seq(Edges(edges)), NEW n,
         LeadsTo(path, n), n \notin Firsts(path),
         NEW e \in Edges(edges), e.from = n, e.to \in Firsts(path)
  PROVE  IsCycle(Append(FromNode(path, e.to), e), edges)
<1> DEFINE E == Edges(edges)
           m == Len(path)
<1>1. PICK i \in DOMAIN path : path[i].from = e.to /\ FromNode(path, e.to) = SubSeq(path, i, m)
  BY StretchOfPath DEF Firsts
<1> DEFINE c == Append(SubSeq(path, i, m), e)
           l == m - i + 2
           at(k) == i + k - 1
<1>2. /\ m \in Nat /\ DOMAIN path = 1..m /\ i \in 1..m /\ i <= m
      /\ \A k \in 1..m : path[k] \in E
  OBVIOUS
<1>3. /\ SubSeq(path, i, m) \in Seq(E) /\ Len(SubSeq(path, i, m)) = m - i + 1
      /\ \A k \in 1..(m - i + 1) : SubSeq(path, i, m)[k] = path[at(k)]
  <2>1. \A k \in i..m : path[k] \in E
    BY <1>2
  <2> HIDE DEF m, E
  <2> QED BY <1>2, <2>1, SubSeqProperties
<1>4. /\ c \in Seq(E) /\ Len(c) = l /\ DOMAIN c = 1..l
      /\ \A k \in 1..l : c[k] = IF k = l THEN e ELSE path[at(k)]
  <2> DEFINE stretch == SubSeq(path, i, m)
  <2>1. OneLonger(Append(stretch, e), stretch, e, E)
    BY <1>3, AppendedPlaces, Zenon
  <2>2. i \in Nat /\ m \in Nat /\ 1 <= i /\ i <= m
    BY <1>2
  <2>3. PlacesFit(i, m)
    BY <2>2, PlacesOfStretch, Zenon
  <2> HIDE DEF at, stretch
  <2>4. l = Len(stretch) + 1 /\ \A k \in 1..l : k # l => k \in 1..(m - i + 1)
    <3>1. l = (m - i + 1) + 1 /\ \A k \in 1..l : k # l => k \in 1..(m - i + 1)
      BY <2>3, ZenonT(60) DEF PlacesFit
    <3> QED BY <1>3, <3>1 DEF stretch
  <2> HIDE DEF l
  <2> QED BY <1>3, <2>1, <2>4 DEF stretch, OneLonger
<1>5. /\ \A k, j \in 1..m : path[k].from = path[j].from => k = j
      /\ \A k \in 1..m : path[k].from # n
      /\ \A k \in 1..m : path[k].to = IF k = m THEN n ELSE path[k + 1].from
  <2>1. \A k \in 1..m : path[k].from # n
    BY <1>2 DEF Firsts, ToSet
  <2>2. DOMAIN path = 1..m
    BY <1>2
  <2> QED BY <2>1, <2>2 DEF LeadsTo
<1> HIDE DEF c, m
\* Where the edges of the cycle stand on the path.
<1>6. /\ l \in Nat /\ l \in 1..l /\ 1 \in 1..l /\ 1 # l /\ at(1) = i
      /\ \A k \in 1..l : k # l => k + 1 \in 1..l /\ at(k) \in 1..m /\ at(k + 1) = at(k) + 1
      /\ \A k \in 1..l : k # l => (at(k) = m <=> k + 1 = l)
      /\ \A k, j \in 1..l : at(k) = at(j) => k = j
  <2>1. i \in Nat /\ m \in Nat /\ 1 <= i /\ i <= m
    BY <1>2
  <2>2. PlacesFit(i, m)
    BY <2>1, PlacesOfStretch, Zenon
  <2> QED BY <2>2, Zenon DEF PlacesFit
<1> HIDE DEF l, at
<1>7. ASSUME NEW k \in 1..l PROVE c[k].to = c[IF k = l THEN 1 ELSE k + 1].from
  <2>1. CASE k = l
    BY <1>1, <1>4, <1>6, <2>1
  <2>2. CASE k # l
    <3>1. k + 1 \in 1..l /\ at(k) \in 1..m /\ at(k + 1) = at(k) + 1 /\ (at(k) = m <=> k + 1 = l)
      BY <1>6, <2>2
    <3>2. c[k] = path[at(k)]
      BY <1>4, <2>2
    <3>3. c[k + 1].from = IF k + 1 = l THEN n ELSE path[at(k) + 1].from
      BY <1>4, <3>1
    <3>4. c[k].to = IF k + 1 = l THEN n ELSE path[at(k) + 1].from
      BY <1>5, <3>1, <3>2
    <3> QED BY <2>2, <3>3, <3>4
  <2> QED BY <2>1, <2>2
<1>8. ASSUME NEW k \in 1..l, NEW j \in 1..l, c[k].from = c[j].from PROVE k = j
  <2>1. CASE k # l /\ j # l
    <3>1. at(k) \in 1..m /\ at(j) \in 1..m
      BY <1>6, <2>1
    <3>2. c[k] = path[at(k)] /\ c[j] = path[at(j)]
      BY <1>4, <2>1
    <3>3. path[at(k)].from = path[at(j)].from
      BY <1>8, <3>2
    <3>4. at(k) = at(j)
      BY <1>5, <3>1, <3>3
    <3> QED BY <1>6, <3>4
  <2>2. CASE ~(k # l /\ j # l)
    <3>1. ASSUME NEW x \in 1..l, x # l PROVE c[x].from # n
      <4>1. at(x) \in 1..m
        BY <1>6, <3>1
      <4>2. c[x] = path[at(x)]
        BY <1>4, <3>1
      <4> QED BY <1>5, <4>1, <4>2
    <3>2. c[l].from = n
      BY <1>4, <1>6
    <3> QED BY <1>8, <2>2, <3>1, <3>2
  <2> QED BY <2>1, <2>2
<1>9. ToSet(c) \subseteq Edges(edges)
  BY <1>4 DEF ToSet
<1>10. IsCycle(c, edges)
  BY <1>4, <1>7, <1>8, <1>9 DEF IsCycle, Edges
<1> QED BY <1>1, <1>10 DEF c, m

LEMMA LoopCloses ==
  ASSUME NEW edges, NEW e \in Edges(edges), e.from = e.to
  PROVE  IsCycle(<<e>>, edges)
BY DEF IsCycle, Edges, ToSet

LEMMA PathGrows ==
  ASSUME NEW E, NEW path \in Seq(E), NEW n, LeadsTo(path, n), n \notin Firsts(path),
         NEW e \in E, e.from = n
  PROVE  /\ LeadsTo(Append(path, e), e.to) /\ Firsts(Append(path, e)) = Firsts(path) \cup {n}
<1> DEFINE m == Len(path)
           a == Append(path, e)
<1>1. /\ m \in Nat /\ DOMAIN path = 1..m /\ DOMAIN a = 1..(m + 1) /\ Len(a) = m + 1
      /\ \A k \in 1..(m + 1) : a[k] = IF k = m + 1 THEN e ELSE path[k]
  <2>1. OneLonger(a, path, e, E)
    BY AppendedPlaces, ZenonT(60)
  <2> QED BY <2>1, Zenon DEF OneLonger
<1>2. /\ \A k, j \in 1..m : path[k].from = path[j].from => k = j
      /\ \A k \in 1..m : path[k].from # n
      /\ \A k \in 1..m : path[k].to = IF k = m THEN n ELSE path[k + 1].from
  <2>1. \A k \in 1..m : path[k].from # n
    BY <1>1 DEF Firsts, ToSet
  <2> QED BY <1>1, <2>1 DEF LeadsTo
<1> HIDE DEF a, m
<1>3. \A k \in 1..(m + 1) : k # m + 1 => k \in 1..m /\ k + 1 \in 1..(m + 1) /\ (k = m <=> k + 1 = m + 1)
  BY <1>1
<1>4. LeadsTo(a, e.to)
  <2>1. \A k, j \in 1..(m + 1) : a[k].from = a[j].from => k = j
    BY <1>1, <1>2, <1>3
  <2>2. \A k \in 1..(m + 1) : a[k].to = IF k = m + 1 THEN e.to ELSE a[k + 1].from
    BY <1>1, <1>2, <1>3
  <2> QED BY <1>1, <2>1, <2>2 DEF LeadsTo
<1>5. Firsts(a) = Firsts(path) \cup {n}
  <2>1. Firsts(a) = {a[k].from : k \in 1..(m + 1)}
    BY <1>1 DEF Firsts, ToSet
  <2>2. Firsts(path) = {path[k].from : k \in 1..m}
    BY <1>1 DEF Firsts, ToSet
  <2>3. 1..(m + 1) = (1..m) \cup {m + 1} /\ m + 1 \notin 1..m
    BY <1>1
  <2> QED BY <1>1, <2>1, <2>2, <2>3
<1> QED BY <1>4, <1>5 DEF a

\* One more edge of a call whose deeper calls end as they should.
LEMMA OneMoreTried ==
  ASSUME NEW T, NEW edges \in Seq(T), NEW search \in Searches(edges), NEW left \in Nat,
         \A c \in Calls(edges) : Begun(left, c, edges) => Ended(c, search[c], edges),
         NEW call \in Calls(edges), Begun(left + 1, call, edges),
         NEW found \in Results(edges), NEW tried, Trying(call, found, edges, tried),
         NEW e \in Edges(edges), e.from = call.node
  PROVE  Trying(call, Tried(search, call, found, e), edges, tried \cup {e.to})
<1> DEFINE n == call.node
           path == call.path
           before == call.visited
           seen == found.visited
           stack == Firsts(path) \cup {n}
           next == [node |-> e.to, path |-> Append(path, e), visited |-> seen]
           now == Tried(search, call, found, e)
<1> SUFFICES Trying(call, now, edges, tried \cup {e.to})
  OBVIOUS
<1>1. /\ n \in Nodes(edges) /\ path \in Seq(Edges(edges)) /\ before \in SUBSET Nodes(edges)
      /\ seen \in SUBSET Nodes(edges) /\ e.to \in Nodes(edges)
  <2>1. call \in [node : Nodes(edges), path : Seq(Edges(edges)), visited : SUBSET Nodes(edges)]
    BY CallsAre
  <2>2. e.to \in Nodes(edges)
    BY EdgesHaveEnds
  <2> QED BY <2>1, <2>2 DEF Results
<1>2. /\ LeadsTo(path, n) /\ Firsts(path) \subseteq before /\ n \notin before /\ n \notin Firsts(path)
      /\ Cardinality(Nodes(edges) \ before) <= left + 1
  BY DEF Begun
<1>3. CASE found.cycle # <<>>
  BY <1>3 DEF Tried, Trying
<1>4. CASE found.cycle = <<>>
  <2>1. /\ before \cup {n} \subseteq seen /\ Settled(seen \ stack, edges) /\ tried \subseteq seen \ stack
    BY <1>4 DEF Trying
  <2>2. now = IF e.to = n THEN [found EXCEPT !.cycle = <<e>>]
                 ELSE IF e.to \in stack
                      THEN [found EXCEPT !.cycle = Append(FromNode(path, e.to), e)]
                 ELSE IF e.to \in seen THEN found ELSE search[next]
    BY <1>4 DEF Tried, Firsts
  <2> HIDE DEF now, next
  <2>3. ASSUME NEW c, c # <<>>, IsCycle(c, edges), now = [found EXCEPT !.cycle = c]
        PROVE  Trying(call, now, edges, tried \cup {e.to})
    <3>1. now.cycle = c
      BY <2>3 DEF Results
    <3> QED BY <2>3, <3>1 DEF Trying
  <2>4. CASE e.to = n
    <3>1. IsCycle(<<e>>, edges) /\ <<e>> # <<>>
      BY <2>4, LoopCloses
    <3> QED BY <2>2, <2>3, <2>4, <3>1
  <2>5. CASE e.to # n /\ e.to \in stack
    <3> DEFINE c == Append(FromNode(path, e.to), e)
    <3>1. IsCycle(c, edges)
      BY <1>1, <1>2, <2>5, PathCloses
    <3>2. c # <<>>
      <4>1. PICK i \in DOMAIN path : FromNode(path, e.to) = SubSeq(path, i, Len(path))
        BY <1>1, <2>5, StretchOfPath DEF Firsts
      <4>2. SubSeq(path, i, Len(path)) \in Seq(Edges(edges))
        <5>1. i \in 1..Len(path) /\ Len(path) \in Nat /\ \A k \in i..Len(path) : path[k] \in Edges(edges)
          BY <1>1
        <5> QED BY <5>1, SubSeqProperties
      <4>3. \A s \in Seq(Edges(edges)) : Append(s, e) # <<>>
        BY AppendProperties
      <4> QED BY <4>1, <4>2, <4>3
    <3> HIDE DEF c
    <3>3. now = [found EXCEPT !.cycle = c]
      BY <2>2, <2>5 DEF c
    <3> QED BY <2>3, <3>1, <3>2, <3>3
  <2>6. CASE e.to \notin stack /\ e.to \in seen
    <3>1. now = found
      BY <2>2, <2>6
    <3> QED BY <1>4, <2>1, <2>6, <3>1 DEF Trying
  <2>7. CASE e.to \notin stack /\ e.to \notin seen
    <3>1. LeadsTo(next.path, next.node) /\ Firsts(next.path) = stack
      BY <1>1, <1>2, PathGrows DEF next
    <3>2. next.node = e.to /\ next.visited = seen
      BY DEF next
    <3>3. next \in Calls(edges)
      <4>1. Append(path, e) \in Seq(Edges(edges))
        BY <1>1
      <4> QED BY <1>1, <4>1, CallsAre DEF next
    <3>4. Cardinality(Nodes(edges) \ seen) <= left
      <4> DEFINE rest == Nodes(edges) \ before
                 less == Nodes(edges) \ seen
      <4>1. IsFiniteSet(rest) /\ n \in rest /\ less \in SUBSET (rest \ {n})
        <5>1. IsFiniteSet(Nodes(edges))
          BY NodesAreListed
        <5> QED BY <1>1, <1>2, <2>1, <5>1, FS_Subset
      <4>2. Cardinality(rest) <= left + 1
        BY <1>2
      <4> HIDE DEF rest, less
      <4>3. IsFiniteSet(rest \ {n}) /\ Cardinality(rest \ {n}) = Cardinality(rest) - 1
        BY <4>1, FS_RemoveElement
      <4>4. IsFiniteSet(less) /\ Cardinality(less) <= Cardinality(rest \ {n})
        BY <4>1, <4>3, FS_Subset
      <4>5. Cardinality(rest) \in Nat /\ Cardinality(less) \in Nat
        BY <4>1, <4>4, FS_CardinalityType
      <4>6. Cardinality(less) <= left
        BY <4>2, <4>3, <4>4, <4>5
      <4> QED BY <4>6 DEF less
    <3>5. Begun(left, next, edges)
      <4>1. Firsts(next.path) \subseteq next.visited
        BY <1>2, <2>1, <3>1, <3>2
      <4> QED BY <2>1, <2>7, <3>1, <3>2, <3>4, <4>1 DEF Begun
    <3>6. now = search[next] /\ Ended(next, now, edges)
      BY <2>2, <2>7, <3>3, <3>5
    <3>7. CASE now.cycle # <<>>
      BY <3>6, <3>7 DEF Ended, Trying
    <3>8. CASE now.cycle = <<>>
      <4>1. /\ seen \cup {e.to} \subseteq now.visited
            /\ Settled(now.visited \ stack, edges)
        BY <3>1, <3>2, <3>6, <3>8 DEF Ended
      <4>2. /\ before \cup {n} \subseteq now.visited
            /\ tried \cup {e.to} \subseteq now.visited \ stack
        BY <2>1, <2>7, <4>1
      <4> QED BY <3>8, <4>1, <4>2 DEF Trying
    <3> QED BY <3>7, <3>8
  <2> QED BY <2>4, <2>5, <2>6, <2>7
<1> QED BY <1>3, <1>4

\* A node whose edges all lead to settled nodes is settled.
LEMMA OneMoreSettled ==
  ASSUME NEW edges, NEW S, Settled(S, edges), NEW n, n \notin S,
         \A e \in Edges(edges) : e.from = n => e.to \in S
  PROVE  Settled(S \cup {n}, edges)
<1>1. \A e \in Edges(edges) : e.from \in S => e.to \in S
  BY DEF Settled
<1>2. ASSUME NEW U \in SUBSET (S \cup {n}),
             \A m \in U : \E e \in Edges(edges) : e.from = m /\ e.to \in U
      PROVE  U = {}
  <2> DEFINE W == U \ {n}
  <2>1. \A m \in W : \E e \in Edges(edges) : e.from = m /\ e.to \in W
    BY <1>1, <1>2
  <2>2. W = {}
    <3>1. W \in SUBSET S
      OBVIOUS
    <3> HIDE DEF W
    <3> QED BY <2>1, <3>1 DEF Settled
  <2>3. n \notin U
    BY <1>2, <2>2
  <2> QED BY <2>2, <2>3
<1> QED BY <1>1, <1>2 DEF Settled

\* A call ends as it should when the calls it makes do.
LEMMA CallEnds ==
  ASSUME NEW T, NEW edges \in Seq(T), NEW search \in Searches(edges), NEW left \in Nat,
         \A c \in Calls(edges) : Begun(left, c, edges) => Ended(c, search[c], edges),
         NEW call \in Calls(edges), Begun(left + 1, call, edges)
  PROVE  Ended(call, Deeper(edges, search)[call], edges)
<1> DEFINE n == call.node
           out == EdgesFrom(edges, n)
           N == Len(out)
           stack == Firsts(call.path) \cup {n}
           deeper == Deeper(edges, search)[call]
<1>1. out \in Seq(Edges(edges)) /\ ToSet(out) = {e \in Edges(edges) : e.from = n}
  BY EdgesFromAre
<1>2. PICK h : Tries(h, edges, search, call)
  BY DeeperTries
<1>3. /\ h \in [0..N -> Results(edges)] /\ h[N] = deeper
      /\ h[0] = [cycle |-> <<>>, visited |-> call.visited \cup {n}]
      /\ \A k \in 0..N : k < N =>
           k + 1 \in 1..N /\ h[k + 1] = Tried(search, call, h[k], out[k + 1])
  BY <1>2 DEF Tries
<1>4. N \in Nat /\ DOMAIN out = 1..N /\ \A k \in 1..N : out[k] \in Edges(edges) /\ out[k].from = n
  BY <1>1 DEF ToSet
<1>5. /\ Firsts(call.path) \subseteq call.visited /\ n \notin call.visited
      /\ Settled(call.visited \ Firsts(call.path), edges)
  BY DEF Begun
<1> HIDE DEF out, N, deeper
<1> DEFINE tried(k) == {out[j].to : j \in 1..k}
           G == {k \in 0..N : Trying(call, h[k], edges, tried(k))}
<1>6. \A k \in 0..N : k \in G
  <2>1. 0 \in G
    <3>1. tried(0) = {} /\ 0 \in 0..N
      BY <1>4
    <3>2. (call.visited \cup {n}) \ stack = call.visited \ Firsts(call.path)
      BY <1>5
    <3> HIDE DEF tried
    <3>3. h[0].cycle = <<>> /\ h[0].visited = call.visited \cup {n}
      BY <1>3
    <3>4. Settled(h[0].visited \ stack, edges)
      BY <1>5, <3>2, <3>3
    <3>5. Trying(call, h[0], edges, {})
      BY <3>3, <3>4 DEF Trying
    <3> QED BY <3>1, <3>5
  <2>2. ASSUME NEW k \in 0..N, k \in G, k < N PROVE k + 1 \in G
    <3>1. /\ k + 1 \in 1..N /\ k + 1 \in 0..N /\ h[k] \in Results(edges)
          /\ h[k + 1] = Tried(search, call, h[k], out[k + 1])
      BY <1>3, <1>4, <2>2
    <3>2. tried(k + 1) = tried(k) \cup {out[k + 1].to}
      <4>1. 1..(k + 1) = (1..k) \cup {k + 1}
        BY <1>4
      <4> QED BY <4>1
    <3>3. Trying(call, h[k], edges, tried(k))
      BY <2>2
    <3> HIDE DEF tried
    <3>4. Trying(call, h[k + 1], edges, tried(k) \cup {out[k + 1].to})
      <4>1. out[k + 1] \in Edges(edges) /\ out[k + 1].from = call.node
        BY <1>4, <3>1
      <4> QED BY <3>1, <3>3, <4>1, OneMoreTried
    <3> QED BY <3>1, <3>2, <3>4
  <2> HIDE DEF G
  <2> QED BY <1>4, <2>1, <2>2, UpTo
<1>7. Trying(call, deeper, edges, tried(N))
  <2>1. N \in 0..N
    BY <1>4
  <2> QED BY <1>3, <1>6, <2>1
<1>8. CASE deeper.cycle # <<>>
  BY <1>7, <1>8 DEF Trying, Ended, deeper
<1>9. CASE deeper.cycle = <<>>
  <2> DEFINE S == deeper.visited \ stack
  <2>1. /\ call.visited \cup {n} \subseteq deeper.visited /\ Settled(S, edges) /\ tried(N) \subseteq S
    BY <1>7, <1>9 DEF Trying
  <2>2. \A e \in Edges(edges) : e.from = n => e.to \in S
    <3>1. \A e \in Edges(edges) : e.from = n => e.to \in tried(N)
      BY <1>1, <1>4 DEF ToSet
    <3> QED BY <2>1, <3>1
  <2>3. n \notin S /\ S \cup {n} = deeper.visited \ Firsts(call.path)
    BY <1>5, <2>1
  <2> HIDE DEF S, tried
  <2>4. Settled(S \cup {n}, edges)
    BY <2>1, <2>2, <2>3, OneMoreSettled
  <2> QED BY <1>9, <2>1, <2>3, <2>4 DEF Ended, deeper
<1> QED BY <1>8, <1>9

LEMMA SearchEnds ==
  ASSUME NEW T, NEW edges \in Seq(T)
  PROVE  /\ Search(edges) \in Searches(edges)
         /\ \A c \in Calls(edges) : Begun(Len(NodesInOrder(edges)), c, edges) =>
              Ended(c, Search(edges)[c], edges)
<1> DEFINE N == Len(NodesInOrder(edges))
<1>1. N \in Nat /\ IsFiniteSet(Nodes(edges))
  BY NodesAreListed
<1>2. PICK s \in [0..N -> Searches(edges)] :
        /\ s[N] = Search(edges)
        /\ \A k \in 0..N : k < N => s[k + 1] = Deeper(edges, s[k])
  BY SearchesGoDeeper
<1> HIDE DEF N
<1> DEFINE AllEnd(k) == \A c \in Calls(edges) : Begun(k, c, edges) => Ended(c, s[k][c], edges)
           G == {k \in 0..N : AllEnd(k)}
<1>3. AllEnd(0)
  <2> SUFFICES ASSUME NEW c \in Calls(edges), Begun(0, c, edges) PROVE FALSE
    OBVIOUS
  <2> DEFINE rest == Nodes(edges) \ c.visited
  <2>1. c.node \in rest /\ Cardinality(rest) <= 0
    <3>1. c.node \in Nodes(edges)
      BY CallsAre
    <3> QED BY <3>1 DEF Begun
  <2>2. IsFiniteSet(rest)
    BY <1>1, FS_Subset
  <2> HIDE DEF rest
  <2>3. Cardinality(rest) = 0
    BY <2>1, <2>2, FS_CardinalityType
  <2> QED BY <2>1, <2>2, <2>3, FS_EmptySet
<1>4. ASSUME NEW k \in 0..N, AllEnd(k), k < N PROVE AllEnd(k + 1)
  <2>1. s[k + 1] = Deeper(edges, s[k]) /\ s[k] \in Searches(edges) /\ k \in Nat
    BY <1>1, <1>2, <1>4
  <2> SUFFICES ASSUME NEW c \in Calls(edges), Begun(k + 1, c, edges)
               PROVE  Ended(c, Deeper(edges, s[k])[c], edges)
    BY <2>1
  <2> QED BY <1>4, <2>1, CallEnds
<1> HIDE DEF AllEnd
<1>5. \A k \in 0..N : k \in G
  <2>1. 0 \in G
    BY <1>1, <1>3
  <2>2. ASSUME NEW k \in 0..N, k \in G, k < N PROVE k + 1 \in G
    <3>1. k + 1 \in 0..N
      BY <1>1, <2>2
    <3> QED BY <1>4, <2>2, <3>1
  <2> HIDE DEF G
  <2> QED BY <1>1, <2>1, <2>2, UpTo
<1>6. AllEnd(N) /\ N \in 0..N
  BY <1>1, <1>5
<1>7. s[N] \in Searches(edges)
  BY <1>2, <1>6
<1> QED BY <1>2, <1>6, <1>7 DEF AllEnd, N

\* The search from every node that was not visited finds a cycle, if there is one.
LEMMA FirstCycleIsFound ==
  ASSUME NEW T, NEW edges \in Seq(T)
  PROVE  /\ FindFirstCycle(edges) \in Seq(Edges(edges))
         /\ IF FindFirstCycle(edges) = <<>> THEN ~HasCycle(edges)
            ELSE IsCycle(FindFirstCycle(edges), edges)
<1> DEFINE nodes == NodesInOrder(edges)
           search == Search(edges)
           N == Len(nodes)
           V == Results(edges)
           from(v, n) == [node |-> n, path |-> <<>>, visited |-> v.visited]
           With(v, k) == IF v.cycle # <<>> \/ nodes[k] \in v.visited THEN v
                         ELSE search[[node |-> nodes[k], path |-> <<>>, visited |-> v.visited]]
           base == [cycle |-> <<>>, visited |-> {}]
           g == [x \in (1..N) \X V |-> With(x[2], x[1])]
           D == DOMAIN nodes
           adds(it) == it = [S \in SUBSET D |->
             IF S = {} THEN base ELSE With(it[S \ {Max(S)}], Max(S))]
           fold == CHOOSE it : adds(it)
           found == fold[D]
<1>1. /\ N \in Nat /\ D = 1..N /\ \A k \in 1..N : nodes[k] \in Nodes(edges)
      /\ Cardinality(Nodes(edges)) = N /\ Nodes(edges) = Ends(edges)
      /\ Nodes(edges) = {nodes[k] : k \in 1..N}
  <2>1. nodes \in Seq(Nodes(edges)) /\ Cardinality(Nodes(edges)) = N /\ Nodes(edges) = Ends(edges)
    BY NodesAreListed DEF Distinct
  <2> QED BY <2>1 DEF Nodes, ToSet
<1>2. FindFirstCycle(edges) = found.cycle
  BY DEF FindFirstCycle, FoldLeft, MapThenFoldSet
<1>3. /\ search \in Searches(edges)
      /\ \A c \in Calls(edges) : Begun(N, c, edges) => Ended(c, search[c], edges)
  BY SearchEnds
<1> HIDE DEF nodes, search
<1>4. \A v \in V, k \in 1..N : from(v, nodes[k]) \in Calls(edges)
  <2> SUFFICES ASSUME NEW v \in V, NEW k \in 1..N PROVE from(v, nodes[k]) \in Calls(edges)
    OBVIOUS
  <2>1. v.visited \in SUBSET Nodes(edges) /\ nodes[k] \in Nodes(edges)
    BY <1>1 DEF Results
  <2>2. <<>> \in Seq(Edges(edges))
    OBVIOUS
  <2> HIDE DEF V
  <2> QED BY <2>1, <2>2, CallsAre
<1>5. base \in V /\ \A v \in V, k \in 1..N : With(v, k) \in V
  <2>1. base \in V
    BY DEF Results
  <2>2. ASSUME NEW v \in V, NEW k \in 1..N PROVE With(v, k) \in V
    <3>1. search[from(v, nodes[k])] \in V
      <4> HIDE DEF V, from
      <4>1. from(v, nodes[k]) \in Calls(edges)
        BY <1>4
      <4> QED BY <1>3, <4>1 DEF Searches, V
    <3> QED BY <3>1
  <2> QED BY <2>1, <2>2
<1>6. \A v, k : With(v, k) = IF v.cycle # <<>> \/ nodes[k] \in v.visited THEN v
                            ELSE search[from(v, nodes[k])]
  OBVIOUS
<1>7. base = [cycle |-> <<>>, visited |-> {}]
  OBVIOUS
<1> HIDE DEF found
<1> HIDE DEF N, V, With, base
<1>8. g \in [(1..N) \X V -> V] /\ \A k \in 1..N, v \in V : g[<<k, v>>] = With(v, k)
  BY <1>5
<1> HIDE DEF g
<1>9. PICK step \in [SUBSET (1..N) -> V] : Folds(step, base, g, N)
  BY <1>1, <1>5, <1>8, FoldExists
<1>10. adds(step)
  <2>1. ASSUME NEW S \in SUBSET (1..N)
        PROVE  step[S] = IF S = {} THEN base ELSE With(step[S \ {Max(S)}], Max(S))
    <3>1. S \ {Max(S)} \in SUBSET (1..N)
      OBVIOUS
    <3>2. step[S] = IF S = {} THEN base ELSE g[<<Max(S), step[S \ {Max(S)}]>>]
      BY <1>9 DEF Folds
    <3>3. step[S \ {Max(S)}] \in V
      BY <1>9, <3>1
    <3>4. S # {} => Max(S) \in 1..N
      BY <1>1, LastPlace
    <3> HIDE DEF Max
    <3> QED BY <1>8, <3>2, <3>3, <3>4
  <2> QED BY <1>1, <1>9, <2>1
<1> HIDE DEF adds
<1>11. adds(fold)
  BY <1>10
<1> HIDE DEF fold
<1>12. Steps(fold, base, g, N, V)
  <2>1. fold[{}] = base
    BY <1>11 DEF adds
  <2>2. ASSUME NEW S \in (SUBSET (1..N)) \ {{}}, fold[S \ {Max(S)}] \in V
        PROVE  fold[S] = g[<<Max(S), fold[S \ {Max(S)}]>>]
    <3>1. fold[S] = With(fold[S \ {Max(S)}], Max(S))
      BY <1>1, <1>11 DEF adds
    <3>2. Max(S) \in 1..N
      BY <1>1, LastPlace
    <3> QED BY <1>8, <2>2, <3>1, <3>2
  <2> QED BY <2>1, <2>2 DEF Steps
<1>13. /\ fold[1..0] = base /\ \A n \in 0..N : fold[1..n] \in V
      /\ \A n \in 1..N : fold[1..n] = g[<<n, fold[1..(n - 1)]>>]
  <2>1. N \in Nat /\ base \in V /\ g \in [(1..N) \X V -> V]
    BY <1>1, <1>5, <1>8
  <2>2. InTurn(fold, base, g, N, V)
    BY <1>12, <2>1, FoldsInTurn
  <2> QED BY <2>2 DEF InTurn
<1> DEFINE h == [n \in 0..N |-> fold[1..n]]
<1>14. /\ h[0] = base /\ h[N] = found /\ \A n \in 0..N : h[n] \in V
       /\ \A n \in 0..N : n < N => n + 1 \in 1..N /\ h[n + 1] = With(h[n], n + 1)
  <2>1. h[0] = base /\ h[N] = fold[D] /\ \A n \in 0..N : h[n] \in V /\ h[n] = fold[1..n]
    BY <1>1, <1>13
  <2>2. ASSUME NEW n \in 0..N, n < N PROVE n + 1 \in 1..N /\ h[n + 1] = With(h[n], n + 1)
    <3>1. n + 1 \in 1..N /\ n + 1 \in 0..N /\ (n + 1) - 1 = n
      BY <1>1, <2>2
    <3>2. h[n + 1] = g[<<n + 1, h[n]>>]
      BY <1>13, <2>1, <3>1
    <3> QED BY <1>8, <2>1, <3>1, <3>2
  <2> QED BY <2>1, <2>2 DEF found
<1> HIDE DEF h
<1> DEFINE Upto(n) == {nodes[k] : k \in 1..n}
           Holds(v, some) == IF v.cycle = <<>> THEN Settled(v.visited, edges) /\ some \subseteq v.visited
                             ELSE IsCycle(v.cycle, edges)
           G == {n \in 0..N : Holds(h[n], Upto(n))}
<1>15. \A n \in 0..N : n \in G
  <2>1. 0 \in G
    <3>1. Upto(0) = {} /\ 0 \in 0..N
      BY <1>1
    <3>2. h[0].cycle = <<>> /\ h[0].visited = {}
      BY <1>7, <1>14
    <3>3. Settled({}, edges)
      BY DEF Settled
    <3> HIDE DEF Upto
    <3>4. Holds(h[0], {})
      BY <3>2, <3>3
    <3> QED BY <3>1, <3>4
  <2>2. ASSUME NEW n \in 0..N, n \in G, n < N PROVE n + 1 \in G
    <3> DEFINE v == h[n]
               m == nodes[n + 1]
               c == from(v, m)
    <3>1. /\ n + 1 \in 1..N /\ n + 1 \in 0..N /\ v \in V
          /\ h[n + 1] = IF v.cycle # <<>> \/ m \in v.visited THEN v ELSE search[c]
      <4>1. n + 1 \in 1..N /\ n + 1 \in 0..N /\ v \in V /\ h[n + 1] = With(v, n + 1)
        BY <1>1, <1>14, <2>2
      <4> QED BY <1>6, <4>1
    <3>2. Upto(n + 1) = Upto(n) \cup {m}
      <4>1. 1..(n + 1) = (1..n) \cup {n + 1}
        BY <1>1
      <4> QED BY <4>1
    <3>3. Holds(v, Upto(n))
      BY <2>2
    <3> HIDE DEF Upto, v
    <3>4. CASE v.cycle # <<>> \/ m \in v.visited
      <4>1. h[n + 1] = v
        BY <3>1, <3>4
      <4>2. Holds(v, Upto(n) \cup {m})
        BY <3>3, <3>4
      <4> QED BY <3>1, <3>2, <4>1, <4>2
    <3>5. CASE ~(v.cycle # <<>> \/ m \in v.visited)
      <4>1. /\ c.node = m /\ c.path = <<>> /\ c.visited = v.visited
            /\ Settled(v.visited, edges) /\ Upto(n) \subseteq v.visited
        BY <3>3, <3>5
      <4>2. c \in Calls(edges)
        BY <1>4, <3>1
      <4>3. Firsts(<<>>) = {} /\ LeadsTo(<<>>, m)
        BY DEF Firsts, LeadsTo, ToSet
      <4>4. v.visited \ {} = v.visited
        OBVIOUS
      <4>5. Cardinality(Nodes(edges) \ v.visited) <= N
        <5> DEFINE rest == Nodes(edges) \ v.visited
        <5>1. rest \in SUBSET Nodes(edges) /\ IsFiniteSet(Nodes(edges))
          BY NodesAreListed
        <5> HIDE DEF rest
        <5>2. Cardinality(rest) <= Cardinality(Nodes(edges))
          BY <5>1, FS_Subset
        <5> QED BY <1>1, <5>2 DEF rest
      <4> HIDE DEF c
      <4>6. Begun(N, c, edges)
        BY <3>5, <4>1, <4>3, <4>4, <4>5 DEF Begun
      <4>7. Ended(c, search[c], edges) /\ h[n + 1] = search[c]
        BY <1>3, <3>1, <3>5, <4>2, <4>6
      <4>8. h[n + 1].visited \ {} = h[n + 1].visited
        OBVIOUS
      <4>9. Holds(h[n + 1], Upto(n) \cup {m})
        BY <4>1, <4>3, <4>7, <4>8 DEF Ended
      <4> QED BY <3>1, <3>2, <4>9
    <3> QED BY <3>4, <3>5
  <2> HIDE DEF G
  <2> QED BY <1>1, <2>1, <2>2, UpTo
<1>16. found \in Results(edges) /\ Holds(found, Nodes(edges))
  <2>1. N \in 0..N
    BY <1>1
  <2> QED BY <1>1, <1>14, <1>15, <2>1 DEF V
<1>17. CASE found.cycle = <<>>
  <2>1. Settled(found.visited, edges) /\ Nodes(edges) \subseteq found.visited
    BY <1>16, <1>17
  <2>2. SUBSET {e.from : e \in ToSet(edges)} \subseteq SUBSET found.visited
    BY <1>1, <2>1 DEF Ends
  <2>3. ~HasCycle(edges)
    BY <2>1, <2>2 DEF HasCycle, Settled, Edges
  <2> QED BY <1>2, <1>16, <1>17, <2>3 DEF Results
<1>18. CASE found.cycle # <<>>
  BY <1>2, <1>16, <1>18 DEF Results
<1> QED BY <1>17, <1>18

-----------------------------------------------------------------------------
(* What batches exchange *)

SwapsInv ==
  /\ requests \in Seq(Requests)
  /\ owner = [s \in DOMAIN owner |-> owner[s]]
  /\ DOMAIN owner \subseteq Slots /\ IsFiniteSet(DOMAIN owner)
  /\ \A s \in DOMAIN owner : owner[s] \in Owners \cup {Nobody}

LEMMA RequestsAre ==
  \A r \in Requests : r.from \in Slots /\ r.to \in Slots /\ r.user \in Owners
BY SlotSwapsAssumption

LEMMA SwapsStart == SInit => SwapsInv
<1> SUFFICES ASSUME SInit PROVE SwapsInv
  OBVIOUS
<1>1. owner \in Holdings /\ IsFiniteSet(DOMAIN owner)
  BY SlotSwapsAssumption DEF SInit
<1>2. PICK S \in SUBSET Slots : owner \in [S -> Owners \cup {Nobody}]
  BY <1>1, SlotSwapsAssumption
<1>3. requests \in Seq(Requests)
  BY DEF SInit
<1> QED BY <1>1, <1>2, <1>3 DEF SwapsInv

LEMMA SequenceOfPart ==
  ASSUME NEW T, NEW s \in Seq(T), NEW U, ToSet(s) \subseteq U
  PROVE  s \in Seq(U)
<1> DEFINE n == Len(s)
<1>1. n \in Nat /\ DOMAIN s = 1..n /\ s = [k \in 1..n |-> s[k]]
  OBVIOUS
<1>2. \A k \in 1..n : s[k] \in U
  BY <1>1 DEF ToSet
<1> HIDE DEF n
<1>3. s \in [1..n -> U]
  BY <1>1, <1>2
<1> QED BY <1>1, <1>3


\* The edges of the graph of slots and those of the graph of owners.
SlotEdges == {[from |-> r.from, to |-> r.to, request |-> r] : r \in Requests}
OwnerEdges ==
  {[from |-> owner[r.from], to |-> owner[r.to], request |-> r] :
     r \in {q \in Requests : {q.from, q.to} \subseteq DOMAIN owner}}

LEMMA GraphsAre ==
  ASSUME SwapsInv
  PROVE  BuildGraph(requests) \in Seq(SlotEdges) /\ BuildOwnerGraph(requests) \in Seq(OwnerEdges)
<1>1. requests \in Seq(Requests)
  BY DEF SwapsInv
<1>2. BuildGraph(requests) \in Seq(SlotEdges)
  <2> DEFINE n == Len(requests)
             graph == BuildGraph(requests)
  <2>1. n \in Nat /\ DOMAIN requests = 1..n /\ \A i \in 1..n : requests[i] \in Requests
    BY <1>1
  <2>2. graph = [i \in 1..n |-> [from |-> requests[i].from, to |-> requests[i].to, request |-> requests[i]]]
    BY <2>1 DEF BuildGraph
  <2> HIDE DEF n, graph
  <2>3. graph \in [1..n -> SlotEdges]
    BY <2>1, <2>2 DEF SlotEdges
  <2> QED BY <2>1, <2>3 DEF graph
<1>3. BuildOwnerGraph(requests) \in Seq(OwnerEdges)
  <2> DEFINE P == {k \in DOMAIN requests : {requests[k].from, requests[k].to} \subseteq DOMAIN owner}
             saved == {q \in Requests : {q.from, q.to} \subseteq DOMAIN owner}
             about == AtPlaces(requests, P)
             n == Len(about)
             graph == BuildOwnerGraph(requests)
  <2>1. graph = [i \in DOMAIN about |-> [from |-> owner[about[i].from], to |-> owner[about[i].to],
                                        request |-> about[i]]]
    BY DEF BuildOwnerGraph
  <2>2. P \in SUBSET DOMAIN requests /\ {requests[k] : k \in P} \subseteq saved
    BY <1>1
  <2> HIDE DEF P, graph
  <2>3. about \in Seq(Requests) /\ ToSet(about) = {requests[k] : k \in P}
    BY <1>1, <2>2, PlacesPicked
  <2> HIDE DEF about
  <2>4. n \in Nat /\ DOMAIN about = 1..n /\ \A i \in 1..n : about[i] \in saved
    <3> HIDE DEF saved
    <3>1. n \in Nat /\ DOMAIN about = 1..n
      BY <2>3
    <3>2. \A i \in 1..n : about[i] \in ToSet(about)
      BY <3>1 DEF ToSet
    <3> QED BY <2>2, <2>3, <3>1, <3>2
  <2> HIDE DEF n, saved
  <2>5. \A i \in 1..n : graph[i] \in OwnerEdges
    <3> SUFFICES ASSUME NEW i \in 1..n PROVE graph[i] \in OwnerEdges
      OBVIOUS
    <3>1. /\ about[i] \in saved
          /\ graph[i] = [from |-> owner[about[i].from], to |-> owner[about[i].to], request |-> about[i]]
      BY <2>1, <2>4
    <3> QED BY <3>1 DEF OwnerEdges, saved
  <2>6. graph \in [1..n -> OwnerEdges]
    <3>1. graph = [i \in 1..n |-> graph[i]]
      BY <2>1, <2>4
    <3> QED BY <2>5, <3>1
  <2> QED BY <2>4, <2>6 DEF graph
<1> QED BY <1>2, <1>3

\* An intersection has edges of the graph that the other graph has too.
LEMMA IntersectionIsPart ==
  ASSUME NEW T, NEW edges \in Seq(T), NEW pairs
  PROVE  Intersection(edges, pairs) \in Seq({e \in T : <<e.from, e.to>> \in pairs})
<1> DEFINE nodes == NodesInOrder(edges)
           N == Len(nodes)
           shared == {e \in T : <<e.from, e.to>> \in pairs}
           V == Seq(shared)
           P(n) == {k \in DOMAIN edges :
                      edges[k].from = n /\ <<edges[k].from, edges[k].to>> \in pairs}
           With(v, k) == v \o AtPlaces(edges, P(nodes[k]))
           base == <<>>
           g == [x \in (1..N) \X V |-> With(x[2], x[1])]
           D == DOMAIN nodes
           adds(it) == it = [S \in SUBSET D |->
             IF S = {} THEN base ELSE With(it[S \ {Max(S)}], Max(S))]
           fold == CHOOSE it : adds(it)
<1>1. N \in Nat /\ D = 1..N
  <2>1. nodes \in Seq(Nodes(edges))
    BY NodesAreListed DEF Distinct
  <2> QED BY <2>1
<1>2. Intersection(edges, pairs) = fold[D]
  BY DEF Intersection, FoldLeft, MapThenFoldSet
<1> HIDE DEF nodes
<1>3. base \in V /\ \A v \in V, k \in 1..N : With(v, k) \in V
  <2>1. \A n : AtPlaces(edges, P(n)) \in V
    <3> SUFFICES ASSUME NEW n PROVE AtPlaces(edges, P(n)) \in V
      OBVIOUS
    <3>1. P(n) \in SUBSET DOMAIN edges /\ \A k \in P(n) : edges[k] \in shared
      OBVIOUS
    <3> HIDE DEF P, shared
    <3> DEFINE some == AtPlaces(edges, P(n))
    <3>2. some \in Seq(T) /\ ToSet(some) = {edges[k] : k \in P(n)}
      BY <3>1, PlacesPicked
    <3> HIDE DEF some
    <3>3. ToSet(some) \subseteq shared
      BY <3>1, <3>2
    <3>4. some \in Seq(shared)
      BY <3>2, <3>3, SequenceOfPart
    <3> QED BY <3>4 DEF some
  <2> HIDE DEF P, shared
  <2>2. base \in V
    OBVIOUS
  <2>3. \A v, w \in V : v \o w \in V
    OBVIOUS
  <2> QED BY <2>1, <2>2, <2>3
<1> HIDE DEF P, shared
<1> HIDE DEF N, V, With, base
<1>4. g \in [(1..N) \X V -> V] /\ \A k \in 1..N, v \in V : g[<<k, v>>] = With(v, k)
  BY <1>3
<1> HIDE DEF g
<1>5. PICK step \in [SUBSET (1..N) -> V] : Folds(step, base, g, N)
  BY <1>1, <1>3, <1>4, FoldExists
<1>6. adds(step)
  <2>1. ASSUME NEW S \in SUBSET (1..N)
        PROVE  step[S] = IF S = {} THEN base ELSE With(step[S \ {Max(S)}], Max(S))
    <3>1. S \ {Max(S)} \in SUBSET (1..N)
      OBVIOUS
    <3>2. step[S] = IF S = {} THEN base ELSE g[<<Max(S), step[S \ {Max(S)}]>>]
      BY <1>5 DEF Folds
    <3>3. step[S \ {Max(S)}] \in V
      BY <1>5, <3>1
    <3>4. S # {} => Max(S) \in 1..N
      BY <1>1, LastPlace
    <3> HIDE DEF Max
    <3> QED BY <1>4, <3>2, <3>3, <3>4
  <2> QED BY <1>1, <1>5, <2>1
<1> HIDE DEF adds
<1>7. adds(fold)
  BY <1>6
<1> HIDE DEF fold
<1>8. Steps(fold, base, g, N, V)
  <2>1. fold[{}] = base
    BY <1>7 DEF adds
  <2>2. ASSUME NEW S \in (SUBSET (1..N)) \ {{}}, fold[S \ {Max(S)}] \in V
        PROVE  fold[S] = g[<<Max(S), fold[S \ {Max(S)}]>>]
    <3>1. fold[S] = With(fold[S \ {Max(S)}], Max(S))
      BY <1>1, <1>7 DEF adds
    <3>2. Max(S) \in 1..N
      BY <1>1, LastPlace
    <3> QED BY <1>4, <2>2, <3>1, <3>2
  <2> QED BY <2>1, <2>2 DEF Steps
<1>9. /\ fold[1..0] = base /\ \A n \in 0..N : fold[1..n] \in V
      /\ \A n \in 1..N : fold[1..n] = g[<<n, fold[1..(n - 1)]>>]
  <2>1. N \in Nat /\ base \in V /\ g \in [(1..N) \X V -> V]
    BY <1>1, <1>3, <1>4
  <2>2. InTurn(fold, base, g, N, V)
    BY <1>8, <2>1, FoldsInTurn
  <2> QED BY <2>2 DEF InTurn
<1>10. fold[1..N] \in V /\ D = 1..N
  <2>1. N \in 0..N
    BY <1>1
  <2> QED BY <1>1, <1>9, <2>1
<1> QED BY <1>2, <1>10 DEF V, shared

\* A batch has requests that were asked for.
LEMMA BatchIsAsked ==
  ASSUME SwapsInv, NEW by
  PROVE  DependentRequests(by) \subseteq Requests
<1> DEFINE graph == IF by = "slots" THEN BuildGraph(requests)
                    ELSE Intersection(BuildOwnerGraph(requests), eligible)
           cycle == FindFirstCycle(graph)
<1>1. DependentRequests(by) = {e.request : e \in ToSet(cycle)}
  BY DEF DependentRequests
<1>2. ASSUME NEW T, graph \in Seq(T), \A e \in T : e.request \in Requests
      PROVE  {e.request : e \in ToSet(cycle)} \subseteq Requests
  <2> HIDE DEF graph
  <2>1. cycle \in Seq(Edges(graph))
    BY <1>2, FirstCycleIsFound
  <2> HIDE DEF cycle
  <2>2. ToSet(cycle) \subseteq T
    BY <1>2, <2>1 DEF Edges, ToSet
  <2> QED BY <1>2, <2>2
<1>3. CASE by = "slots"
  <2>1. graph \in Seq(SlotEdges)
    BY <1>3, GraphsAre
  <2>2. \A e \in SlotEdges : e.request \in Requests
    BY DEF SlotEdges
  <2> HIDE DEF graph, cycle
  <2> QED BY <1>1, <1>2, <2>1, <2>2
<1>4. CASE by # "slots"
  <2>1. BuildOwnerGraph(requests) \in Seq(OwnerEdges)
    BY GraphsAre
  <2>2. graph \in Seq({e \in OwnerEdges : <<e.from, e.to>> \in eligible})
    BY <1>4, <2>1, IntersectionIsPart
  <2>3. \A e \in OwnerEdges : e.request \in Requests
    BY DEF OwnerEdges
  <2> HIDE DEF graph, cycle
  <2> QED BY <1>1, <1>2, <2>2, <2>3
<1> QED BY <1>3, <1>4

\* What is left of the requests.
LeftOver(batch) == AtPlaces(requests, {k \in DOMAIN requests : requests[k] \notin batch})

LEMMA LeftOverIs ==
  ASSUME SwapsInv, NEW batch
  PROVE  LeftOver(batch) \in Seq(Requests) /\ (batch = {} => Len(LeftOver(batch)) = Len(requests))
<1> DEFINE P == {k \in DOMAIN requests : requests[k] \notin batch}
           rest == AtPlaces(requests, P)
<1>1. requests \in Seq(Requests) /\ P \in SUBSET DOMAIN requests
  BY DEF SwapsInv
<1>2. batch = {} => P = 1..Len(requests)
  BY <1>1
<1>3. Len(requests) \in Nat
  BY <1>1
<1> HIDE DEF P
<1>4. rest \in Seq(Requests) /\ Len(rest) = Cardinality(P)
  BY <1>1, PlacesPicked
<1>5. Cardinality(1..Len(requests)) = Len(requests)
  <2> DEFINE n == Len(requests)
  <2>1. 1 \in Int /\ n \in Int /\ n \in Nat
    BY <1>3
  <2> HIDE DEF n
  <2>2. Cardinality(1..n) = IF 1 > n THEN 0 ELSE n - 1 + 1
    BY <2>1, FS_Interval
  <2>3. Cardinality(1..n) = n
    BY <2>1, <2>2
  <2> QED BY <2>3 DEF n
<1> QED BY <1>2, <1>4, <1>5 DEF P, LeftOver

LEMMA SwapsStep == SwapsInv /\ [SNext]_svars => SwapsInv'
<1> SUFFICES ASSUME SwapsInv, [SNext]_svars PROVE SwapsInv'
  OBVIOUS
<1>1. ASSUME NEW r \in Requests, Ask(r) PROVE SwapsInv'
  BY <1>1 DEF Ask, SwapsInv
<1>2. ASSUME NEW t \in Transfers, MarkTransferEligible(t) \/ MarkTransferIneligible(t) PROVE SwapsInv'
  BY <1>2 DEF MarkTransferEligible, MarkTransferIneligible, SwapsInv
<1>3. ASSUME NEW by, NEW copies, Execute(by, copies) PROVE SwapsInv'
  <2> DEFINE batch == DependentRequests(by)
  <2>1. /\ owner' = Saved(batch, copies)
        /\ requests' = LeftOver(batch)
    BY <1>3 DEF Execute, LeftOver
  <2>2. batch \subseteq Requests
    BY BatchIsAsked
  <2> HIDE DEF batch
  <2>3. requests' \in Seq(Requests)
    BY <2>1, LeftOverIs
  <2>4. ASSUME NEW s \in DOMAIN owner PROVE Reassigned(batch)[s] \in Owners \cup {Nobody}
    <3>1. CASE \E r \in batch : r.to = s
      <4> DEFINE r == CHOOSE q \in batch : q.to = s
      <4>1. Reassigned(batch)[s] = r.user /\ r \in batch
        BY <3>1 DEF Reassigned
      <4> HIDE DEF r
      <4> QED BY <2>2, <4>1, RequestsAre
    <3> QED BY <3>1 DEF Reassigned, SwapsInv
  <2> QED BY <2>1, <2>3, <2>4 DEF Saved, SwapsInv
<1>4. CASE UNCHANGED svars
  BY <1>4 DEF svars, SwapsInv
<1> QED BY <1>1, <1>2, <1>3, <1>4 DEF SNext

LEMMA CyclesFoundAlways == SwapsInv => CyclesAreFound
<1> SUFFICES ASSUME SwapsInv,
                    NEW edges \in {BuildGraph(requests),
                                  Intersection(BuildOwnerGraph(requests), eligible)}
             PROVE  IF FindFirstCycle(edges) = <<>> THEN ~HasCycle(edges)
                    ELSE IsCycle(FindFirstCycle(edges), edges)
  BY DEF CyclesAreFound
<1>1. CASE edges = BuildGraph(requests)
  <2>1. edges \in Seq(SlotEdges)
    BY <1>1, GraphsAre
  <2> QED BY <2>1, FirstCycleIsFound
<1>2. CASE edges = Intersection(BuildOwnerGraph(requests), eligible)
  <2>1. BuildOwnerGraph(requests) \in Seq(OwnerEdges)
    BY GraphsAre
  <2>2. edges \in Seq({e \in OwnerEdges : <<e.from, e.to>> \in eligible})
    BY <1>2, <2>1, IntersectionIsPart
  <2> QED BY <2>2, FirstCycleIsFound
<1> QED BY <1>1, <1>2

\* Every slot that is left is entered, and no slot is left or entered twice.
Ring(batch) ==
  /\ \A r, q \in batch : r.from = q.from => r = q
  /\ \A r, q \in batch : r.to = q.to => r = q
  /\ {r.from : r \in batch} = {r.to : r \in batch}

\* The requests of a batch follow one another back to the first.
GoRound(m, q, batch) ==
  /\ \A i \in 1..m : q[i] \in batch
  /\ \A r \in batch : \E i \in 1..m : r = q[i]
  /\ \A i, j \in 1..m : q[i].from = q[j].from => i = j
  /\ \A i \in 1..m : q[i].to = q[IF i = m THEN 1 ELSE i + 1].from

LEMMA StepsOfRing ==
  ASSUME NEW m \in Nat, NEW q, NEW batch, GoRound(m, q, batch)
  PROVE  Ring(batch)
<1> USE DEF GoRound
<1> DEFINE next(i) == IF i = m THEN 1 ELSE i + 1
<1>1. \A i \in 1..m : next(i) \in 1..m
  OBVIOUS
<1>2. \A i, j \in 1..m : next(i) = next(j) => i = j
  OBVIOUS
<1>3. \A j \in 1..m : \E i \in 1..m : next(i) = j
  <2> SUFFICES ASSUME NEW j \in 1..m PROVE \E i \in 1..m : next(i) = j
    OBVIOUS
  <2>1. CASE j = 1
    <3>1. m \in 1..m /\ next(m) = j
      BY <2>1
    <3> QED BY <3>1
  <2>2. CASE j # 1
    <3>1. j - 1 \in 1..m /\ next(j - 1) = j
      BY <2>2
    <3> QED BY <3>1
  <2> QED BY <2>1, <2>2
<1>4. \A i \in 1..m : q[i].to = q[next(i)].from
  OBVIOUS
<1> HIDE DEF next
<1>5. \A r, s \in batch : r.from = s.from => r = s
  OBVIOUS
<1>6. \A r, s \in batch : r.to = s.to => r = s
  <2> SUFFICES ASSUME NEW i \in 1..m, NEW j \in 1..m, q[i].to = q[j].to PROVE q[i] = q[j]
    OBVIOUS
  <2>1. next(i) \in 1..m /\ next(j) \in 1..m
    BY <1>1
  <2>2. q[next(i)].from = q[next(j)].from
    BY <1>4
  <2>3. next(i) = next(j)
    BY <2>1, <2>2
  <2> QED BY <1>2, <2>3
<1>7. \A r \in batch : \E s \in batch : r.to = s.from
  BY <1>1, <1>4
<1>8. \A r \in batch : \E s \in batch : s.to = r.from
  BY <1>3, <1>4
<1>9. {r.from : r \in batch} = {r.to : r \in batch}
  <2>1. \A r \in batch : r.from \in {s.to : s \in batch}
    BY <1>8
  <2>2. \A r \in batch : r.to \in {s.from : s \in batch}
    BY <1>7
  <2> QED BY <2>1, <2>2
<1> QED BY <1>5, <1>6, <1>9 DEF Ring

\* A ring of requests by those who own what they leave.
Owned(batch) ==
  /\ Ring(batch)
  /\ \A r \in batch : {r.from, r.to} \subseteq DOMAIN owner /\ owner[r.from] = r.user

LEMMA ReassignedRing ==
  ASSUME NEW batch, Owned(batch), NEW s \in DOMAIN owner
  PROVE  /\ \A r \in batch : r.to = s => Reassigned(batch)[s] = r.user
         /\ (\A r \in batch : r.from # s) => Reassigned(batch)[s] = owner[s]
<1>1. ASSUME NEW r \in batch, r.to = s PROVE Reassigned(batch)[s] = r.user
  <2> DEFINE q == CHOOSE x \in batch : x.to = s
  <2>1. q \in batch /\ q.to = s /\ Reassigned(batch)[s] = q.user
    BY <1>1 DEF Reassigned
  <2> HIDE DEF q
  <2>2. q = r
    BY <1>1, <2>1 DEF Owned, Ring
  <2> QED BY <2>1, <2>2
<1>2. ASSUME \A r \in batch : r.from # s PROVE Reassigned(batch)[s] = owner[s]
  <2>1. s \notin {r.from : r \in batch}
    BY <1>2
  <2>2. s \notin {r.to : r \in batch}
    BY <2>1 DEF Owned, Ring
  <2>3. \A r \in batch : r.to # s
    BY <2>2
  <2> QED BY <1>2, <2>3 DEF Reassigned
<1> QED BY <1>1, <1>2

\* With ids of their own, the slots of a ring are loaded twice and stay as they were.
LEMMA CopiesWin ==
  ASSUME SwapsInv, NEW batch, Owned(batch)
  PROVE  Saved(batch, "byObject") = owner
<1> DEFINE saved == Saved(batch, "byObject")
           left(s) == {r \in batch : r.from = s}
           entered(s) == {r \in batch : r.to = s}
<1>1. ASSUME NEW s \in DOMAIN owner PROVE saved[s] = owner[s]
  <2>1. saved[s] = IF Cardinality(left(s)) + Cardinality(entered(s)) > 1
                   THEN owner[s] ELSE Reassigned(batch)[s]
    BY DEF Saved
  <2>2. CASE \A r \in batch : r.from # s
    <3>1. Reassigned(batch)[s] = owner[s]
      BY <2>2, ReassignedRing
    <3> QED BY <2>1, <3>1
  <2>3. CASE \E r \in batch : r.from = s
    <3>1. PICK r \in batch : r.from = s
      BY <2>3
    <3>2. s \in {x.to : x \in batch}
      <4>1. s \in {x.from : x \in batch}
        BY <3>1
      <4> QED BY <4>1 DEF Owned, Ring
    <3>3. PICK q \in batch : q.to = s
      BY <3>2
    <3>4. left(s) = {r} /\ entered(s) = {q}
      BY <3>1, <3>3 DEF Owned, Ring
    <3>5. Cardinality({r}) = 1 /\ Cardinality({q}) = 1
      BY FS_Singleton
    <3> HIDE DEF left, entered
    <3>6. Cardinality(left(s)) + Cardinality(entered(s)) > 1
      BY <3>4, <3>5
    <3> QED BY <2>1, <3>6
  <2> QED BY <2>2, <2>3
<1>2. saved = [s \in DOMAIN owner |-> saved[s]]
  BY DEF Saved
<1> HIDE DEF saved
<1>3. [s \in DOMAIN owner |-> saved[s]] = [s \in DOMAIN owner |-> owner[s]]
  BY <1>1
<1>4. owner = [s \in DOMAIN owner |-> owner[s]]
  BY DEF SwapsInv
<1> QED BY <1>2, <1>3, <1>4 DEF saved

\* Everybody has as many slots after a ring has been carried out as before.
LEMMA RingKeepsShares ==
  ASSUME SwapsInv, NEW batch, Owned(batch), NEW after, after = Reassigned(batch), NEW o
  PROVE  Cardinality(SlotsOf(o)) = Cardinality({s \in DOMAIN after : after[s] = o})
<1> DEFINE had == SlotsOf(o)
           has == {s \in DOMAIN after : after[s] = o}
           moved(s) == IF \E r \in batch : r.from = s
                         THEN (CHOOSE r \in batch : r.from = s).to ELSE s
           move == [s \in had |-> moved(s)]
<1>1. DOMAIN after = DOMAIN owner /\ had = {s \in DOMAIN owner : owner[s] = o}
  BY DEF Reassigned, SlotsOf
<1>2. /\ \A r, q \in batch : r.from = q.from => r = q
      /\ \A r, q \in batch : r.to = q.to => r = q
      /\ \A r \in batch : \E q \in batch : q.from = r.to
      /\ \A r \in batch : /\ r.from \in DOMAIN owner /\ r.to \in DOMAIN owner
                         /\ owner[r.from] = r.user /\ after[r.to] = r.user
  <2>1. {r.from : r \in batch} = {r.to : r \in batch}
    BY DEF Owned, Ring
  <2>2. \A r \in batch : \E q \in batch : q.from = r.to
    <3> SUFFICES ASSUME NEW r \in batch PROVE \E q \in batch : q.from = r.to
      OBVIOUS
    <3>1. r.to \in {q.from : q \in batch}
      BY <2>1
    <3> QED BY <3>1
  <2>3. ASSUME NEW r \in batch PROVE after[r.to] = r.user
    BY ReassignedRing DEF Owned
  <2> QED BY <2>2, <2>3 DEF Owned, Ring
<1>3. \A s \in DOMAIN owner : (\A r \in batch : r.from # s) => after[s] = owner[s]
  BY ReassignedRing
<1>4. ASSUME NEW s \in DOMAIN owner
      PROVE  \/ /\ \A r \in batch : r.from # s
                /\ moved(s) = s
             \/ \E r \in batch : r.from = s /\ moved(s) = r.to
  <2>1. CASE \E r \in batch : r.from = s
    <3> DEFINE r == CHOOSE q \in batch : q.from = s
    <3>1. r \in batch /\ r.from = s /\ moved(s) = r.to
      BY <2>1
    <3> HIDE DEF r, moved
    <3> QED BY <3>1
  <2>2. CASE ~(\E r \in batch : r.from = s)
    BY <2>2
  <2> QED BY <2>1, <2>2
<1> HIDE DEF moved, had, has
<1>5. \A s \in had : s \in DOMAIN owner /\ owner[s] = o
  BY <1>1
<1>6. \A s \in DOMAIN owner : s \in has <=> after[s] = o
  BY <1>1 DEF has
<1>7. ASSUME NEW s \in had PROVE moved(s) \in has
  <2>1. CASE (\A r \in batch : r.from # s) /\ moved(s) = s
    BY <1>3, <1>5, <1>6, <2>1
  <2>2. CASE \E r \in batch : r.from = s /\ moved(s) = r.to
    BY <1>2, <1>5, <1>6, <2>2
  <2> QED BY <1>4, <1>5, <2>1, <2>2
<1>8. ASSUME NEW s \in had, NEW t \in had, moved(s) = moved(t) PROVE s = t
  <2>1. /\ \/ (\A r \in batch : r.from # s) /\ moved(s) = s
           \/ \E r \in batch : r.from = s /\ moved(s) = r.to
        /\ \/ (\A r \in batch : r.from # t) /\ moved(t) = t
           \/ \E r \in batch : r.from = t /\ moved(t) = r.to
    BY <1>4, <1>5
  <2> QED BY <1>2, <1>8, <2>1
<1>9. ASSUME NEW t \in has PROVE \E s \in had : moved(s) = t
  <2>1. t \in DOMAIN owner /\ after[t] = o
    BY <1>1 DEF has
  <2>2. CASE \E r \in batch : r.to = t
    <3>1. PICK r \in batch : r.to = t
      BY <2>2
    <3>2. r.from \in DOMAIN owner /\ owner[r.from] = o
      BY <1>2, <2>1, <3>1
    <3>3. r.from \in had
      BY <1>1, <3>2
    <3>4. moved(r.from) = t
      BY <1>2, <1>4, <3>1, <3>2
    <3> QED BY <3>3, <3>4
  <2>3. CASE \A r \in batch : r.to # t
    <3>1. \A r \in batch : r.from # t
      <4>1. t \notin {r.to : r \in batch}
        BY <2>3
      <4>2. t \notin {r.from : r \in batch}
        BY <4>1 DEF Owned, Ring
      <4> QED BY <4>2
    <3>2. t \in had /\ moved(t) = t
      BY <1>1, <1>3, <1>4, <2>1, <3>1
    <3> QED BY <3>2
  <2> QED BY <2>2, <2>3
<1>10. move \in Surjection(had, has) /\ move \in Injection(had, has)
  <2>1. move \in [had -> has]
    BY <1>7
  <2>2. \A s \in had : move[s] = moved(s)
    OBVIOUS
  <2> HIDE DEF move
  <2> QED BY <1>8, <1>9, <2>1, <2>2 DEF Surjection, Injection, IsInjective
<1>11. IsFiniteSet(had)
  <2>1. had \in SUBSET DOMAIN owner /\ IsFiniteSet(DOMAIN owner)
    BY <1>1 DEF SwapsInv
  <2> QED BY <2>1, FS_Subset
<1> HIDE DEF move
<1>12. Cardinality(has) = Cardinality(had)
  BY <1>10, <1>11, FS_Surjection
<1> QED BY <1>12 DEF had, has

\* The requests of a cycle of slots; and of a cycle of owners, where those who move
\* own what they leave and nobody has two slots.
LEMMA BatchIsRing ==
  ASSUME SwapsInv, NEW by, NEW batch, batch = DependentRequests(by), batch # {},
         Exchange(batch, by)
  PROVE  Owned(batch)
<1> DEFINE graph == IF by = "slots" THEN BuildGraph(requests)
                    ELSE Intersection(BuildOwnerGraph(requests), eligible)
           cycle == FindFirstCycle(graph)
           m == Len(cycle)
           q == [i \in 1..m |-> cycle[i].request]
           next(i) == IF i = m THEN 1 ELSE i + 1
           T == IF by = "slots" THEN SlotEdges ELSE {e \in OwnerEdges : <<e.from, e.to>> \in eligible}
<1>1. batch = {e.request : e \in ToSet(cycle)}
  BY DEF DependentRequests
<1>2. graph \in Seq(T)
  <2>1. BuildGraph(requests) \in Seq(SlotEdges) /\ BuildOwnerGraph(requests) \in Seq(OwnerEdges)
    BY GraphsAre
  <2> QED BY <2>1, IntersectionIsPart
<1> HIDE DEF graph, T
<1>3. cycle \in Seq(Edges(graph)) /\ (cycle # <<>> => IsCycle(cycle, graph))
  BY <1>2, FirstCycleIsFound
<1>4. cycle # <<>> /\ IsCycle(cycle, graph)
  <2> HIDE DEF cycle
  <2>1. ToSet(<<>>) = {}
    BY DEF ToSet
  <2>2. cycle # <<>>
    BY <1>1, <2>1
  <2> QED BY <1>3, <2>2
<1>5. Edges(graph) \subseteq T
  BY <1>2 DEF Edges, ToSet
<1> HIDE DEF cycle
<1>6. /\ m \in Nat /\ DOMAIN cycle = 1..m /\ \A i \in 1..m : cycle[i] \in T
      /\ \A i, j \in 1..m : cycle[i].from = cycle[j].from => i = j
      /\ \A i \in 1..m : cycle[i].to = cycle[next(i)].from
  <2>1. m \in Nat /\ DOMAIN cycle = 1..m
    BY <1>3
  <2>2. \A i \in 1..m : cycle[i] \in Edges(graph)
    <3> DEFINE E == Edges(graph)
    <3>1. cycle \in Seq(E)
      BY <1>3
    <3> HIDE DEF E
    <3>2. \A i \in 1..m : cycle[i] \in E
      BY <3>1, ElementOfSeq, Zenon
    <3> QED BY <3>2 DEF E
  <2> HIDE DEF T
  <2>3. \A i \in 1..m : cycle[i] \in T
    BY <1>5, <2>2
  <2> HIDE DEF m
  <2>4. /\ \A i, j \in 1..m : cycle[i].from = cycle[j].from => i = j
        /\ \A i \in 1..m : cycle[i].to = cycle[next(i)].from
    BY <1>4 DEF IsCycle, m
  <2> QED BY <2>1, <2>3, <2>4
<1> HIDE DEF m
<1>7. /\ \A i \in 1..m : q[i] = cycle[i].request /\ q[i] \in batch
      /\ \A r \in batch : \E i \in 1..m : r = q[i]
  <2>1. ToSet(cycle) = {cycle[i] : i \in 1..m}
    BY <1>6 DEF ToSet
  <2>2. \A i \in 1..m : q[i] = cycle[i].request
    OBVIOUS
  <2> HIDE DEF q
  <2> QED BY <1>1, <2>1, <2>2
<1>8. \A i \in 1..m : next(i) \in 1..m
  BY <1>6
<1>9. \A i \in 1..m : next(i) = IF i = m THEN 1 ELSE i + 1
  OBVIOUS
<1>10. \A r \in batch : {r.from, r.to} \subseteq DOMAIN owner /\ owner[r.from] = r.user
  BY DEF Exchange
<1> HIDE DEF q, next
<1>11. CASE by = "slots"
  <2>1. \A i \in 1..m : cycle[i].from = q[i].from /\ cycle[i].to = q[i].to
    <3>1. \A e \in T : e.from = e.request.from /\ e.to = e.request.to
      BY <1>11 DEF T, SlotEdges
    <3> QED BY <1>6, <1>7, <3>1
  <2>2. /\ \A i, j \in 1..m : q[i].from = q[j].from => i = j
        /\ \A i \in 1..m : q[i].to = q[next(i)].from
    BY <1>6, <1>8, <2>1
  <2>3. GoRound(m, q, batch)
    BY <1>7, <1>9, <2>2 DEF GoRound
  <2>4. Ring(batch)
    BY <1>6, <2>3, StepsOfRing
  <2> QED BY <1>7, <1>10, <2>4 DEF Owned
<1>12. CASE by # "slots"
  <2>1. \A i \in 1..m : /\ cycle[i].from = owner[q[i].from] /\ cycle[i].to = owner[q[i].to]
                       /\ q[i] \in Requests
    <3>1. \A e \in T : /\ e.from = owner[e.request.from] /\ e.to = owner[e.request.to]
                       /\ e.request \in Requests
      BY <1>12 DEF T, OwnerEdges
    <3> QED BY <1>6, <1>7, <3>1
  <2>2. \A o \in Owners, s, t \in DOMAIN owner : owner[s] = o /\ owner[t] = o => s = t
    <3> SUFFICES ASSUME NEW o \in Owners, NEW s \in SlotsOf(o), NEW t \in SlotsOf(o), s # t
                 PROVE  FALSE
      BY DEF SlotsOf
    <3>1. Cardinality(SlotsOf(o)) <= 1
      BY <1>12 DEF Exchange
    <3>2. IsFiniteSet(SlotsOf(o))
      <4>1. SlotsOf(o) \in SUBSET DOMAIN owner /\ IsFiniteSet(DOMAIN owner)
        BY DEF SlotsOf, SwapsInv
      <4> QED BY <4>1, FS_Subset
    <3>3. IsFiniteSet({s, t}) /\ Cardinality({s, t}) = 2
      <4>1. IsFiniteSet({s}) /\ Cardinality({s}) = 1
        BY FS_Singleton
      <4>2. t \notin {s} /\ {s} \cup {t} = {s, t}
        OBVIOUS
      <4>3. IsFiniteSet({s} \cup {t}) /\ Cardinality({s} \cup {t}) = Cardinality({s}) + 1
        BY <4>1, <4>2, FS_AddElement
      <4> QED BY <4>1, <4>2, <4>3
    <3>4. {s, t} \in SUBSET SlotsOf(o)
      OBVIOUS
    <3>5. Cardinality({s, t}) <= Cardinality(SlotsOf(o))
      BY <3>2, <3>4, FS_Subset
    <3> QED BY <3>1, <3>2, <3>3, <3>5, FS_CardinalityType
  <2>3. \A i \in 1..m : /\ q[i].from \in DOMAIN owner /\ q[i].to \in DOMAIN owner
                       /\ owner[q[i].from] \in Owners
    BY <1>7, <1>10, <2>1, RequestsAre
  <2>4. \A i \in 1..m : q[i].to = q[next(i)].from
    <3> SUFFICES ASSUME NEW i \in 1..m PROVE q[i].to = q[next(i)].from
      OBVIOUS
    <3>1. next(i) \in 1..m /\ cycle[i].to = cycle[next(i)].from
      BY <1>6, <1>8
    <3>2. owner[q[i].to] = owner[q[next(i)].from]
      BY <2>1, <3>1
    <3> QED BY <2>2, <2>3, <3>1, <3>2
  <2>5. \A i, j \in 1..m : q[i].from = q[j].from => i = j
    BY <1>6, <2>1
  <2>6. GoRound(m, q, batch)
    BY <1>7, <1>9, <2>4, <2>5 DEF GoRound
  <2>7. Ring(batch)
    BY <1>6, <2>6, StepsOfRing
  <2> QED BY <1>7, <1>10, <2>7 DEF Owned
<1> QED BY <1>11, <1>12

\* The requests of a cycle of owners are between those who may exchange slots.
LEMMA BatchIsEligible ==
  ASSUME SwapsInv, NEW batch, batch = DependentRequests("owners")
  PROVE  \A r \in batch : <<owner[r.from], owner[r.to]>> \in eligible
<1> DEFINE graph == Intersection(BuildOwnerGraph(requests), eligible)
           cycle == FindFirstCycle(graph)
           T == {e \in OwnerEdges : <<e.from, e.to>> \in eligible}
<1>1. batch = {e.request : e \in ToSet(cycle)}
  BY DEF DependentRequests
<1>2. graph \in Seq(T)
  BY GraphsAre, IntersectionIsPart
<1>3. \A e \in T : <<owner[e.request.from], owner[e.request.to]>> \in eligible
  BY DEF OwnerEdges
<1> HIDE DEF graph, T
<1>4. cycle \in Seq(Edges(graph))
  BY <1>2, FirstCycleIsFound
<1> HIDE DEF cycle
<1>5. ToSet(cycle) \subseteq T
  BY <1>2, <1>4 DEF Edges, ToSet
<1> QED BY <1>1, <1>3, <1>5

LEMMA ExecuteSwaps ==
  ASSUME SwapsInv, NEW by \in {"slots", "owners"}, NEW copies \in {"byObject", "shared"},
         Execute(by, copies), Swaps
  PROVE  AllOrNothing /\ OnlyEligible
<1> DEFINE batch == DependentRequests(by)
<1>1. /\ owner' = Saved(batch, copies) /\ requests' = LeftOver(batch)
      /\ result' = IF batch = {} THEN NoResult
                   ELSE [status |-> "SUCCESS", executed |-> batch, by |-> by]
  BY DEF Execute, LeftOver
<1> HIDE DEF batch
<1>2. batch # {}
  <2>1. Len(requests) \in Nat
    BY DEF SwapsInv
  <2> QED BY <1>1, <2>1, LeftOverIs DEF Swaps
<1>3. result'.executed = batch /\ result'.by = by
  BY <1>1, <1>2
<1>4. ASSUME Exchange(batch, by)
      PROVE  \/ UNCHANGED owner
             \/ /\ \A r \in batch : owner'[r.to] = r.user
                /\ \A o \in Owners : Cardinality(SlotsOf(o)) = Cardinality(SlotsOf(o)')
  <2>1. Owned(batch)
    BY <1>2, <1>4, BatchIsRing DEF batch
  <2>2. CASE copies = "byObject"
    BY <1>1, <2>1, <2>2, CopiesWin
  <2>3. CASE copies = "shared"
    <3> DEFINE after == Reassigned(batch)
    <3>1. owner' = after
      <4>1. after = [s \in DOMAIN owner |-> after[s]]
        BY DEF Reassigned
      <4>2. Saved(batch, copies) = [s \in DOMAIN owner |-> after[s]]
        BY <2>3 DEF Saved
      <4> QED BY <1>1, <4>1, <4>2
    <3>2. \A r \in batch : after[r.to] = r.user
      BY <2>1, ReassignedRing DEF Owned
    <3>3. \A o : Cardinality(SlotsOf(o)) = Cardinality({s \in DOMAIN after : after[s] = o})
      BY <2>1, RingKeepsShares
    <3> HIDE DEF after
    <3>4. \A o : SlotsOf(o)' = {s \in DOMAIN after : after[s] = o}
      BY <3>1 DEF SlotsOf
    <3> QED BY <3>1, <3>2, <3>3, <3>4
  <2> QED BY <2>2, <2>3
<1>5. AllOrNothing
  BY <1>3, <1>4 DEF AllOrNothing
<1>6. ASSUME by = "owners", \A r \in batch : owner[r.from] = r.user,
             NEW s \in DOMAIN owner, owner'[s] \notin {owner[s], Nobody}
      PROVE  <<owner'[s], owner[s]>> \in eligible
  <2>1. owner'[s] = Reassigned(batch)[s]
    BY <1>1, <1>6 DEF Saved
  <2>2. PICK r \in batch : r.to = s /\ owner'[s] = r.user
    <3>1. CASE \E r \in batch : r.to = s
      <4> DEFINE r == CHOOSE q \in batch : q.to = s
      <4>1. r \in batch /\ r.to = s /\ Reassigned(batch)[s] = r.user
        BY <3>1 DEF Reassigned
      <4> HIDE DEF r
      <4> QED BY <2>1, <4>1
    <3>2. CASE ~(\E r \in batch : r.to = s)
      BY <1>6, <2>1, <3>2 DEF Reassigned
    <3> QED BY <3>1, <3>2
  <2>3. <<owner[r.from], owner[r.to]>> \in eligible
    BY <1>6, BatchIsEligible DEF batch
  <2> QED BY <1>6, <2>2, <2>3
<1>7. OnlyEligible
  BY <1>3, <1>6 DEF OnlyEligible
<1> QED BY <1>5, <1>7

\* Only execute shortens the list of requests.
LEMMA StepSwaps ==
  ASSUME SwapsInv, SNext, Swaps
  PROVE  AllOrNothing /\ OnlyEligible
<1>1. Len(requests) \in Nat /\ requests \in Seq(Requests)
  BY DEF SwapsInv
<1>2. ASSUME NEW r \in Requests, Ask(r) PROVE FALSE
  BY <1>1, <1>2 DEF Ask, Swaps
<1>3. ASSUME NEW t \in Transfers, MarkTransferEligible(t) \/ MarkTransferIneligible(t) PROVE FALSE
  BY <1>1, <1>3 DEF MarkTransferEligible, MarkTransferIneligible, Swaps
<1>4. ASSUME NEW copies \in {"byObject", "shared"}, Execute("slots", copies)
      PROVE  AllOrNothing /\ OnlyEligible
  BY <1>4, ExecuteSwaps
<1>5. ASSUME NEW copies \in {"byObject", "shared"}, Execute("owners", copies)
      PROVE  AllOrNothing /\ OnlyEligible
  BY <1>5, ExecuteSwaps
<1> QED BY <1>2, <1>3, <1>4, <1>5 DEF SNext

-----------------------------------------------------------------------------

\* Whatever requests were collected and whatever is eligible, the search finds a
\* cycle of the graph if there is one (Graph.findFirstCycle).
THEOREM CyclesStayFound == SSpec => []CyclesAreFound
<1>1. SInit => SwapsInv
  BY SwapsStart
<1>2. SwapsInv /\ [SNext]_svars => SwapsInv'
  BY SwapsStep
<1>3. SwapsInv => CyclesAreFound
  BY CyclesFoundAlways
<1> QED BY <1>1, <1>2, <1>3, PTL DEF SSpec

\* Slots change hands in whole exchanges between owners who may exchange them, or
\* not at all, however many requests there are (BatchReservationUseCase.execute).
THEOREM SlotsStayExchanged == SSpec => SlotsAreExchanged
<1>1. SInit => SwapsInv
  BY SwapsStart
<1>2. SwapsInv /\ [SNext]_svars => SwapsInv'
  BY SwapsStep
<1>3. SwapsInv /\ [SNext]_svars => [Swaps => AllOrNothing /\ OnlyEligible]_svars
  BY StepSwaps
<1> QED BY <1>1, <1>2, <1>3, PTL DEF SSpec, SlotsAreExchanged

-----------------------------------------------------------------------------
(* What journeys keep *)

Transitions == [from : JourneyStates, on : Conditions, to : JourneyStates]
Legs == ToSet(transitions)

JourneyInv ==
  /\ Distinct(known, JourneyStates)
  /\ transitions \in Seq(Transitions)
  /\ \A e \in Legs : e.to \in ToSet(known)
  /\ current \in JourneyStates

LEMMA LegsAre ==
  ASSUME transitions \in Seq(Transitions), NEW e \in Legs
  PROVE  e \in Transitions /\ e.from \in JourneyStates /\ e.on \in Conditions /\ e.to \in JourneyStates
<1>1. PICK i \in DOMAIN transitions : e = transitions[i]
  BY DEF Legs, ToSet
<1>2. e \in Transitions
  BY <1>1
<1> QED BY <1>2 DEF Transitions

\* A transition of the state for the condition is taken, if there is one.
LEMMA AfterIs ==
  ASSUME transitions \in Seq(Transitions), NEW s, NEW c
  PROVE  \/ After(s, c) = s /\ \A e \in Legs : ~(e.from = s /\ e.on = c)
         \/ \E e \in Legs : e.from = s /\ e.on = c /\ After(s, c) = e.to
<1> DEFINE P == {i \in DOMAIN transitions : transitions[i].from = s /\ transitions[i].on = c}
           taken == AtPlaces(transitions, P)
<1>1. After(s, c) = IF taken = <<>> THEN s ELSE taken[1].to
  BY DEF After
<1>2. P \in SUBSET DOMAIN transitions
  OBVIOUS
<1>3. \A e : e \in {transitions[k] : k \in P} <=> e \in Legs /\ e.from = s /\ e.on = c
  BY DEF Legs, ToSet
<1> HIDE DEF P
<1>4. taken \in Seq(Transitions) /\ ToSet(taken) = {transitions[k] : k \in P}
  BY <1>2, PlacesPicked
<1> HIDE DEF taken
<1>5. CASE taken = <<>>
  <2>1. ToSet(taken) = {}
    BY <1>5 DEF ToSet
  <2> QED BY <1>1, <1>3, <1>4, <1>5, <2>1
<1>6. CASE taken # <<>>
  <2>1. taken[1] \in ToSet(taken)
    <3>1. 1 \in DOMAIN taken
      BY <1>4, <1>6
    <3> QED BY <3>1 DEF ToSet
  <2> QED BY <1>1, <1>3, <1>4, <1>6, <2>1
<1> QED BY <1>5, <1>6

LEMMA JourneyStart == JInit => JourneyInv
<1> SUFFICES ASSUME JInit PROVE JourneyInv
  OBVIOUS
<1>1. \A T : Distinct(<<>>, T) /\ ToSet(<<>>) = {}
  BY DEF Distinct, IsInjective, ToSet
<1>2. <<>> \in Seq(Transitions)
  OBVIOUS
<1> QED BY <1>1, <1>2 DEF JInit, JourneyInv, Legs

LEMMA JourneyStep == JourneyInv /\ [JNext]_jvars => JourneyInv'
<1> SUFFICES ASSUME JourneyInv, [JNext]_jvars PROVE JourneyInv'
  OBVIOUS
<1> USE DEF JourneyInv, Legs
<1>1. ASSUME NEW s \in JourneyStates, From(s) PROVE JourneyInv'
  <2>1. known' = Including(known, s) /\ UNCHANGED <<transitions, current>>
    BY <1>1 DEF From
  <2>2. Distinct(known', JourneyStates) /\ ToSet(known') = ToSet(known) \cup {s}
    BY <2>1, IncludingAdds
  <2> QED BY <2>1, <2>2
<1>2. ASSUME NEW s \in JourneyStates, NEW t \in JourneyStates, NEW c \in Conditions, GoTo(s, c, t)
      PROVE  JourneyInv'
  <2> DEFINE with == Including(known, s)
             e == [from |-> s, on |-> c, to |-> t]
  <2>1. /\ known' = Including(with, t) /\ transitions' = Append(transitions, e)
        /\ UNCHANGED current
    BY <1>2 DEF GoTo
  <2>2. Distinct(with, JourneyStates) /\ ToSet(with) = ToSet(known) \cup {s}
    BY IncludingAdds
  <2> HIDE DEF with
  <2>3. Distinct(known', JourneyStates) /\ ToSet(known') = ToSet(with) \cup {t}
    BY <2>1, <2>2, IncludingAdds
  <2>4. e \in Transitions /\ e.to = t
    BY DEF Transitions
  <2> HIDE DEF e
  <2>5. transitions' \in Seq(Transitions) /\ ToSet(transitions') = ToSet(transitions) \cup {e}
    <3>1. OneLonger(transitions', transitions, e, Transitions)
      BY <2>1, <2>4, AppendedPlaces
    <3>2. Len(transitions) \in Nat
      OBVIOUS
    <3>3. 1..(Len(transitions) + 1) = (1..Len(transitions)) \cup {Len(transitions) + 1}
          /\ Len(transitions) + 1 \notin 1..Len(transitions)
      BY <3>2
    <3> QED BY <3>1, <3>3 DEF OneLonger, ToSet
  <2> QED BY <2>1, <2>2, <2>3, <2>4, <2>5
<1>3. ASSUME NEW c \in Conditions, OnFulfilled(c) PROVE JourneyInv'
  <2>1. current' = After(current, c) /\ UNCHANGED <<known, transitions>>
    BY <1>3 DEF OnFulfilled
  <2>2. \A e \in ToSet(transitions) : e.to \in JourneyStates
    BY LegsAre
  <2>3. current' \in JourneyStates
    BY <2>1, <2>2, AfterIs
  <2> QED BY <2>1, <2>3
<1>4. CASE UNCHANGED jvars
  BY <1>4 DEF jvars
<1> QED BY <1>1, <1>2, <1>3, <1>4 DEF JNext

-----------------------------------------------------------------------------
(* The weight of a way *)

\* The weights of a way add up to h, condition by condition.
Weighs(h, path, weight) ==
  /\ h \in [0..Len(path) -> Nat]
  /\ h[0] = 0 /\ h[Len(path)] = PathWeight(path, weight)
  /\ \A k \in 0..Len(path) : k < Len(path) =>
       k + 1 \in 1..Len(path) /\ h[k + 1] = h[k] + weight[path[k + 1]]

LEMMA WeightsAdd ==
  ASSUME NEW path \in Seq(Conditions), NEW weight \in [Conditions -> Nat]
  PROVE  \E h : Weighs(h, path, weight)
<1> DEFINE N == Len(path)
           V == Nat
           base == 0
           With(v, k) == v + weight[path[k]]
           g == [x \in (1..N) \X V |-> With(x[2], x[1])]
           D == DOMAIN path
           adds(it) == it = [S \in SUBSET D |->
             IF S = {} THEN base ELSE With(it[S \ {Max(S)}], Max(S))]
           fold == CHOOSE it : adds(it)
<1>1. N \in Nat /\ D = 1..N /\ \A k \in 1..N : weight[path[k]] \in Nat
  OBVIOUS
<1>2. PathWeight(path, weight) = fold[D]
  BY DEF PathWeight, FoldLeft, MapThenFoldSet
<1>3. base \in V /\ \A v \in V, k \in 1..N : With(v, k) \in V
  BY <1>1
<1>4. base = 0 /\ V = Nat /\ \A v, k : With(v, k) = v + weight[path[k]]
  OBVIOUS
<1> HIDE DEF N, V, With, base
<1>5. g \in [(1..N) \X V -> V] /\ \A k \in 1..N, v \in V : g[<<k, v>>] = With(v, k)
  BY <1>3
<1> HIDE DEF g
<1>6. PICK step \in [SUBSET (1..N) -> V] : Folds(step, base, g, N)
  BY <1>1, <1>3, <1>5, FoldExists
<1>7. adds(step)
  <2>1. ASSUME NEW S \in SUBSET (1..N)
        PROVE  step[S] = IF S = {} THEN base ELSE With(step[S \ {Max(S)}], Max(S))
    <3>1. S \ {Max(S)} \in SUBSET (1..N)
      OBVIOUS
    <3>2. step[S] = IF S = {} THEN base ELSE g[<<Max(S), step[S \ {Max(S)}]>>]
      BY <1>6 DEF Folds
    <3>3. step[S \ {Max(S)}] \in V
      BY <1>6, <3>1
    <3>4. S # {} => Max(S) \in 1..N
      BY <1>1, LastPlace
    <3> HIDE DEF Max
    <3> QED BY <1>5, <3>2, <3>3, <3>4
  <2> QED BY <1>1, <1>6, <2>1
<1> HIDE DEF adds
<1>8. adds(fold)
  BY <1>7
<1> HIDE DEF fold
<1>9. Steps(fold, base, g, N, V)
  <2>1. fold[{}] = base
    BY <1>8 DEF adds
  <2>2. ASSUME NEW S \in (SUBSET (1..N)) \ {{}}, fold[S \ {Max(S)}] \in V
        PROVE  fold[S] = g[<<Max(S), fold[S \ {Max(S)}]>>]
    <3>1. fold[S] = With(fold[S \ {Max(S)}], Max(S))
      BY <1>1, <1>8 DEF adds
    <3>2. Max(S) \in 1..N
      BY <1>1, LastPlace
    <3> QED BY <1>5, <2>2, <3>1, <3>2
  <2> QED BY <2>1, <2>2 DEF Steps
<1>10. /\ fold[1..0] = base /\ \A n \in 0..N : fold[1..n] \in V
      /\ \A n \in 1..N : fold[1..n] = g[<<n, fold[1..(n - 1)]>>]
  <2>1. N \in Nat /\ base \in V /\ g \in [(1..N) \X V -> V]
    BY <1>1, <1>3, <1>5
  <2>2. InTurn(fold, base, g, N, V)
    BY <1>9, <2>1, FoldsInTurn
  <2> QED BY <2>2 DEF InTurn
<1> DEFINE h == [n \in 0..N |-> fold[1..n]]
<1>11. /\ h[0] = base /\ h[N] = PathWeight(path, weight) /\ \A n \in 0..N : h[n] \in V
       /\ \A n \in 0..N : n < N => n + 1 \in 1..N /\ h[n + 1] = With(h[n], n + 1)
  <2>1. h[0] = base /\ h[N] = fold[D] /\ \A n \in 0..N : h[n] \in V /\ h[n] = fold[1..n]
    BY <1>1, <1>10
  <2>2. ASSUME NEW n \in 0..N, n < N PROVE n + 1 \in 1..N /\ h[n + 1] = With(h[n], n + 1)
    <3>1. n + 1 \in 1..N /\ n + 1 \in 0..N /\ (n + 1) - 1 = n
      BY <1>1, <2>2
    <3>2. h[n + 1] = g[<<n + 1, h[n]>>]
      BY <1>10, <2>1, <3>1
    <3> QED BY <1>5, <2>1, <3>1, <3>2
  <2> QED BY <1>2, <2>1, <2>2
<1> HIDE DEF h
<1>12. h \in [0..N -> V]
  <2>1. h = [n \in 0..N |-> h[n]]
    BY DEF h
  <2> QED BY <1>11, <2>1
<1>13. Weighs(h, path, weight)
  BY <1>4, <1>11, <1>12 DEF Weighs, N
<1> QED BY <1>13

LEMMA WeightIsNat ==
  ASSUME NEW path \in Seq(Conditions), NEW weight \in [Conditions -> Nat]
  PROVE  PathWeight(path, weight) \in Nat
<1>1. PICK h : Weighs(h, path, weight)
  BY WeightsAdd
<1>2. Len(path) \in 0..Len(path)
  OBVIOUS
<1> QED BY <1>1, <1>2 DEF Weighs

\* r is what remains of the sequence s after its first j elements.
RestOf(s, j, r) ==
  /\ j \in 1..Len(s) /\ Len(r) = Len(s) - j
  /\ \A k \in 1..Len(r) : r[k] = s[j + k]

\* What remains of a way is lighter by the weight of the first condition at least.
LEMMA RestWeighsLess ==
  ASSUME NEW path \in Seq(Conditions), NEW weight \in [Conditions -> Nat],
         NEW rest \in Seq(Conditions), NEW j, RestOf(path, j, rest)
  PROVE  /\ weight[path[1]] + PathWeight(rest, weight) <= PathWeight(path, weight)
         /\ j = 1 => weight[path[1]] + PathWeight(rest, weight) = PathWeight(path, weight)
<1>1. PICK h : Weighs(h, path, weight)
  BY WeightsAdd
<1>2. PICK r : Weighs(r, rest, weight)
  BY WeightsAdd
<1> DEFINE N == Len(path)
           M == Len(rest)
           w(k) == weight[path[k]]
<1>3. /\ N \in Nat /\ M \in Nat /\ j \in 1..N /\ M = N - j /\ \A k \in 1..N : w(k) \in Nat
      /\ \A k \in 1..M : j + k \in 1..N /\ weight[rest[k]] = w(j + k)
  <2>1. N \in Nat /\ M \in Nat /\ j \in 1..N /\ M = N - j /\ \A k \in 1..M : rest[k] = path[j + k]
    BY DEF RestOf
  <2>2. \A k \in 1..N : path[k] \in Conditions
    OBVIOUS
  <2>3. \A k \in 1..M : j + k \in 1..N
    <3> HIDE DEF N, M
    <3> QED BY <2>1
  <2> QED BY <2>1, <2>2, <2>3
<1>4. /\ h \in [0..N -> Nat] /\ h[0] = 0 /\ h[N] = PathWeight(path, weight)
      /\ \A k \in 0..N : k < N => h[k + 1] = h[k] + w(k + 1)
  BY <1>1 DEF Weighs
<1>5. /\ r \in [0..M -> Nat] /\ r[0] = 0 /\ r[M] = PathWeight(rest, weight)
      /\ \A k \in 0..M : k < M => k + 1 \in 1..M /\ r[k + 1] = r[k] + weight[rest[k + 1]]
  BY <1>2 DEF Weighs
<1> HIDE DEF N, M, w
<1>6. h[1] = w(1) /\ 1 \in 1..N
  <2>1. 0 \in 0..N /\ 0 < N /\ 0 + 1 = 1 /\ 1 \in 1..N
    BY <1>3
  <2>2. h[1] = h[0] + w(1)
    BY <1>4, <2>1
  <2> QED BY <1>3, <1>4, <2>1, <2>2
<1>7. h[j] >= w(1)
  <2> DEFINE G == {n \in 0..N : n = 0 \/ h[n] >= w(1)}
  <2>1. 0 \in G
    BY <1>3
  <2>2. ASSUME NEW n \in 0..N, n \in G, n < N PROVE n + 1 \in G
    <3>1. n + 1 \in 0..N /\ n + 1 \in 1..N /\ h[n + 1] = h[n] + w(n + 1) /\ h[n] \in Nat
      BY <1>3, <1>4, <2>2
    <3>2. w(n + 1) \in Nat /\ w(1) \in Nat
      BY <1>3, <1>6, <3>1
    <3>3. n = 0 => h[n + 1] = w(1)
      BY <1>6
    <3>4. n # 0 => h[n] >= w(1)
      BY <2>2
    <3> QED BY <3>1, <3>2, <3>3, <3>4
  <2> HIDE DEF G
  <2>3. \A n \in 0..N : n \in G
    BY <1>3, <2>1, <2>2, UpTo
  <2>4. j \in 0..N /\ j # 0
    BY <1>3
  <2> QED BY <2>3, <2>4 DEF G
<1>8. h[N] = h[j] + r[M]
  <2> DEFINE G == {n \in 0..M : h[j + n] = h[j] + r[n]}
  <2>1. j \in 0..N /\ h[j] \in Nat
    BY <1>3, <1>4
  <2>2. 0 \in G
    BY <1>3, <1>5, <2>1
  <2>3. ASSUME NEW n \in 0..M, n \in G, n < M PROVE n + 1 \in G
    <3>1. n + 1 \in 0..M /\ n + 1 \in 1..M /\ j + n \in 0..N /\ j + n < N /\ (j + n) + 1 = j + (n + 1)
      BY <1>3, <2>3
    <3>2. h[j + (n + 1)] = h[j + n] + w(j + (n + 1))
      BY <1>4, <3>1
    <3>3. r[n + 1] = r[n] + w(j + (n + 1))
      BY <1>3, <1>5, <2>3, <3>1
    <3>4. h[j + n] = h[j] + r[n]
      BY <2>3
    <3>5. r[n] \in Nat /\ w(j + (n + 1)) \in Nat
      BY <1>3, <1>5, <3>1
    <3>6. h[j + (n + 1)] = h[j] + r[n + 1]
      BY <2>1, <3>2, <3>3, <3>4, <3>5
    <3> QED BY <3>1, <3>6
  <2> HIDE DEF G
  <2>4. \A n \in 0..M : n \in G
    BY <1>3, <2>2, <2>3, UpTo
  <2>5. M \in 0..M /\ j + M = N
    BY <1>3
  <2>6. M \in G
    BY <2>4, <2>5
  <2> QED BY <2>5, <2>6 DEF G
<1>9. h[j] \in Nat /\ r[M] \in Nat /\ w(1) \in Nat
  <2>1. j \in 0..N /\ M \in 0..M
    BY <1>3
  <2> QED BY <1>3, <1>4, <1>5, <1>6, <2>1
<1>10. w(1) + r[M] <= h[N] /\ (j = 1 => w(1) + r[M] = h[N])
  BY <1>6, <1>7, <1>8, <1>9
<1> QED BY <1>4, <1>5, <1>10 DEF w

-----------------------------------------------------------------------------
(* The search for ways *)

AllWays == Seq(Seq(Conditions))
Finders == [Visits -> AllWays]
Passes(e, visit) == e.from = visit.state /\ e.to \notin visit.visited
NextVisit(e, visit) == [state |-> e.to, visited |-> visit.visited \cup {e.to}]

\* The ways found over a transition.
Over(ways, visit, e) ==
  LET on == ways[NextVisit(e, visit)] IN [k \in DOMAIN on |-> <<e.on>> \o on[k]]

LEMMA Joined ==
  ASSUME NEW S, NEW s \in Seq(S), NEW t \in Seq(S)
  PROVE  s \o t \in Seq(S) /\ ToSet(s \o t) = ToSet(s) \cup ToSet(t)
<1> DEFINE m == Len(s)
           n == Len(t)
           j == s \o t
<1>1. /\ m \in Nat /\ DOMAIN s = 1..m /\ n \in Nat /\ DOMAIN t = 1..n
      /\ j \in Seq(S) /\ DOMAIN j = 1..(m + n)
      /\ \A k \in 1..(m + n) : j[k] = IF k <= m THEN s[k] ELSE t[k - m]
  OBVIOUS
<1> HIDE DEF m, n, j
<1>2. \A k \in 1..m : k \in 1..(m + n) /\ k <= m
  BY <1>1
<1>3. \A k \in 1..n : m + k \in 1..(m + n) /\ ~(m + k <= m) /\ (m + k) - m = k
  BY <1>1
<1>4. \A k \in 1..(m + n) : k <= m => k \in 1..m
  BY <1>1
<1>5. \A k \in 1..(m + n) : ~(k <= m) => k - m \in 1..n
  BY <1>1
<1>6. ToSet(s) = {s[k] : k \in 1..m} /\ ToSet(t) = {t[k] : k \in 1..n}
      /\ ToSet(j) = {j[k] : k \in 1..(m + n)}
  BY <1>1 DEF ToSet
<1>7. ASSUME NEW k \in 1..(m + n) PROVE j[k] \in ToSet(s) \cup ToSet(t)
  <2>1. CASE k <= m
    BY <1>1, <1>4, <1>6, <2>1
  <2>2. CASE ~(k <= m)
    BY <1>1, <1>5, <1>6, <2>2
  <2> QED BY <2>1, <2>2
<1>8. ASSUME NEW k \in 1..m PROVE s[k] \in ToSet(j)
  BY <1>1, <1>2, <1>6
<1>9. ASSUME NEW k \in 1..n PROVE t[k] \in ToSet(j)
  <2>1. j[m + k] = t[k] /\ m + k \in 1..(m + n)
    BY <1>1, <1>3
  <2> QED BY <1>6, <2>1
<1>10. ToSet(j) = ToSet(s) \cup ToSet(t)
  BY <1>6, <1>7, <1>8, <1>9
<1> QED BY <1>1, <1>10 DEF j

LEMMA Prefixed ==
  ASSUME NEW on \in AllWays, NEW c \in Conditions
  PROVE  LET all == [k \in DOMAIN on |-> <<c>> \o on[k]] IN
         all \in AllWays /\ ToSet(all) = {<<c>> \o q : q \in ToSet(on)}
<1> DEFINE n == Len(on)
           all == [k \in DOMAIN on |-> <<c>> \o on[k]]
<1>1. n \in Nat /\ DOMAIN on = 1..n /\ \A k \in 1..n : on[k] \in Seq(Conditions)
  BY DEF AllWays
<1>2. \A k \in 1..n : <<c>> \o on[k] \in Seq(Conditions)
  <2>1. <<c>> \in Seq(Conditions)
    OBVIOUS
  <2> QED BY <1>1, <2>1, ConcatProperties
<1> HIDE DEF n
<1>3. all \in [1..n -> Seq(Conditions)]
  BY <1>1, <1>2
<1>4. ToSet(all) = {<<c>> \o q : q \in ToSet(on)}
  BY <1>1 DEF ToSet
<1>5. all \in AllWays
  <2> HIDE DEF all
  <2> QED BY <1>1, <1>3 DEF AllWays
<1> QED BY <1>4, <1>5

LEMMA OverIs ==
  ASSUME transitions \in Seq(Transitions), NEW ways \in Finders, NEW visit \in Visits, NEW e \in Legs
  PROVE  /\ NextVisit(e, visit) \in Visits
         /\ Over(ways, visit, e) \in AllWays
         /\ ToSet(Over(ways, visit, e)) = {<<e.on>> \o q : q \in ToSet(ways[NextVisit(e, visit)])}
<1>1. e.to \in JourneyStates /\ e.on \in Conditions
  BY LegsAre
<1>2. NextVisit(e, visit) \in Visits
  BY <1>1 DEF NextVisit, Visits
<1>3. ways[NextVisit(e, visit)] \in AllWays
  BY <1>2 DEF Finders
<1> QED BY <1>1, <1>2, <1>3, Prefixed DEF Over

\* The search finds the ways over all the transitions that pass.
LEMMA OnwardIs ==
  ASSUME transitions \in Seq(Transitions), NEW ways \in Finders, NEW visit \in Visits
  PROVE  /\ Onward(ways, visit) \in AllWays
         /\ ToSet(Onward(ways, visit)) =
              UNION {ToSet(Over(ways, visit, e)) : e \in {x \in Legs : Passes(x, visit)}}
<1> DEFINE N == Len(transitions)
           V == AllWays
           base == <<>>
           With(v, k) ==
             IF transitions[k].from # visit.state \/ transitions[k].to \in visit.visited THEN v
             ELSE LET on == ways[[state |-> transitions[k].to,
                                  visited |-> visit.visited \cup {transitions[k].to}]]
                  IN v \o [i \in DOMAIN on |-> <<transitions[k].on>> \o on[i]]
           g == [x \in (1..N) \X V |-> With(x[2], x[1])]
           D == DOMAIN transitions
           adds(it) == it = [S \in SUBSET D |->
             IF S = {} THEN base ELSE With(it[S \ {Max(S)}], Max(S))]
           fold == CHOOSE it : adds(it)
<1>1. N \in Nat /\ D = 1..N
  OBVIOUS
<1>2. Onward(ways, visit) = fold[D]
  BY DEF Onward, FoldLeft, MapThenFoldSet
<1>3. \A v, k : With(v, k) = IF Passes(transitions[k], visit)
                             THEN v \o Over(ways, visit, transitions[k]) ELSE v
  BY DEF Passes, Over, NextVisit
<1>4. Legs = {transitions[k] : k \in 1..N}
  BY <1>1 DEF Legs, ToSet
<1>5. base = <<>> /\ V = AllWays
  OBVIOUS
<1> HIDE DEF With
<1>6. base \in V /\ \A v \in V, k \in 1..N : With(v, k) \in V
  <2>1. base \in V
    BY DEF AllWays
  <2>2. ASSUME NEW v \in V, NEW k \in 1..N PROVE With(v, k) \in V
    <3>1. Over(ways, visit, transitions[k]) \in V
      BY <1>4, OverIs
    <3>2. v \o Over(ways, visit, transitions[k]) \in V
      BY <3>1, Joined DEF AllWays
    <3> QED BY <1>3, <3>2
  <2> QED BY <2>1, <2>2
<1> HIDE DEF N, V, With, base
<1>7. g \in [(1..N) \X V -> V] /\ \A k \in 1..N, v \in V : g[<<k, v>>] = With(v, k)
  BY <1>6
<1> HIDE DEF g
<1>8. PICK step \in [SUBSET (1..N) -> V] : Folds(step, base, g, N)
  BY <1>1, <1>6, <1>7, FoldExists
<1>9. adds(step)
  <2>1. ASSUME NEW S \in SUBSET (1..N)
        PROVE  step[S] = IF S = {} THEN base ELSE With(step[S \ {Max(S)}], Max(S))
    <3>1. S \ {Max(S)} \in SUBSET (1..N)
      OBVIOUS
    <3>2. step[S] = IF S = {} THEN base ELSE g[<<Max(S), step[S \ {Max(S)}]>>]
      BY <1>8 DEF Folds
    <3>3. step[S \ {Max(S)}] \in V
      BY <1>8, <3>1
    <3>4. S # {} => Max(S) \in 1..N
      BY <1>1, LastPlace
    <3> HIDE DEF Max
    <3> QED BY <1>7, <3>2, <3>3, <3>4
  <2> QED BY <1>1, <1>8, <2>1
<1> HIDE DEF adds
<1>10. adds(fold)
  BY <1>9
<1> HIDE DEF fold
<1>11. Steps(fold, base, g, N, V)
  <2>1. fold[{}] = base
    BY <1>10 DEF adds
  <2>2. ASSUME NEW S \in (SUBSET (1..N)) \ {{}}, fold[S \ {Max(S)}] \in V
        PROVE  fold[S] = g[<<Max(S), fold[S \ {Max(S)}]>>]
    <3>1. fold[S] = With(fold[S \ {Max(S)}], Max(S))
      BY <1>1, <1>10 DEF adds
    <3>2. Max(S) \in 1..N
      BY <1>1, LastPlace
    <3> QED BY <1>7, <2>2, <3>1, <3>2
  <2> QED BY <2>1, <2>2 DEF Steps
<1>12. /\ fold[1..0] = base /\ \A n \in 0..N : fold[1..n] \in V
      /\ \A n \in 1..N : fold[1..n] = g[<<n, fold[1..(n - 1)]>>]
  <2>1. N \in Nat /\ base \in V /\ g \in [(1..N) \X V -> V]
    BY <1>1, <1>6, <1>7
  <2>2. InTurn(fold, base, g, N, V)
    BY <1>11, <2>1, FoldsInTurn
  <2> QED BY <2>2 DEF InTurn
<1> DEFINE h == [n \in 0..N |-> fold[1..n]]
<1>13. /\ h[0] = base /\ h[N] = Onward(ways, visit) /\ \A n \in 0..N : h[n] \in V
       /\ \A n \in 0..N : n < N => n + 1 \in 1..N /\ h[n + 1] = With(h[n], n + 1)
  <2>1. h[0] = base /\ h[N] = fold[D] /\ \A n \in 0..N : h[n] \in V /\ h[n] = fold[1..n]
    BY <1>1, <1>12
  <2>2. ASSUME NEW n \in 0..N, n < N PROVE n + 1 \in 1..N /\ h[n + 1] = With(h[n], n + 1)
    <3>1. n + 1 \in 1..N /\ n + 1 \in 0..N /\ (n + 1) - 1 = n
      BY <1>1, <2>2
    <3>2. h[n + 1] = g[<<n + 1, h[n]>>]
      BY <1>12, <2>1, <3>1
    <3> QED BY <1>7, <2>1, <3>1, <3>2
  <2> QED BY <1>2, <2>1, <2>2
<1> HIDE DEF h
<1> DEFINE Found(n) == UNION {ToSet(Over(ways, visit, transitions[k])) :
                               k \in {i \in 1..n : Passes(transitions[i], visit)}}
           G == {n \in 0..N : ToSet(h[n]) = Found(n)}
<1>14. \A n \in 0..N : n \in G
  <2>1. 0 \in G
    <3>1. ToSet(<<>>) = {} /\ 1..0 = {} /\ 0 \in 0..N
      BY <1>1 DEF ToSet
    <3> QED BY <1>5, <1>13, <3>1
  <2>2. ASSUME NEW n \in 0..N, n \in G, n < N PROVE n + 1 \in G
    <3> DEFINE e == transitions[n + 1]
    <3>1. n + 1 \in 1..N /\ n + 1 \in 0..N /\ h[n + 1] = With(h[n], n + 1) /\ h[n] \in AllWays
      BY <1>1, <1>5, <1>13, <2>2
    <3>2. 1..(n + 1) = (1..n) \cup {n + 1}
      BY <1>1
    <3>3. Found(n + 1) = Found(n) \cup IF Passes(e, visit) THEN ToSet(Over(ways, visit, e)) ELSE {}
      BY <3>2
    <3>4. ToSet(h[n]) = Found(n)
      BY <2>2
    <3>5. e \in Legs
      BY <1>4, <3>1
    <3> HIDE DEF Found, e
    <3>6. h[n + 1] = IF Passes(e, visit) THEN h[n] \o Over(ways, visit, e) ELSE h[n]
      BY <1>3, <3>1 DEF e
    <3>7. ToSet(h[n] \o Over(ways, visit, e)) = ToSet(h[n]) \cup ToSet(Over(ways, visit, e))
      <4>1. Over(ways, visit, e) \in AllWays
        BY <3>5, OverIs
      <4> QED BY <3>1, <4>1, Joined DEF AllWays
    <3>8. ToSet(h[n + 1]) = Found(n + 1)
      BY <3>3, <3>4, <3>6, <3>7
    <3> QED BY <3>1, <3>8
  <2> HIDE DEF G
  <2> QED BY <1>1, <2>1, <2>2, UpTo
<1>15. N \in 0..N
  BY <1>1
<1>16. ToSet(Onward(ways, visit)) = Found(N)
  <2>1. N \in G
    BY <1>14, <1>15
  <2> QED BY <1>13, <2>1
<1>17. Found(N) = UNION {ToSet(Over(ways, visit, e)) : e \in {x \in Legs : Passes(x, visit)}}
  BY <1>4
<1> QED BY <1>5, <1>13, <1>15, <1>16, <1>17

\* The ways to a target from every visit, found a transition deeper than ways does.
LEMMA WaysOnAre ==
  ASSUME transitions \in Seq(Transitions), NEW target, NEW ways \in Finders
  PROVE  /\ WaysOn(target, ways) \in Finders
         /\ \A visit \in Visits :
              WaysOn(target, ways)[visit] =
                IF visit.state = target THEN << <<>> >> ELSE Onward(ways, visit)
<1>1. << <<>> >> \in AllWays
  BY DEF AllWays
<1>2. \A visit \in Visits : Onward(ways, visit) \in AllWays
  BY OnwardIs
<1> QED BY <1>1, <1>2 DEF WaysOn, Finders

NoneFound == [visit \in Visits |-> <<>>]

LEMMA PathsGoDeeper ==
  ASSUME transitions \in Seq(Transitions), NEW target, Len(known) \in Nat
  PROVE  \E s \in [0..Len(known) -> Finders] :
           /\ AllPaths(target) = s[Len(known)][[state |-> current, visited |-> {current}]]
           /\ s[0] = WaysOn(target, NoneFound)
           /\ \A k \in 0..Len(known) : k < Len(known) => s[k + 1] = WaysOn(target, s[k])
<1> DEFINE N == Len(known)
           V == Finders
           base == WaysOn(target, NoneFound)
           goes(s) == s = [left \in 0..N |->
             WaysOn(target, IF left = 0 THEN NoneFound ELSE s[left - 1])]
           search == CHOOSE s : goes(s)
           g == [x \in (1..N) \X V |-> WaysOn(target, x[2])]
<1>1. N \in Nat
  OBVIOUS
<1>2. AllPaths(target) = search[N][[state |-> current, visited |-> {current}]]
  BY DEF AllPaths, NoneFound
<1>3. base \in V /\ \A s \in V : WaysOn(target, s) \in V
  <2>1. NoneFound \in V
    BY DEF NoneFound, Finders, AllWays
  <2> QED BY <2>1, WaysOnAre
<1>4. base = WaysOn(target, NoneFound) /\ V = Finders
  OBVIOUS
<1> HIDE DEF N, V, base
<1>5. g \in [(1..N) \X V -> V] /\ \A k \in 1..N, s \in V : g[<<k, s>>] = WaysOn(target, s)
  BY <1>3
<1> HIDE DEF g
<1>6. PICK step \in [SUBSET (1..N) -> V] : Folds(step, base, g, N)
  BY <1>1, <1>3, <1>5, FoldExists
<1>7. /\ step[1..0] = base /\ \A n \in 0..N : step[1..n] \in V
      /\ \A n \in 1..N : step[1..n] = g[<<n, step[1..(n - 1)]>>]
  <2>1. Steps(step, base, g, N, V)
    <3>1. {} \in SUBSET (1..N)
      OBVIOUS
    <3> QED BY <1>6, <3>1 DEF Folds, Steps
  <2>2. InTurn(step, base, g, N, V)
    BY <1>1, <1>3, <1>5, <2>1, FoldsInTurn
  <2> QED BY <2>2 DEF InTurn
<1> DEFINE upto == [n \in 0..N |-> step[1..n]]
<1>8. goes(upto)
  <2>1. ASSUME NEW n \in 0..N
        PROVE  upto[n] = WaysOn(target, IF n = 0 THEN NoneFound ELSE upto[n - 1])
    <3>1. CASE n = 0
      BY <1>4, <1>7, <3>1
    <3>2. CASE n # 0
      <4>1. n \in 1..N /\ n - 1 \in 0..N
        BY <1>1, <3>2
      <4>2. upto[n] = g[<<n, upto[n - 1]>>] /\ upto[n - 1] \in V
        BY <1>7, <4>1
      <4>3. upto[n] = WaysOn(target, upto[n - 1])
        BY <1>5, <4>1, <4>2
      <4> HIDE DEF upto
      <4> QED BY <3>2, <4>3
    <3> QED BY <3>1, <3>2
  <2> QED BY <2>1
<1>9. goes(search)
  BY <1>8
<1> HIDE DEF search, upto
<1>10. /\ search[0] = base
       /\ \A n \in 0..N : n < N => search[n + 1] = WaysOn(target, search[n])
  <2>1. 0 \in 0..N
    BY <1>1
  <2>2. ASSUME NEW n \in 0..N, n < N PROVE search[n + 1] = WaysOn(target, search[n])
    <3>1. n + 1 \in 0..N /\ n + 1 # 0 /\ (n + 1) - 1 = n
      BY <1>1, <2>2
    <3> QED BY <1>9, <3>1
  <2> QED BY <1>4, <1>9, <2>1, <2>2
<1>11. \A n \in 0..N : search[n] \in V
  <2> DEFINE G == {n \in 0..N : search[n] \in V}
  <2>1. 0 \in G
    BY <1>1, <1>3, <1>10
  <2>2. ASSUME NEW n \in 0..N, n \in G, n < N PROVE n + 1 \in G
    <3>1. n + 1 \in 0..N
      BY <1>1, <2>2
    <3> QED BY <1>3, <1>10, <2>2, <3>1
  <2> HIDE DEF G
  <2>3. \A n \in 0..N : n \in G
    BY <1>1, <2>1, <2>2, UpTo
  <2> QED BY <2>3 DEF G
<1>12. search \in [0..N -> V]
  <2>1. search = [n \in 0..N |-> search[n]]
    BY <1>9
  <2> QED BY <1>11, <2>1
<1> QED BY <1>2, <1>4, <1>10, <1>12 DEF N

-----------------------------------------------------------------------------
(* Walks *)

\* Transitions follow one another from s to t.
Leads(walk, s, t) ==
  /\ walk \in Seq(Legs)
  /\ walk = <<>> => s = t
  /\ walk # <<>> => walk[1].from = s /\ walk[Len(walk)].to = t
  /\ \A i \in 1..(Len(walk) - 1) : walk[i].to = walk[i + 1].from

LEMMA ConditionsAre ==
  ASSUME transitions \in Seq(Transitions), NEW walk \in Seq(Legs)
  PROVE  /\ ConditionsOf(walk) \in Seq(Conditions) /\ Len(ConditionsOf(walk)) = Len(walk)
         /\ \A i \in 1..Len(walk) : ConditionsOf(walk)[i] = walk[i].on
<1> DEFINE n == Len(walk)
           all == ConditionsOf(walk)
<1>1. n \in Nat /\ DOMAIN walk = 1..n /\ \A i \in 1..n : walk[i] \in Legs
  OBVIOUS
<1>2. all = [i \in 1..n |-> walk[i].on]
  BY <1>1 DEF ConditionsOf
<1>3. \A i \in 1..n : walk[i].on \in Conditions
  BY <1>1, LegsAre
<1> HIDE DEF n, all
<1>4. all \in [1..n -> Conditions]
  BY <1>2, <1>3
<1>5. all \in Seq(Conditions) /\ Len(all) = n
  BY <1>1, <1>4
<1> QED BY <1>2, <1>5 DEF n, all

LEMMA OneBefore ==
  ASSUME NEW S, NEW x \in S, NEW s \in Seq(S)
  PROVE  /\ <<x>> \o s \in Seq(S) /\ Len(<<x>> \o s) = Len(s) + 1
         /\ (<<x>> \o s)[1] = x /\ \A i \in 1..Len(s) : (<<x>> \o s)[i + 1] = s[i]
OBVIOUS

\* A walk with one more transition before it.
LEMMA WalkFromBefore ==
  ASSUME transitions \in Seq(Transitions), NEW e \in Legs, NEW walk, NEW t, Leads(walk, e.to, t)
  PROVE  LET longer == <<e>> \o walk IN
         /\ Leads(longer, e.from, t) /\ Len(longer) = Len(walk) + 1
         /\ ConditionsOf(longer) = <<e.on>> \o ConditionsOf(walk)
<1> DEFINE n == Len(walk)
           longer == <<e>> \o walk
<1>1. walk \in Seq(Legs) /\ n \in Nat
  BY DEF Leads
<1>2. /\ longer \in Seq(Legs) /\ Len(longer) = n + 1 /\ longer # <<>>
      /\ longer[1] = e /\ \A i \in 1..n : longer[i + 1] = walk[i]
  <2>1. /\ longer \in Seq(Legs) /\ Len(longer) = n + 1
        /\ longer[1] = e /\ \A i \in 1..n : longer[i + 1] = walk[i]
    BY <1>1, OneBefore
  <2> HIDE DEF longer, n
  <2> QED BY <1>1, <2>1, EmptySeq
<1>3. /\ walk = <<>> => n = 0
      /\ walk # <<>> => n \in 1..n /\ 1 \in 1..n
  BY <1>1
<1>4. /\ walk = <<>> => e.to = t
      /\ walk # <<>> => walk[1].from = e.to /\ walk[n].to = t
      /\ \A i \in 1..(n - 1) : walk[i].to = walk[i + 1].from
  BY DEF Leads
<1>5. /\ ConditionsOf(walk) \in Seq(Conditions) /\ Len(ConditionsOf(walk)) = n
      /\ \A i \in 1..n : ConditionsOf(walk)[i] = walk[i].on
  BY <1>1, ConditionsAre
<1>6. /\ ConditionsOf(longer) \in Seq(Conditions) /\ Len(ConditionsOf(longer)) = n + 1
      /\ \A i \in 1..(n + 1) : ConditionsOf(longer)[i] = longer[i].on
  BY <1>2, ConditionsAre
<1> HIDE DEF n, longer
<1>7. longer[n + 1].to = t
  <2>1. CASE walk = <<>>
    BY <1>2, <1>3, <1>4, <2>1
  <2>2. CASE walk # <<>>
    BY <1>2, <1>3, <1>4, <2>2
  <2> QED BY <2>1, <2>2
<1>8. ASSUME NEW i \in 1..n PROVE longer[i].to = longer[i + 1].from
  <2>1. CASE i = 1
    <3>1. walk # <<>> /\ longer[1 + 1] = walk[1]
      BY <1>1, <1>2, <1>3, <2>1
    <3> QED BY <1>2, <1>4, <2>1, <3>1
  <2>2. CASE i # 1
    <3>1. i - 1 \in 1..n /\ i - 1 \in 1..(n - 1) /\ (i - 1) + 1 = i
      BY <1>1, <2>2
    <3>2. longer[i] = walk[i - 1] /\ longer[i + 1] = walk[i]
      BY <1>2, <3>1
    <3> QED BY <1>4, <3>1, <3>2
  <2> QED BY <2>1, <2>2
<1>9. Leads(longer, e.from, t)
  <2>1. (n + 1) - 1 = n
    BY <1>1
  <2> QED BY <1>2, <1>7, <1>8, <2>1 DEF Leads
<1>10. ConditionsOf(longer) = <<e.on>> \o ConditionsOf(walk)
  <2> DEFINE after == ConditionsOf(walk)
             both == ConditionsOf(longer)
             all == <<e.on>> \o after
  <2>1. e.on \in Conditions
    BY LegsAre
  <2>2. after \in Seq(Conditions) /\ Len(after) = n
    BY <1>5
  <2> HIDE DEF after, both
  <2>3. /\ all \in Seq(Conditions) /\ Len(all) = n + 1
        /\ all[1] = e.on /\ \A i \in 1..n : all[i + 1] = after[i]
    BY <2>1, <2>2, OneBefore
  <2> HIDE DEF all
  <2>4. both \in Seq(Conditions) /\ Len(both) = n + 1 /\ both[1] = e.on
    <3>1. 1 \in 1..(n + 1)
      BY <1>1
    <3> QED BY <1>2, <1>6, <3>1 DEF both
  <2>5. \A i \in 1..n : both[i + 1] = after[i]
    <3>1. \A i \in 1..n : i + 1 \in 1..(n + 1)
      BY <1>1
    <3> QED BY <1>2, <1>5, <1>6, <3>1 DEF both, after
  <2>6. ASSUME NEW i \in 1..(n + 1) PROVE both[i] = all[i]
    <3>1. CASE i = 1
      BY <2>3, <2>4, <3>1
    <3>2. CASE i # 1
      <4>1. i - 1 \in 1..n /\ (i - 1) + 1 = i
        BY <1>1, <3>2
      <4> QED BY <2>3, <2>5, <4>1
    <3> QED BY <3>1, <3>2
  <2>7. both = all
    BY <2>3, <2>4, <2>6, SeqEqual
  <2> QED BY <2>7 DEF all, after, both
<1> QED BY <1>2, <1>9, <1>10 DEF longer, n

\* What remains of a walk after its first j transitions.
LEMMA RestOfWalk ==
  ASSUME transitions \in Seq(Transitions), NEW walk, NEW s, NEW t, Leads(walk, s, t),
         NEW j \in 1..Len(walk)
  PROVE  LET rest == SubSeq(walk, j + 1, Len(walk)) IN
         /\ Leads(rest, walk[j].to, t) /\ RestOf(walk, j, rest)
         /\ RestOf(ConditionsOf(walk), j, ConditionsOf(rest))
<1> DEFINE n == Len(walk)
           rest == SubSeq(walk, j + 1, n)
<1>1. walk \in Seq(Legs) /\ n \in Nat /\ \A i \in 1..n : walk[i] \in Legs
  BY DEF Leads
<1>2. /\ walk # <<>> => walk[n].to = t
      /\ \A i \in 1..(n - 1) : walk[i].to = walk[i + 1].from
  BY DEF Leads
<1>3. /\ ConditionsOf(walk) \in Seq(Conditions) /\ Len(ConditionsOf(walk)) = n
      /\ \A i \in 1..n : ConditionsOf(walk)[i] = walk[i].on
  BY <1>1, ConditionsAre
<1>4. walk # <<>>
  BY <1>1
<1> HIDE DEF n
<1>5. /\ n - j \in Nat /\ \A k \in 1..(n - j) : j + k \in 1..n /\ (j + 1) + k - 1 = j + k
      /\ j + 1 <= n + 1 /\ j \in 1..n /\ n - (j + 1) + 1 = n - j
  BY <1>1 DEF n
<1>6. /\ rest \in Seq(Legs) /\ Len(rest) = n - j
      /\ \A k \in 1..(n - j) : rest[k] = walk[j + k]
  <2>1. \A k \in (j + 1)..n : walk[k] \in Legs
    BY <1>1, <1>5
  <2>2. j + 1 \in 1..(n + 1) /\ j + 1 \in Int
    BY <1>1, <1>5
  <2> DEFINE from == j + 1
  <2>3. /\ SubSeq(walk, from, n) \in Seq(Legs)
        /\ Len(SubSeq(walk, from, n)) = IF from <= n THEN n - from + 1 ELSE 0
        /\ \A k \in 1..(n - from + 1) : SubSeq(walk, from, n)[k] = walk[from + k - 1]
    <3> HIDE DEF from
    <3>1. from \in 1..(n + 1) /\ \A k \in from..n : walk[k] \in Legs
      BY <2>1, <2>2 DEF from
    <3> QED BY <1>1, <3>1, SubSeqProperties DEF n
  <2> QED BY <1>1, <1>5, <2>3
<1> HIDE DEF rest
<1>7. RestOf(walk, j, rest)
  BY <1>5, <1>6 DEF RestOf, n
<1>8. Leads(rest, walk[j].to, t)
  <2>1. CASE n = j
    <3>1. rest = <<>>
      BY <1>1, <1>6, <2>1, EmptySeq
    <3> QED BY <1>2, <1>4, <1>6, <2>1, <3>1 DEF Leads
  <2>2. CASE n # j
    <3>1. rest # <<>> /\ 1 \in 1..(n - j) /\ n - j \in 1..(n - j) /\ j + (n - j) = n
      BY <1>1, <1>5, <1>6, <2>2
    <3>2. rest[1] = walk[j + 1] /\ rest[Len(rest)] = walk[n]
      BY <1>6, <3>1
    <3>3. walk[j].to = walk[j + 1].from
      <4>1. j \in 1..(n - 1)
        BY <1>1, <1>5, <2>2
      <4> QED BY <1>2, <4>1
    <3>4. ASSUME NEW i \in 1..((n - j) - 1) PROVE rest[i].to = rest[i + 1].from
      <4>1. i \in 1..(n - j) /\ i + 1 \in 1..(n - j) /\ j + i \in 1..(n - 1) /\ j + (i + 1) = (j + i) + 1
        BY <1>1, <1>5
      <4> QED BY <1>2, <1>6, <4>1
    <3> QED BY <1>2, <1>4, <1>6, <3>1, <3>2, <3>3, <3>4 DEF Leads
  <2> QED BY <2>1, <2>2
<1>9. RestOf(ConditionsOf(walk), j, ConditionsOf(rest))
  <2>1. /\ Len(ConditionsOf(rest)) = n - j
        /\ \A i \in 1..(n - j) : ConditionsOf(rest)[i] = rest[i].on
    BY <1>6, ConditionsAre
  <2> QED BY <1>3, <1>5, <1>6, <2>1 DEF RestOf
<1> QED BY <1>7, <1>8, <1>9 DEF rest, n

-----------------------------------------------------------------------------
(* The search finds a way of least weight *)

\* Every way is that of a walk to the target, of at most n transitions.
Sound(ways, target, n) ==
  \A visit \in Visits : \A way \in ToSet(ways[visit]) :
    \E walk : Leads(walk, visit.state, target) /\ Len(walk) <= n /\ way = ConditionsOf(walk)

Avoids(walk, visited) == \A i \in 1..Len(walk) : walk[i].to \notin visited

\* With at most n states left to meet, a walk that meets none twice has no lighter way.
Complete(ways, target, n, weight) ==
  \A visit \in Visits : Cardinality(ToSet(known) \ visit.visited) <= n =>
    \A walk : Leads(walk, visit.state, target) /\ Avoids(walk, visit.visited) =>
      \E way \in ToSet(ways[visit]) : PathWeight(way, weight) <= PathWeight(ConditionsOf(walk), weight)

LEMMA NoWalk ==
  ASSUME transitions \in Seq(Transitions)
  PROVE  /\ \A s : Leads(<<>>, s, s)
         /\ ConditionsOf(<<>>) = <<>> /\ ToSet(<< <<>> >>) = {<<>>}
<1>1. <<>> \in Seq(Legs) /\ Len(<<>>) = 0
  OBVIOUS
<1>2. \A s : Leads(<<>>, s, s)
  BY <1>1 DEF Leads
<1>3. ConditionsOf(<<>>) = <<>>
  BY DEF ConditionsOf
<1>4. ToSet(<< <<>> >>) = {<<>>}
  BY DEF ToSet
<1> QED BY <1>2, <1>3, <1>4

LEMMA EmptyWeighsNothing ==
  ASSUME NEW weight \in [Conditions -> Nat]
  PROVE  PathWeight(<<>>, weight) = 0
<1>1. <<>> \in Seq(Conditions) /\ Len(<<>>) = 0
  OBVIOUS
<1>2. PICK h : Weighs(h, <<>>, weight)
  BY <1>1, WeightsAdd
<1> QED BY <1>1, <1>2 DEF Weighs

LEMMA SoundStep ==
  ASSUME transitions \in Seq(Transitions), NEW target, NEW ways \in Finders,
         NEW n \in Int, n + 1 >= 0, Sound(ways, target, n)
  PROVE  Sound(WaysOn(target, ways), target, n + 1)
<1> SUFFICES ASSUME NEW visit \in Visits, NEW way \in ToSet(WaysOn(target, ways)[visit])
             PROVE  \E walk : Leads(walk, visit.state, target) /\ Len(walk) <= n + 1
                              /\ way = ConditionsOf(walk)
  BY DEF Sound
<1>1. WaysOn(target, ways)[visit] = IF visit.state = target THEN << <<>> >> ELSE Onward(ways, visit)
  BY WaysOnAre
<1>2. CASE visit.state = target
  <2>1. way = <<>>
    BY <1>1, <1>2, NoWalk
  <2>2. Len(<<>>) <= n + 1
    OBVIOUS
  <2> QED BY <1>2, <2>1, <2>2, NoWalk
<1>3. CASE visit.state # target
  <2>1. PICK e \in Legs : Passes(e, visit) /\ way \in ToSet(Over(ways, visit, e))
    <3>1. way \in ToSet(Onward(ways, visit))
      BY <1>1, <1>3
    <3>2. way \in UNION {ToSet(Over(ways, visit, e)) : e \in {x \in Legs : Passes(x, visit)}}
      BY <3>1, OnwardIs
    <3> QED BY <3>2
  <2>2. /\ NextVisit(e, visit) \in Visits
        /\ ToSet(Over(ways, visit, e)) = {<<e.on>> \o q : q \in ToSet(ways[NextVisit(e, visit)])}
    BY OverIs
  <2>3. PICK q \in ToSet(ways[NextVisit(e, visit)]) : way = <<e.on>> \o q
    BY <2>1, <2>2
  <2>4. NextVisit(e, visit).state = e.to
    BY DEF NextVisit
  <2>5. PICK walk : Leads(walk, e.to, target) /\ Len(walk) <= n /\ q = ConditionsOf(walk)
    BY <2>2, <2>4 DEF Sound
  <2> DEFINE longer == <<e>> \o walk
  <2>6. Leads(longer, e.from, target) /\ Len(longer) = Len(walk) + 1 /\ ConditionsOf(longer) = <<e.on>> \o q
    BY <2>5, WalkFromBefore
  <2>7. e.from = visit.state
    BY <2>1 DEF Passes
  <2>8. Len(walk) + 1 <= n + 1
    <3>1. walk \in Seq(Legs)
      BY <2>5 DEF Leads
    <3>2. Len(walk) \in Nat
      BY <3>1
    <3> QED BY <2>5, <3>2
  <2> HIDE DEF longer
  <2> QED BY <2>3, <2>6, <2>7, <2>8
<1> QED BY <1>2, <1>3

\* What remains of a walk after it was last in a state.
LEMMA CutAtLast ==
  ASSUME transitions \in Seq(Transitions), NEW walk, NEW s, NEW t, Leads(walk, s, t), NEW x,
         \E i \in 1..Len(walk) : walk[i].to = x
  PROVE  \E j, rest : /\ Leads(rest, x, t) /\ RestOf(walk, j, rest)
                      /\ RestOf(ConditionsOf(walk), j, ConditionsOf(rest))
                      /\ Avoids(rest, {x})
<1> DEFINE n == Len(walk)
           At == {i \in 1..n : walk[i].to = x}
           j == Max(At)
           rest == SubSeq(walk, j + 1, n)
<1>1. n \in Nat
  <2>1. walk \in Seq(Legs)
    BY DEF Leads
  <2> QED BY <2>1
<1>2. j \in At /\ \A i \in At : i <= j
  <2>1. At \subseteq 0..n /\ At # {}
    BY <1>1
  <2> HIDE DEF At
  <2> QED BY <1>1, <2>1, GreatestExists
<1> HIDE DEF j
<1>3. j \in 1..n /\ walk[j].to = x /\ \A i \in 1..n : walk[i].to = x => i <= j
  BY <1>2
<1>4. Leads(rest, x, t) /\ RestOf(walk, j, rest) /\ RestOf(ConditionsOf(walk), j, ConditionsOf(rest))
  BY <1>3, RestOfWalk
<1> HIDE DEF rest, At
<1>5. Avoids(rest, {x})
  <2>1. ASSUME NEW k \in 1..Len(rest) PROVE rest[k].to # x
    <3>1. Len(rest) = n - j /\ rest[k] = walk[j + k]
      BY <1>4 DEF RestOf, n
    <3> HIDE DEF n
    <3>2. j + k \in 1..n /\ ~(j + k <= j)
      BY <1>1, <1>3, <3>1
    <3> QED BY <1>3, <3>1, <3>2
  <2> QED BY <2>1 DEF Avoids
<1> QED BY <1>4, <1>5

LEMMA CompleteStep ==
  ASSUME JourneyInv, NEW target, NEW ways \in Finders, NEW weight \in [Conditions -> Nat],
         NEW n \in Int, Complete(ways, target, n, weight)
  PROVE  Complete(WaysOn(target, ways), target, n + 1, weight)
<1>1. transitions \in Seq(Transitions) /\ IsFiniteSet(ToSet(known)) /\ \A e \in Legs : e.to \in ToSet(known)
  BY DistinctLength DEF JourneyInv
<1> SUFFICES ASSUME NEW visit \in Visits, Cardinality(ToSet(known) \ visit.visited) <= n + 1,
                    NEW walk, Leads(walk, visit.state, target), Avoids(walk, visit.visited)
             PROVE  \E way \in ToSet(WaysOn(target, ways)[visit]) :
                      PathWeight(way, weight) <= PathWeight(ConditionsOf(walk), weight)
  BY DEF Complete
<1>2. WaysOn(target, ways)[visit] = IF visit.state = target THEN << <<>> >> ELSE Onward(ways, visit)
  BY <1>1, WaysOnAre
<1> DEFINE path == ConditionsOf(walk)
           total == PathWeight(path, weight)
<1>3. walk \in Seq(Legs) /\ path \in Seq(Conditions) /\ total \in Nat
      /\ \A i \in 1..Len(walk) : path[i] = walk[i].on
  <2>1. walk \in Seq(Legs)
    BY DEF Leads
  <2>2. path \in Seq(Conditions) /\ \A i \in 1..Len(walk) : path[i] = walk[i].on
    BY <1>1, <2>1, ConditionsAre
  <2> HIDE DEF path
  <2> QED BY <2>1, <2>2, WeightIsNat
<1> HIDE DEF path, total
<1>4. CASE visit.state = target
  <2>1. <<>> \in ToSet(WaysOn(target, ways)[visit])
    BY <1>1, <1>2, <1>4, NoWalk
  <2>2. PathWeight(<<>>, weight) <= total
    BY <1>3, EmptyWeighsNothing
  <2> QED BY <2>1, <2>2 DEF total, path
<1>5. CASE visit.state # target
  <2> DEFINE e == walk[1]
  <2>1. walk # <<>> /\ e.from = visit.state
    BY <1>5 DEF Leads
  <2>2. 1 \in 1..Len(walk) /\ e \in Legs
    BY <1>3, <2>1
  <2>3. path[1] = e.on
    BY <1>3, <2>2
  <2>4. e.to \notin visit.visited
    BY <2>2 DEF Avoids
  <2>5. \E j, rest : /\ Leads(rest, e.to, target) /\ RestOf(walk, j, rest)
                     /\ RestOf(path, j, ConditionsOf(rest)) /\ Avoids(rest, {e.to})
    <3>1. \E i \in 1..Len(walk) : walk[i].to = e.to
      BY <2>2
    <3> QED BY <1>1, <3>1, CutAtLast DEF path
  <2>6. PICK j, rest : /\ Leads(rest, e.to, target) /\ RestOf(walk, j, rest)
                       /\ RestOf(path, j, ConditionsOf(rest)) /\ Avoids(rest, {e.to})
    BY <2>5
  <2> HIDE DEF e
  <2> DEFINE next == NextVisit(e, visit)
  <2>7. next \in Visits /\ next.state = e.to /\ next.visited = visit.visited \cup {e.to}
    BY <1>1, <2>2, OverIs DEF NextVisit
  <2> HIDE DEF next
  <2>8. Cardinality(ToSet(known) \ next.visited) <= n
    <3> DEFINE left == ToSet(known) \ visit.visited
    <3>1. IsFiniteSet(left) /\ e.to \in left
      BY <1>1, <2>2, <2>4, FS_Difference
    <3>2. ToSet(known) \ next.visited = left \ {e.to}
      BY <2>7
    <3>3. Cardinality(left) <= n + 1
      OBVIOUS
    <3> HIDE DEF left
    <3> DEFINE c == Cardinality(left)
               d == Cardinality(left \ {e.to})
    <3>4. c \in Nat /\ d = c - 1
      BY <3>1, FS_RemoveElement, FS_CardinalityType
    <3>5. c <= n + 1
      BY <3>3
    <3> HIDE DEF c, d
    <3>6. d <= n
      BY <3>4, <3>5
    <3> QED BY <3>2, <3>6 DEF d
  <2>9. Avoids(rest, next.visited)
    <3>1. ASSUME NEW k \in 1..Len(rest) PROVE rest[k].to \notin visit.visited
      <4>1. j \in 1..Len(walk) /\ Len(rest) = Len(walk) - j /\ rest[k] = walk[j + k]
        BY <2>6 DEF RestOf
      <4>2. j + k \in 1..Len(walk)
        <5>1. Len(walk) \in Nat
          BY <1>3
        <5> QED BY <4>1, <5>1
      <4> QED BY <4>1, <4>2 DEF Avoids
    <3> QED BY <2>6, <2>7, <3>1 DEF Avoids
  <2>10. PICK q \in ToSet(ways[next]) :
           PathWeight(q, weight) <= PathWeight(ConditionsOf(rest), weight)
    BY <2>6, <2>7, <2>8, <2>9 DEF Complete
  <2>11. e.on \in Conditions
    BY <1>1, <2>2, LegsAre
  <2>12. q \in Seq(Conditions) /\ PathWeight(q, weight) \in Nat
    <3>1. ways[next] \in Seq(Seq(Conditions))
      BY <2>7 DEF Finders, AllWays
    <3>2. q \in Seq(Conditions)
      <4>1. PICK k \in DOMAIN ways[next] : q = ways[next][k]
        BY DEF ToSet
      <4> QED BY <3>1, <4>1
    <3> QED BY <3>2, WeightIsNat
  <2> DEFINE way == <<e.on>> \o q
  <2>13. way \in ToSet(WaysOn(target, ways)[visit])
    <3>1. way \in ToSet(Over(ways, visit, e))
      <4>1. ToSet(Over(ways, visit, e)) = {<<e.on>> \o p : p \in ToSet(ways[NextVisit(e, visit)])}
        BY <1>1, <2>2, OverIs
      <4>2. q \in ToSet(ways[NextVisit(e, visit)])
        BY <2>10 DEF next
      <4> HIDE DEF next
      <4> QED BY <4>1, <4>2
    <3>2. Passes(e, visit)
      BY <2>1, <2>4 DEF Passes, e
    <3>3. way \in ToSet(Onward(ways, visit))
      BY <1>1, <2>2, <3>1, <3>2, OnwardIs
    <3> HIDE DEF way
    <3> QED BY <1>2, <1>5, <3>3
  <2>14. PathWeight(way, weight) = weight[e.on] + PathWeight(q, weight)
    <3>1. /\ way \in Seq(Conditions) /\ Len(way) = Len(q) + 1
          /\ way[1] = e.on /\ \A i \in 1..Len(q) : way[i + 1] = q[i]
      BY <2>11, <2>12, OneBefore
    <3> HIDE DEF way
    <3>2. RestOf(way, 1, q)
      <4>1. Len(q) \in Nat
        BY <2>12
      <4>2. 1 \in 1..Len(way) /\ Len(q) = Len(way) - 1
        BY <3>1, <4>1
      <4>3. \A i \in 1..Len(q) : 1 + i = i + 1
        BY <4>1
      <4> QED BY <3>1, <4>2, <4>3 DEF RestOf
    <3> QED BY <2>12, <3>1, <3>2, RestWeighsLess
  <2>15. /\ PathWeight(ConditionsOf(rest), weight) \in Nat
         /\ weight[e.on] + PathWeight(ConditionsOf(rest), weight) <= total
    <3>1. rest \in Seq(Legs)
      BY <2>6 DEF Leads
    <3>2. ConditionsOf(rest) \in Seq(Conditions)
      BY <1>1, <3>1, ConditionsAre
    <3> QED BY <1>3, <2>3, <2>6, <3>2, RestWeighsLess, WeightIsNat DEF total
  <2>16. PathWeight(way, weight) <= total
    <3>1. weight[e.on] \in Nat
      BY <2>11
    <3> HIDE DEF way
    <3> QED BY <1>3, <2>10, <2>12, <2>14, <2>15, <3>1
  <2> HIDE DEF way
  <2> QED BY <2>13, <2>16 DEF total, path
<1> QED BY <1>4, <1>5

\* The ways to a target are those of walks there, and no walk there is lighter.
LEMMA AllPathsLead ==
  ASSUME JourneyInv, NEW target
  PROVE  /\ AllPaths(target) \in AllWays
         /\ \A way \in ToSet(AllPaths(target)) :
              \E walk : Leads(walk, current, target) /\ Len(walk) <= Len(known)
                        /\ way = ConditionsOf(walk)
         /\ \A weight \in [Conditions -> Nat] : \A walk : Leads(walk, current, target) =>
              \E way \in ToSet(AllPaths(target)) :
                PathWeight(way, weight) <= PathWeight(ConditionsOf(walk), weight)
<1> DEFINE N == Len(known)
           start == [state |-> current, visited |-> {current}]
<1>1. transitions \in Seq(Transitions) /\ current \in JourneyStates /\ N \in Nat
      /\ IsFiniteSet(ToSet(known)) /\ Cardinality(ToSet(known)) = N
  BY DistinctLength DEF JourneyInv
<1>2. start \in Visits /\ start.state = current /\ start.visited = {current}
  BY <1>1 DEF Visits
<1> HIDE DEF start
<1>3. PICK s \in [0..N -> Finders] :
        /\ AllPaths(target) = s[N][start]
        /\ s[0] = WaysOn(target, NoneFound)
        /\ \A k \in 0..N : k < N => s[k + 1] = WaysOn(target, s[k])
  BY <1>1, PathsGoDeeper DEF start
<1> HIDE DEF N
<1>4. NoneFound \in Finders /\ \A visit \in Visits : ToSet(NoneFound[visit]) = {}
  BY DEF NoneFound, Finders, AllWays, ToSet
<1>5. N \in 0..N /\ 0 \in 0..N
  BY <1>1
<1>6. AllPaths(target) \in AllWays
  <2>1. s[N] \in Finders
    BY <1>5
  <2> QED BY <1>2, <1>3, <2>1 DEF Finders
<1>7. Sound(s[N], target, N)
  <2> DEFINE G == {k \in 0..N : Sound(s[k], target, k)}
  <2>1. 0 \in G
    <3>1. Sound(NoneFound, target, -1)
      BY <1>4 DEF Sound
    <3>2. Sound(s[0], target, -1 + 1)
      BY <1>1, <1>3, <1>4, <3>1, SoundStep
    <3> QED BY <1>5, <3>2
  <2>2. ASSUME NEW k \in 0..N, k \in G, k < N PROVE k + 1 \in G
    <3>1. k \in Int /\ k + 1 >= 0 /\ k + 1 \in 0..N
      BY <1>1, <2>2
    <3>2. s[k] \in Finders /\ s[k + 1] = WaysOn(target, s[k]) /\ Sound(s[k], target, k)
      BY <1>3, <2>2
    <3>3. Sound(s[k + 1], target, k + 1)
      BY <1>1, <3>1, <3>2, SoundStep
    <3> QED BY <3>1, <3>3
  <2> HIDE DEF G
  <2>3. N \in G
    BY <1>1, <1>5, <2>1, <2>2, UpTo
  <2> QED BY <2>3 DEF G
<1>8. ASSUME NEW weight \in [Conditions -> Nat] PROVE Complete(s[N], target, N, weight)
  <2> DEFINE G == {k \in 0..N : Complete(s[k], target, k, weight)}
  <2>1. 0 \in G
    <3>1. Complete(NoneFound, target, -1, weight)
      <4>1. \A T : ToSet(known) \ T \in SUBSET ToSet(known)
        OBVIOUS
      <4>2. \A T : IsFiniteSet(ToSet(known) \ T)
        BY <1>1, <4>1, FS_Subset
      <4>3. \A T : Cardinality(ToSet(known) \ T) \in Nat
        BY <4>2, FS_CardinalityType
      <4>4. \A c \in Nat : ~(c <= -1)
        OBVIOUS
      <4>5. \A visit \in Visits : ~(Cardinality(ToSet(known) \ visit.visited) <= -1)
        BY <4>3, <4>4
      <4> QED BY <4>5 DEF Complete
    <3>2. Complete(s[0], target, -1 + 1, weight)
      BY <1>3, <1>4, <3>1, CompleteStep
    <3> QED BY <1>5, <3>2
  <2>2. ASSUME NEW k \in 0..N, k \in G, k < N PROVE k + 1 \in G
    <3>1. k \in Int /\ k + 1 \in 0..N
      BY <1>1, <2>2
    <3>2. s[k] \in Finders /\ s[k + 1] = WaysOn(target, s[k]) /\ Complete(s[k], target, k, weight)
      BY <1>3, <2>2
    <3>3. Complete(s[k + 1], target, k + 1, weight)
      BY <3>1, <3>2, CompleteStep
    <3> QED BY <3>1, <3>3
  <2> HIDE DEF G
  <2>3. N \in G
    BY <1>1, <1>5, <2>1, <2>2, UpTo
  <2> QED BY <2>3 DEF G
<1>9. ASSUME NEW weight \in [Conditions -> Nat], NEW walk, Leads(walk, current, target)
      PROVE  \E way \in ToSet(AllPaths(target)) :
               PathWeight(way, weight) <= PathWeight(ConditionsOf(walk), weight)
  <2>1. Cardinality(ToSet(known) \ start.visited) <= N
    <3> DEFINE left == ToSet(known) \ start.visited
    <3>1. left \in SUBSET ToSet(known)
      OBVIOUS
    <3> HIDE DEF left
    <3>2. Cardinality(left) <= Cardinality(ToSet(known))
      BY <1>1, <3>1, FS_Subset
    <3> QED BY <1>1, <3>2 DEF left
  <2>2. ASSUME NEW least, Leads(least, current, target), Avoids(least, {current})
        PROVE  \E way \in ToSet(AllPaths(target)) :
                 PathWeight(way, weight) <= PathWeight(ConditionsOf(least), weight)
    BY <1>2, <1>3, <1>8, <2>1, <2>2 DEF Complete
  <2>3. CASE Avoids(walk, {current})
    BY <1>9, <2>2, <2>3
  <2>4. CASE ~Avoids(walk, {current})
    <3>1. \E i \in 1..Len(walk) : walk[i].to = current
      BY <2>4 DEF Avoids
    <3>2. PICK j, rest : /\ Leads(rest, current, target)
                         /\ RestOf(ConditionsOf(walk), j, ConditionsOf(rest)) /\ Avoids(rest, {current})
      BY <1>1, <1>9, <3>1, CutAtLast
    <3>3. PICK way \in ToSet(AllPaths(target)) :
            PathWeight(way, weight) <= PathWeight(ConditionsOf(rest), weight)
      BY <2>2, <3>2
    <3>4. walk \in Seq(Legs) /\ rest \in Seq(Legs)
      BY <1>9, <3>2 DEF Leads
    <3> DEFINE path == ConditionsOf(walk)
               after == ConditionsOf(rest)
    <3>5. path \in Seq(Conditions) /\ after \in Seq(Conditions)
      BY <1>1, <3>4, ConditionsAre
    <3>6. way \in Seq(Conditions)
      <4>1. PICK k \in DOMAIN AllPaths(target) : way = AllPaths(target)[k]
        BY DEF ToSet
      <4>2. AllPaths(target) \in Seq(Seq(Conditions))
        BY <1>6 DEF AllWays
      <4> QED BY <4>1, <4>2
    <3>7. RestOf(path, j, after)
      BY <3>2
    <3> HIDE DEF path, after
    <3>8. j \in 1..Len(path) /\ path[1] \in Conditions
      <4>1. j \in 1..Len(path)
        BY <3>7 DEF RestOf
      <4> QED BY <3>5, <4>1
    <3>9. /\ weight[path[1]] + PathWeight(after, weight) <= PathWeight(path, weight)
          /\ weight[path[1]] \in Nat /\ PathWeight(after, weight) \in Nat
          /\ PathWeight(path, weight) \in Nat /\ PathWeight(way, weight) \in Nat
      BY <3>5, <3>6, <3>7, <3>8, RestWeighsLess, WeightIsNat
    <3>10. PathWeight(way, weight) <= PathWeight(after, weight)
      BY <3>3 DEF after
    <3>11. PathWeight(way, weight) <= PathWeight(path, weight)
      BY <3>9, <3>10
    <3> QED BY <3>11 DEF path
  <2> QED BY <2>3, <2>4
<1>10. ASSUME NEW way \in ToSet(AllPaths(target))
       PROVE  \E walk : Leads(walk, current, target) /\ Len(walk) <= Len(known) /\ way = ConditionsOf(walk)
  BY <1>2, <1>3, <1>7 DEF Sound, N
<1> QED BY <1>6, <1>9, <1>10

-----------------------------------------------------------------------------
(* The optimized way *)

\* The ways to a product are those to the known states with it.
LEMMA WaysToAchieveAre ==
  ASSUME JourneyInv, NEW product
  PROVE  /\ WaysToAchieve(product) \in AllWays
         /\ ToSet(WaysToAchieve(product)) =
              UNION {ToSet(AllPaths(s)) : s \in {x \in ToSet(known) : product \in x}}
<1> DEFINE N == Len(known)
           V == AllWays
           base == <<>>
           With(v, k) == IF product \in known[k] THEN v \o AllPaths(known[k]) ELSE v
           g == [x \in (1..N) \X V |-> With(x[2], x[1])]
           D == DOMAIN known
           adds(it) == it = [S \in SUBSET D |->
             IF S = {} THEN base ELSE With(it[S \ {Max(S)}], Max(S))]
           fold == CHOOSE it : adds(it)
<1>1. N \in Nat /\ D = 1..N
  BY DEF JourneyInv, Distinct
<1>2. WaysToAchieve(product) = fold[D]
  BY DEF WaysToAchieve, FoldLeft, MapThenFoldSet
<1>3. \A v, k : With(v, k) = IF product \in known[k] THEN v \o AllPaths(known[k]) ELSE v
  OBVIOUS
<1>4. ToSet(known) = {known[k] : k \in 1..N}
  BY <1>1 DEF ToSet
<1>5. base = <<>> /\ V = AllWays
  OBVIOUS
<1> HIDE DEF With
<1>6. base \in V /\ \A v \in V, k \in 1..N : With(v, k) \in V
  <2>1. base \in V
    BY DEF AllWays
  <2>2. ASSUME NEW v \in V, NEW k \in 1..N PROVE With(v, k) \in V
    <3>1. AllPaths(known[k]) \in V
      BY AllPathsLead
    <3>2. v \o AllPaths(known[k]) \in V
      BY <3>1, Joined DEF AllWays
    <3> QED BY <1>3, <3>2
  <2> QED BY <2>1, <2>2
<1> HIDE DEF N, V, With, base
<1>7. g \in [(1..N) \X V -> V] /\ \A k \in 1..N, v \in V : g[<<k, v>>] = With(v, k)
  BY <1>6
<1> HIDE DEF g
<1>8. PICK step \in [SUBSET (1..N) -> V] : Folds(step, base, g, N)
  BY <1>1, <1>6, <1>7, FoldExists
<1>9. adds(step)
  <2>1. ASSUME NEW S \in SUBSET (1..N)
        PROVE  step[S] = IF S = {} THEN base ELSE With(step[S \ {Max(S)}], Max(S))
    <3>1. S \ {Max(S)} \in SUBSET (1..N)
      OBVIOUS
    <3>2. step[S] = IF S = {} THEN base ELSE g[<<Max(S), step[S \ {Max(S)}]>>]
      BY <1>8 DEF Folds
    <3>3. step[S \ {Max(S)}] \in V
      BY <1>8, <3>1
    <3>4. S # {} => Max(S) \in 1..N
      BY <1>1, LastPlace
    <3> HIDE DEF Max
    <3> QED BY <1>7, <3>2, <3>3, <3>4
  <2> QED BY <1>1, <1>8, <2>1
<1> HIDE DEF adds
<1>10. adds(fold)
  BY <1>9
<1> HIDE DEF fold
<1>11. Steps(fold, base, g, N, V)
  <2>1. fold[{}] = base
    BY <1>10 DEF adds
  <2>2. ASSUME NEW S \in (SUBSET (1..N)) \ {{}}, fold[S \ {Max(S)}] \in V
        PROVE  fold[S] = g[<<Max(S), fold[S \ {Max(S)}]>>]
    <3>1. fold[S] = With(fold[S \ {Max(S)}], Max(S))
      BY <1>1, <1>10 DEF adds
    <3>2. Max(S) \in 1..N
      BY <1>1, LastPlace
    <3> QED BY <1>7, <2>2, <3>1, <3>2
  <2> QED BY <2>1, <2>2 DEF Steps
<1>12. /\ fold[1..0] = base /\ \A n \in 0..N : fold[1..n] \in V
      /\ \A n \in 1..N : fold[1..n] = g[<<n, fold[1..(n - 1)]>>]
  <2>1. N \in Nat /\ base \in V /\ g \in [(1..N) \X V -> V]
    BY <1>1, <1>6, <1>7
  <2>2. InTurn(fold, base, g, N, V)
    BY <1>11, <2>1, FoldsInTurn
  <2> QED BY <2>2 DEF InTurn
<1> DEFINE h == [n \in 0..N |-> fold[1..n]]
<1>13. /\ h[0] = base /\ h[N] = WaysToAchieve(product) /\ \A n \in 0..N : h[n] \in V
       /\ \A n \in 0..N : n < N => n + 1 \in 1..N /\ h[n + 1] = With(h[n], n + 1)
  <2>1. h[0] = base /\ h[N] = fold[D] /\ \A n \in 0..N : h[n] \in V /\ h[n] = fold[1..n]
    BY <1>1, <1>12
  <2>2. ASSUME NEW n \in 0..N, n < N PROVE n + 1 \in 1..N /\ h[n + 1] = With(h[n], n + 1)
    <3>1. n + 1 \in 1..N /\ n + 1 \in 0..N /\ (n + 1) - 1 = n
      BY <1>1, <2>2
    <3>2. h[n + 1] = g[<<n + 1, h[n]>>]
      BY <1>12, <2>1, <3>1
    <3> QED BY <1>7, <2>1, <3>1, <3>2
  <2> QED BY <1>2, <2>1, <2>2
<1> HIDE DEF h
<1> DEFINE Found(n) == UNION {ToSet(AllPaths(known[k])) : k \in {i \in 1..n : product \in known[i]}}
           G == {n \in 0..N : ToSet(h[n]) = Found(n)}
<1>14. \A n \in 0..N : n \in G
  <2>1. 0 \in G
    <3>1. ToSet(<<>>) = {} /\ 1..0 = {} /\ 0 \in 0..N
      BY <1>1 DEF ToSet
    <3> QED BY <1>5, <1>13, <3>1
  <2>2. ASSUME NEW n \in 0..N, n \in G, n < N PROVE n + 1 \in G
    <3> DEFINE s == known[n + 1]
    <3>1. n + 1 \in 1..N /\ n + 1 \in 0..N /\ h[n + 1] = With(h[n], n + 1) /\ h[n] \in AllWays
      BY <1>1, <1>5, <1>13, <2>2
    <3>2. 1..(n + 1) = (1..n) \cup {n + 1}
      BY <1>1
    <3>3. Found(n + 1) = Found(n) \cup IF product \in s THEN ToSet(AllPaths(s)) ELSE {}
      BY <3>2
    <3>4. ToSet(h[n]) = Found(n)
      BY <2>2
    <3> HIDE DEF Found
    <3>5. h[n + 1] = IF product \in s THEN h[n] \o AllPaths(s) ELSE h[n]
      BY <1>3, <3>1
    <3> HIDE DEF s
    <3>6. ToSet(h[n] \o AllPaths(s)) = ToSet(h[n]) \cup ToSet(AllPaths(s))
      <4>1. AllPaths(s) \in AllWays
        BY AllPathsLead
      <4> QED BY <3>1, <4>1, Joined DEF AllWays
    <3>7. ToSet(h[n + 1]) = Found(n + 1)
      BY <3>3, <3>4, <3>5, <3>6
    <3> QED BY <3>1, <3>7
  <2> HIDE DEF G
  <2> QED BY <1>1, <2>1, <2>2, UpTo
<1>15. N \in 0..N
  BY <1>1
<1>16. ToSet(WaysToAchieve(product)) = Found(N)
  <2>1. N \in G
    BY <1>14, <1>15
  <2> QED BY <1>13, <2>1
<1>17. Found(N) = UNION {ToSet(AllPaths(s)) : s \in {x \in ToSet(known) : product \in x}}
  BY <1>4
<1> QED BY <1>5, <1>13, <1>15, <1>16, <1>17

\* way is one of ways, and none of them is lighter.
Lightest(way, ways, weight) ==
  /\ way \in ways
  /\ \A other \in ways : PathWeight(way, weight) <= PathWeight(other, weight)

\* The optimized way is the lightest; there is none just when there are no ways.
LEMMA OptimizedWayIs ==
  ASSUME JourneyInv, NEW product, NEW weight \in [Conditions -> Nat]
  PROVE  \/ OptimizedWay(product, weight) = NoWay /\ ToSet(WaysToAchieve(product)) = {}
         \/ /\ OptimizedWay(product, weight) # NoWay
            /\ Lightest(OptimizedWay(product, weight), ToSet(WaysToAchieve(product)), weight)
<1> DEFINE list == WaysToAchieve(product)
           N == Len(list)
           V == Seq(Conditions) \cup {NoWay}
           base == NoWay
           W(way) == PathWeight(way, weight)
           With(v, k) == IF v = NoWay \/ W(list[k]) < W(v) THEN list[k] ELSE v
           g == [x \in (1..N) \X V |-> With(x[2], x[1])]
           D == DOMAIN list
           adds(it) == it = [S \in SUBSET D |->
             IF S = {} THEN base ELSE With(it[S \ {Max(S)}], Max(S))]
           fold == CHOOSE it : adds(it)
<1>1. N \in Nat /\ D = 1..N
  <2>1. list \in Seq(Seq(Conditions))
    BY WaysToAchieveAre DEF AllWays
  <2> HIDE DEF list
  <2> QED BY <2>1
<1>2. OptimizedWay(product, weight) = fold[D]
  BY DEF OptimizedWay, FoldLeft, MapThenFoldSet
<1>3. \A v, k : With(v, k) = IF v = NoWay \/ W(list[k]) < W(v) THEN list[k] ELSE v
  OBVIOUS
<1>4. ToSet(list) = {list[k] : k \in 1..N} /\ \A k \in 1..N : list[k] \in Seq(Conditions)
  <2>1. list \in Seq(Seq(Conditions))
    BY WaysToAchieveAre DEF AllWays
  <2> HIDE DEF list
  <2> QED BY <1>1, <2>1 DEF ToSet
<1>5. base = NoWay /\ V = Seq(Conditions) \cup {NoWay}
  OBVIOUS
<1> HIDE DEF With, W
<1>6. base \in V /\ \A v \in V, k \in 1..N : With(v, k) \in V
  BY <1>3, <1>4
<1> HIDE DEF N, V, With, base, list
<1>7. g \in [(1..N) \X V -> V] /\ \A k \in 1..N, v \in V : g[<<k, v>>] = With(v, k)
  BY <1>6
<1> HIDE DEF g
<1>8. PICK step \in [SUBSET (1..N) -> V] : Folds(step, base, g, N)
  BY <1>1, <1>6, <1>7, FoldExists
<1>9. adds(step)
  <2>1. ASSUME NEW S \in SUBSET (1..N)
        PROVE  step[S] = IF S = {} THEN base ELSE With(step[S \ {Max(S)}], Max(S))
    <3>1. S \ {Max(S)} \in SUBSET (1..N)
      OBVIOUS
    <3>2. step[S] = IF S = {} THEN base ELSE g[<<Max(S), step[S \ {Max(S)}]>>]
      BY <1>8 DEF Folds
    <3>3. step[S \ {Max(S)}] \in V
      BY <1>8, <3>1
    <3>4. S # {} => Max(S) \in 1..N
      BY <1>1, LastPlace
    <3> HIDE DEF Max
    <3> QED BY <1>7, <3>2, <3>3, <3>4
  <2> QED BY <1>1, <1>8, <2>1
<1> HIDE DEF adds
<1>10. adds(fold)
  BY <1>9
<1> HIDE DEF fold
<1>11. Steps(fold, base, g, N, V)
  <2>1. fold[{}] = base
    BY <1>10 DEF adds
  <2>2. ASSUME NEW S \in (SUBSET (1..N)) \ {{}}, fold[S \ {Max(S)}] \in V
        PROVE  fold[S] = g[<<Max(S), fold[S \ {Max(S)}]>>]
    <3>1. fold[S] = With(fold[S \ {Max(S)}], Max(S))
      BY <1>1, <1>10 DEF adds
    <3>2. Max(S) \in 1..N
      BY <1>1, LastPlace
    <3> QED BY <1>7, <2>2, <3>1, <3>2
  <2> QED BY <2>1, <2>2 DEF Steps
<1>12. /\ fold[1..0] = base /\ \A n \in 0..N : fold[1..n] \in V
      /\ \A n \in 1..N : fold[1..n] = g[<<n, fold[1..(n - 1)]>>]
  <2>1. N \in Nat /\ base \in V /\ g \in [(1..N) \X V -> V]
    BY <1>1, <1>6, <1>7
  <2>2. InTurn(fold, base, g, N, V)
    BY <1>11, <2>1, FoldsInTurn
  <2> QED BY <2>2 DEF InTurn
<1> DEFINE h == [n \in 0..N |-> fold[1..n]]
<1>13. /\ h[0] = base /\ h[N] = OptimizedWay(product, weight) /\ \A n \in 0..N : h[n] \in V
       /\ \A n \in 0..N : n < N => n + 1 \in 1..N /\ h[n + 1] = With(h[n], n + 1)
  <2>1. h[0] = base /\ h[N] = fold[D] /\ \A n \in 0..N : h[n] \in V /\ h[n] = fold[1..n]
    BY <1>1, <1>12
  <2>2. ASSUME NEW n \in 0..N, n < N PROVE n + 1 \in 1..N /\ h[n + 1] = With(h[n], n + 1)
    <3>1. n + 1 \in 1..N /\ n + 1 \in 0..N /\ (n + 1) - 1 = n
      BY <1>1, <2>2
    <3>2. h[n + 1] = g[<<n + 1, h[n]>>]
      BY <1>12, <2>1, <3>1
    <3> QED BY <1>7, <2>1, <3>1, <3>2
  <2> QED BY <1>2, <2>1, <2>2
<1> HIDE DEF h
<1>14. NoWay \notin Seq(Conditions)
  BY JourneysAssumption
<1> DEFINE Best(way, n) ==
             IF n = 0 THEN way = NoWay
             ELSE way # NoWay /\ Lightest(way, {list[i] : i \in 1..n}, weight)
           G == {n \in 0..N : Best(h[n], n)}
<1>15. \A n \in 0..N : n \in G
  <2>1. 0 \in G
    BY <1>1, <1>5, <1>13
  <2>2. ASSUME NEW n \in 0..N, n \in G, n < N PROVE n + 1 \in G
    <3> DEFINE new == list[n + 1]
               old == h[n]
    <3>1. n + 1 \in 1..N /\ n + 1 \in 0..N /\ h[n + 1] = With(old, n + 1)
      BY <1>1, <1>13, <2>2
    <3>2. {list[i] : i \in 1..(n + 1)} = {list[i] : i \in 1..n} \cup {new}
      <4>1. 1..(n + 1) = (1..n) \cup {n + 1}
        BY <1>1
      <4> QED BY <4>1
    <3>3. Best(old, n)
      BY <2>2
    <3>4. h[n + 1] = IF old = NoWay \/ W(new) < W(old) THEN new ELSE old
      BY <1>3, <3>1
    <3>5. new \in Seq(Conditions) /\ new # NoWay
      BY <1>4, <1>14, <3>1
    <3>6. \A i \in 1..n : list[i] \in Seq(Conditions)
      <4>1. \A i \in 1..n : i \in 1..N
        BY <1>1
      <4> QED BY <1>4, <4>1
    <3>7. n + 1 # 0 /\ (n = 0 => 1..n = {})
      BY <1>1
    <3> HIDE DEF new, old
    <3> DEFINE earlier == {list[i] : i \in 1..n}
    <3>8. \A way \in earlier : way \in Seq(Conditions)
      BY <3>6
    <3>9. n = 0 => earlier = {}
      BY <3>7
    <3>10. \A way \in Seq(Conditions) : W(way) \in Nat
      BY WeightIsNat DEF W
    <3>11. Lightest(h[n + 1], earlier \cup {new}, weight) /\ h[n + 1] # NoWay
      <4> HIDE DEF earlier
      <4>1. CASE n = 0
        <5>1. old = NoWay
          BY <3>3, <4>1
        <5>2. earlier \cup {new} = {new} /\ h[n + 1] = new
          BY <3>4, <3>9, <4>1, <5>1
        <5>3. W(new) <= W(new)
          BY <3>5, <3>10
        <5> QED BY <3>5, <5>2, <5>3 DEF Lightest, W
      <4>2. CASE n # 0
        <5>1. /\ old # NoWay /\ old \in earlier
              /\ \A way \in earlier : W(old) <= W(way)
          BY <3>3, <4>2 DEF Lightest, W, earlier
        <5>2. W(old) \in Nat /\ W(new) \in Nat /\ \A way \in earlier : W(way) \in Nat
          BY <3>5, <3>8, <3>10, <5>1
        <5>3. CASE W(new) < W(old)
          <6>1. h[n + 1] = new
            BY <3>4, <5>3
          <6>2. \A way \in earlier : W(new) <= W(way)
            <7>1. \A x, y, z \in Nat : x < y /\ y <= z => x <= z
              OBVIOUS
            <7> QED BY <5>1, <5>2, <5>3, <7>1
          <6>3. W(new) <= W(new)
            BY <5>2
          <6> QED BY <3>5, <6>1, <6>2, <6>3 DEF Lightest, W
        <5>4. CASE ~(W(new) < W(old))
          <6>1. h[n + 1] = old
            BY <3>4, <5>1, <5>4
          <6>2. W(old) <= W(new)
            BY <5>2, <5>4
          <6> QED BY <5>1, <6>1, <6>2 DEF Lightest, W
        <5> QED BY <5>3, <5>4
      <4> QED BY <4>1, <4>2
    <3>12. Best(h[n + 1], n + 1)
      BY <3>2, <3>7, <3>11
    <3> QED BY <3>1, <3>12
  <2> HIDE DEF G
  <2> QED BY <1>1, <2>1, <2>2, UpTo
<1>16. N \in 0..N
  BY <1>1
<1>17. Best(OptimizedWay(product, weight), N)
  <2>1. N \in G
    BY <1>15, <1>16
  <2> QED BY <1>13, <2>1
<1>18. CASE N = 0
  <2>1. ToSet(list) = {}
    <3>1. 1..N = {}
      BY <1>18
    <3> QED BY <1>4, <3>1
  <2> QED BY <1>17, <1>18, <2>1 DEF list
<1>19. CASE N # 0
  BY <1>4, <1>17, <1>19 DEF list
<1> QED BY <1>18, <1>19

\* A customer who fulfils the conditions of a walk gets where it leads.
LEMMA CustomerArrives ==
  ASSUME JourneyInv, OneWayOn, NEW walk, NEW t, Leads(walk, current, t)
  PROVE  FoldLeft(After, current, ConditionsOf(walk)) = t
<1> DEFINE way == ConditionsOf(walk)
           N == Len(way)
           V == JourneyStates
           base == current
           With(v, k) == After(v, way[k])
           g == [x \in (1..N) \X V |-> With(x[2], x[1])]
           D == DOMAIN way
           adds(it) == it = [S \in SUBSET D |->
             IF S = {} THEN base ELSE With(it[S \ {Max(S)}], Max(S))]
           fold == CHOOSE it : adds(it)
<1>1. /\ N \in Nat /\ D = 1..N /\ N = Len(walk) /\ walk \in Seq(Legs)
      /\ transitions \in Seq(Transitions)
      /\ \A k \in 1..N : way[k] = walk[k].on /\ walk[k] \in Legs
  <2>1. walk \in Seq(Legs) /\ transitions \in Seq(Transitions)
    BY DEF Leads, JourneyInv
  <2>2. /\ way \in Seq(Conditions) /\ N = Len(walk)
        /\ \A k \in 1..Len(walk) : way[k] = walk[k].on
    BY <2>1, ConditionsAre
  <2> HIDE DEF way
  <2>3. N \in Nat /\ D = 1..N /\ \A k \in 1..N : walk[k] \in Legs
    BY <2>1, <2>2
  <2> QED BY <2>1, <2>2, <2>3
<1>2. FoldLeft(After, current, way) = fold[D]
  BY DEF FoldLeft, MapThenFoldSet
<1>3. \A v, k : With(v, k) = After(v, way[k])
  OBVIOUS
<1>4. /\ walk = <<>> => current = t
      /\ walk # <<>> => walk[1].from = current /\ walk[N].to = t
      /\ \A i \in 1..(N - 1) : walk[i].to = walk[i + 1].from
  <2> HIDE DEF way
  <2> QED BY <1>1 DEF Leads
<1>5. base = current /\ V = JourneyStates
  OBVIOUS
<1> HIDE DEF With, way
<1>6. base \in V /\ \A v \in V, k \in 1..N : With(v, k) \in V
  <2>1. base \in V
    BY DEF JourneyInv
  <2>2. ASSUME NEW v \in V, NEW k \in 1..N PROVE With(v, k) \in V
    <3>1. \A e \in Legs : e.to \in JourneyStates
      BY <1>1, LegsAre
    <3>2. After(v, way[k]) \in V
      BY <1>1, <3>1, AfterIs
    <3> QED BY <1>3, <3>2
  <2> QED BY <2>1, <2>2
<1> HIDE DEF N, V, With, base
<1>7. g \in [(1..N) \X V -> V] /\ \A k \in 1..N, v \in V : g[<<k, v>>] = With(v, k)
  BY <1>6
<1> HIDE DEF g
<1>8. PICK step \in [SUBSET (1..N) -> V] : Folds(step, base, g, N)
  BY <1>1, <1>6, <1>7, FoldExists
<1>9. adds(step)
  <2>1. ASSUME NEW S \in SUBSET (1..N)
        PROVE  step[S] = IF S = {} THEN base ELSE With(step[S \ {Max(S)}], Max(S))
    <3>1. S \ {Max(S)} \in SUBSET (1..N)
      OBVIOUS
    <3>2. step[S] = IF S = {} THEN base ELSE g[<<Max(S), step[S \ {Max(S)}]>>]
      BY <1>8 DEF Folds
    <3>3. step[S \ {Max(S)}] \in V
      BY <1>8, <3>1
    <3>4. S # {} => Max(S) \in 1..N
      BY <1>1, LastPlace
    <3> HIDE DEF Max
    <3> QED BY <1>7, <3>2, <3>3, <3>4
  <2> QED BY <1>1, <1>8, <2>1
<1> HIDE DEF adds
<1>10. adds(fold)
  BY <1>9
<1> HIDE DEF fold
<1>11. Steps(fold, base, g, N, V)
  <2>1. fold[{}] = base
    BY <1>10 DEF adds
  <2>2. ASSUME NEW S \in (SUBSET (1..N)) \ {{}}, fold[S \ {Max(S)}] \in V
        PROVE  fold[S] = g[<<Max(S), fold[S \ {Max(S)}]>>]
    <3>1. fold[S] = With(fold[S \ {Max(S)}], Max(S))
      BY <1>1, <1>10 DEF adds
    <3>2. Max(S) \in 1..N
      BY <1>1, LastPlace
    <3> QED BY <1>7, <2>2, <3>1, <3>2
  <2> QED BY <2>1, <2>2 DEF Steps
<1>12. /\ fold[1..0] = base /\ \A n \in 0..N : fold[1..n] \in V
      /\ \A n \in 1..N : fold[1..n] = g[<<n, fold[1..(n - 1)]>>]
  <2>1. N \in Nat /\ base \in V /\ g \in [(1..N) \X V -> V]
    BY <1>1, <1>6, <1>7
  <2>2. InTurn(fold, base, g, N, V)
    BY <1>11, <2>1, FoldsInTurn
  <2> QED BY <2>2 DEF InTurn
<1> DEFINE h == [n \in 0..N |-> fold[1..n]]
<1>13. /\ h[0] = base /\ h[N] = FoldLeft(After, current, way) /\ \A n \in 0..N : h[n] \in V
       /\ \A n \in 0..N : n < N => n + 1 \in 1..N /\ h[n + 1] = With(h[n], n + 1)
  <2>1. h[0] = base /\ h[N] = fold[D] /\ \A n \in 0..N : h[n] \in V /\ h[n] = fold[1..n]
    BY <1>1, <1>12
  <2>2. ASSUME NEW n \in 0..N, n < N PROVE n + 1 \in 1..N /\ h[n + 1] = With(h[n], n + 1)
    <3>1. n + 1 \in 1..N /\ n + 1 \in 0..N /\ (n + 1) - 1 = n
      BY <1>1, <2>2
    <3>2. h[n + 1] = g[<<n + 1, h[n]>>]
      BY <1>12, <2>1, <3>1
    <3> QED BY <1>7, <2>1, <3>1, <3>2
  <2> QED BY <1>2, <2>1, <2>2
<1> HIDE DEF h
<1>14. \A e \in Legs : After(e.from, e.on) = e.to
  <2> SUFFICES ASSUME NEW e \in Legs PROVE After(e.from, e.on) = e.to
    OBVIOUS
  <2>1. PICK f \in Legs : f.from = e.from /\ f.on = e.on /\ After(e.from, e.on) = f.to
    BY <1>1, AfterIs
  <2> QED BY <2>1 DEF OneWayOn, Legs
<1> DEFINE Place(n) == IF n = 0 THEN current ELSE walk[n].to
           G == {n \in 0..N : h[n] = Place(n)}
<1>15. \A n \in 0..N : n \in G
  <2>1. 0 \in G
    BY <1>1, <1>5, <1>13
  <2>2. ASSUME NEW n \in 0..N, n \in G, n < N PROVE n + 1 \in G
    <3> DEFINE e == walk[n + 1]
    <3>1. n + 1 \in 1..N /\ n + 1 \in 0..N /\ h[n + 1] = With(h[n], n + 1) /\ n + 1 # 0
      BY <1>1, <1>13, <2>2
    <3>2. h[n + 1] = After(h[n], e.on) /\ e \in Legs
      BY <1>1, <1>3, <3>1
    <3>3. h[n] = e.from
      <4>1. CASE n = 0
        <5>1. walk # <<>> /\ n + 1 = 1
          BY <1>1, <3>1, <4>1
        <5> QED BY <1>4, <2>2, <4>1, <5>1
      <4>2. CASE n # 0
        <5>1. n \in 1..(N - 1)
          BY <1>1, <2>2, <4>2
        <5> QED BY <1>4, <2>2, <4>2, <5>1
      <4> QED BY <4>1, <4>2
    <3> HIDE DEF e
    <3>4. h[n + 1] = e.to
      BY <1>14, <3>2, <3>3
    <3> QED BY <3>1, <3>4 DEF e
  <2> HIDE DEF G
  <2> QED BY <1>1, <2>1, <2>2, UpTo
<1>16. h[N] = Place(N)
  <2>1. N \in 0..N
    BY <1>1
  <2> QED BY <1>15, <2>1
<1>17. Place(N) = t
  <2>1. N = 0 => walk = <<>>
    BY <1>1, EmptySeq
  <2>2. N # 0 => walk # <<>>
    BY <1>1
  <2> QED BY <1>4, <2>1, <2>2
<1>18. FoldLeft(After, current, way) = t
  BY <1>13, <1>16, <1>17
<1> QED BY <1>18 DEF way

\* The walks are the sequences of transitions that lead on from the current state.
LEMMA WalksLead ==
  ASSUME JourneyInv
  PROVE  /\ \A walk \in Walks : Leads(walk, current, Arrives(walk))
         /\ \A walk, t : Leads(walk, current, t) /\ Len(walk) <= Len(known) =>
              walk \in Walks /\ Arrives(walk) = t
<1>1. Len(known) \in Nat
  BY DEF JourneyInv, Distinct
<1>2. ASSUME NEW walk \in Walks PROVE Leads(walk, current, Arrives(walk))
  <2>1. PICK n \in 0..Len(known) : walk \in [1..n -> Legs]
    BY DEF Walks, Legs
  <2>2. n \in Nat
    BY <1>1
  <2>3. walk \in Seq(Legs)
    BY <2>1, <2>2
  <2>4. /\ walk # <<>> => walk[1].from = current
        /\ \A i \in 1..(Len(walk) - 1) : walk[i].to = walk[i + 1].from
    BY DEF Walks
  <2> QED BY <2>3, <2>4 DEF Leads, Arrives
<1>3. ASSUME NEW walk, NEW t, Leads(walk, current, t), Len(walk) <= Len(known)
      PROVE  walk \in Walks /\ Arrives(walk) = t
  <2> DEFINE n == Len(walk)
  <2>1. walk \in Seq(Legs)
    BY <1>3 DEF Leads
  <2>2. n \in Nat /\ walk \in [1..n -> Legs]
    BY <2>1
  <2>3. n \in 0..Len(known)
    BY <1>1, <1>3, <2>2
  <2>4. walk \in UNION {[1..m -> ToSet(transitions)] : m \in 0..Len(known)}
    BY <2>2, <2>3 DEF Legs
  <2>5. walk \in Walks
    BY <1>3, <2>4 DEF Walks, Leads
  <2> QED BY <1>3, <2>5 DEF Leads, Arrives
<1> QED BY <1>2, <1>3

LEMMA WaysLeadNow == JourneyInv => WaysLead
<1> SUFFICES ASSUME JourneyInv, NEW product \in Products, NEW weight \in Weights
             PROVE  LET way == OptimizedWay(product, weight)
                        leading == {walk \in Walks : Arrives(walk) \in ToSet(known) /\ product \in Arrives(walk)}
                    IN /\ \A walk \in leading :
                            /\ way # NoWay
                            /\ PathWeight(way, weight) <= PathWeight(ConditionsOf(walk), weight)
                       /\ way # NoWay =>
                            /\ \E walk \in leading : ConditionsOf(walk) = way
                            /\ OneWayOn => product \in FoldLeft(After, current, way)
  BY DEF WaysLead
<1> DEFINE way == OptimizedWay(product, weight)
           ways == ToSet(WaysToAchieve(product))
           leading == {walk \in Walks : Arrives(walk) \in ToSet(known) /\ product \in Arrives(walk)}
<1>1. weight \in [Conditions -> Nat]
  BY JourneysAssumption
<1>2. \/ way = NoWay /\ ways = {}
      \/ way # NoWay /\ Lightest(way, ways, weight)
  BY <1>1, OptimizedWayIs
<1>3. ways = UNION {ToSet(AllPaths(s)) : s \in {x \in ToSet(known) : product \in x}}
  BY WaysToAchieveAre
<1> HIDE DEF way, ways
<1>4. ASSUME NEW walk \in leading
      PROVE  /\ way # NoWay
             /\ PathWeight(way, weight) <= PathWeight(ConditionsOf(walk), weight)
  <2> DEFINE s == Arrives(walk)
  <2>1. walk \in Walks /\ s \in ToSet(known) /\ product \in s /\ Leads(walk, current, s)
    BY WalksLead
  <2> HIDE DEF s
  <2>2. PICK other \in ToSet(AllPaths(s)) :
          PathWeight(other, weight) <= PathWeight(ConditionsOf(walk), weight)
    BY <1>1, <2>1, AllPathsLead
  <2>3. other \in ways
    BY <1>3, <2>1
  <2>4. way # NoWay /\ way \in ways /\ PathWeight(way, weight) <= PathWeight(other, weight)
    BY <1>2, <2>3 DEF Lightest
  <2>5. \A x \in ways : PathWeight(x, weight) \in Nat
    <3>1. WaysToAchieve(product) \in Seq(Seq(Conditions))
      BY WaysToAchieveAre DEF AllWays
    <3>2. \A x \in ways : x \in Seq(Conditions)
      BY <3>1 DEF ways, ToSet
    <3> QED BY <1>1, <3>2, WeightIsNat
  <2>6. PathWeight(ConditionsOf(walk), weight) \in Nat
    <3>1. walk \in Seq(Legs) /\ transitions \in Seq(Transitions)
      BY <2>1 DEF Leads, JourneyInv
    <3> QED BY <1>1, <3>1, ConditionsAre, WeightIsNat
  <2> DEFINE a == PathWeight(way, weight)
             b == PathWeight(other, weight)
             c == PathWeight(ConditionsOf(walk), weight)
  <2>7. a \in Nat /\ b \in Nat /\ c \in Nat /\ a <= b /\ b <= c
    BY <2>2, <2>3, <2>4, <2>5, <2>6
  <2> HIDE DEF a, b, c
  <2>8. a <= c
    BY <2>7
  <2> QED BY <2>4, <2>8 DEF a, c
<1>5. ASSUME way # NoWay
      PROVE  /\ \E walk \in leading : ConditionsOf(walk) = way
             /\ OneWayOn => product \in FoldLeft(After, current, way)
  <2>1. PICK s \in ToSet(known) : product \in s /\ way \in ToSet(AllPaths(s))
    BY <1>2, <1>3, <1>5 DEF Lightest
  <2>2. PICK walk : Leads(walk, current, s) /\ Len(walk) <= Len(known) /\ way = ConditionsOf(walk)
    BY <2>1, AllPathsLead
  <2>3. walk \in Walks /\ Arrives(walk) = s
    BY <2>2, WalksLead
  <2>4. OneWayOn => FoldLeft(After, current, ConditionsOf(walk)) = s
    BY <2>2, CustomerArrives
  <2> QED BY <2>1, <2>2, <2>3, <2>4
<1> QED BY <1>4, <1>5 DEF way

\* Whatever states and transitions are added and whatever conditions the customer
\* fulfils, the optimized way is offered just when some known state with the product can
\* be reached, leads there, and no walk there is lighter (UserJourney.optimizedWayToAchieve
\* over all paths of the graph, onFulfilled).
THEOREM WaysKeepLeading == JSpec => []WaysLead
<1>1. JInit => JourneyInv
  BY JourneyStart
<1>2. JourneyInv /\ [JNext]_jvars => JourneyInv'
  BY JourneyStep
<1>3. JourneyInv => WaysLead
  BY WaysLeadNow
<1> QED BY <1>1, <1>2, <1>3, PTL DEF JSpec
=============================================================================
