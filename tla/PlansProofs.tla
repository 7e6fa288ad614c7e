----------------------------- MODULE PlansProofs ------------------------------
(***************************************************************************)
(* Theorems about the analyses of plans: every item of a plan and every    *)
(* item that really happened is accounted for once, and the statistics add *)
(* up.                                                                     *)
(***************************************************************************)
EXTENDS PaymentSchedules, ProductionPlans, Sums, SequenceTheorems

-----------------------------------------------------------------------------
(* The delta, planned item by planned item *)

\* The deltas of a plan.
Deltas(planned, actual) ==
  [planned : {planned}, actual : {actual},
   matched : Seq([planned : DOMAIN planned, actual : Seq(DOMAIN actual)]),
   missed : Seq(DOMAIN planned), left : SUBSET DOMAIN actual]

\* The delta after the first n planned items: each is matched or missed once, and each
\* actual item is in one group or left over.
GroupsAreSound(d, n) ==
  \A m \in DOMAIN d.matched :
    /\ d.matched[m].planned \in 1..n
    /\ d.matched[m].planned \notin ToSet(d.missed)
    /\ IsInjective(d.matched[m].actual)
    /\ ToSet(d.matched[m].actual) \cap d.left = {}
Apart(d, i, j) ==
  /\ d.matched[i].planned # d.matched[j].planned
  /\ ToSet(d.matched[i].actual) \cap ToSet(d.matched[j].actual) = {}
GroupsAreApart(d) == \A i, j \in DOMAIN d.matched : i # j => Apart(d, i, j)
MissedOnce(d, n) == IsInjective(d.missed) /\ ToSet(d.missed) \subseteq 1..n
PlannedIsCovered(d, n) ==
  \A i \in 1..n : i \in ToSet(d.missed) \/ \E m \in DOMAIN d.matched : d.matched[m].planned = i
ActualIsCovered(d) ==
  \A k \in DOMAIN d.actual :
    k \in d.left \/ \E m \in DOMAIN d.matched : k \in ToSet(d.matched[m].actual)

Accounted(d, n) ==
  /\ GroupsAreSound(d, n) /\ GroupsAreApart(d)
  /\ MissedOnce(d, n) /\ PlannedIsCovered(d, n) /\ ActualIsCovered(d)

\* A group that can be taken.
Groups(left) == {group \in Seq(left) : IsInjective(group)}

LEMMA DeltaIs ==
  ASSUME NEW A, NEW B, NEW planned \in Seq(A), NEW actual \in Seq(B),
         NEW d \in Deltas(planned, actual)
  PROVE  /\ d.planned = planned /\ d.actual = actual /\ d.left \subseteq DOMAIN actual
         /\ DOMAIN planned = 1..Len(planned) /\ Len(planned) \in Nat
         /\ DOMAIN actual = 1..Len(actual) /\ Len(actual) \in Nat
         /\ DOMAIN d.matched = 1..Len(d.matched) /\ Len(d.matched) \in Nat
         /\ DOMAIN d.missed = 1..Len(d.missed) /\ Len(d.missed) \in Nat
         /\ \A m \in DOMAIN d.matched :
              /\ d.matched[m].planned \in DOMAIN planned
              /\ d.matched[m].actual \in Seq(DOMAIN actual)
              /\ DOMAIN d.matched[m].actual = 1..Len(d.matched[m].actual)
         /\ \A m \in DOMAIN d.missed : d.missed[m] \in DOMAIN planned
<1> DEFINE Match == [planned : DOMAIN planned, actual : Seq(DOMAIN actual)]
<1>1. /\ d.planned = planned /\ d.actual = actual /\ d.left \subseteq DOMAIN actual
      /\ d.matched \in Seq(Match) /\ d.missed \in Seq(DOMAIN planned)
  BY DEF Deltas
<1>2. ASSUME NEW x \in Match
      PROVE  /\ x.planned \in DOMAIN planned
             /\ x.actual \in Seq(DOMAIN actual)
             /\ DOMAIN x.actual = 1..Len(x.actual)
  OBVIOUS
<1> HIDE DEF Match
<1>3. /\ DOMAIN d.matched = 1..Len(d.matched) /\ Len(d.matched) \in Nat
      /\ \A m \in DOMAIN d.matched : d.matched[m] \in Match
  BY <1>1
<1>4. /\ DOMAIN d.missed = 1..Len(d.missed) /\ Len(d.missed) \in Nat
      /\ \A m \in DOMAIN d.missed : d.missed[m] \in DOMAIN planned
  BY <1>1
<1> QED BY <1>1, <1>2, <1>3, <1>4

LEMMA NothingMatchedIsAccounted ==
  ASSUME NEW A, NEW B, NEW planned \in Seq(A), NEW actual \in Seq(B)
  PROVE  /\ NothingMatched(planned, actual) \in Deltas(planned, actual)
         /\ Accounted(NothingMatched(planned, actual), 0)
<1>1. NothingMatched(planned, actual) \in Deltas(planned, actual)
  BY DEF NothingMatched, Deltas
<1>2. Accounted(NothingMatched(planned, actual), 0)
  BY DEF NothingMatched, Accounted, GroupsAreSound, GroupsAreApart, MissedOnce,
         PlannedIsCovered, ActualIsCovered, ToSet, IsInjective
<1> QED BY <1>1, <1>2

LEMMA AssignedIsDelta ==
  ASSUME NEW A, NEW B, NEW planned \in Seq(A), NEW actual \in Seq(B),
         NEW d \in Deltas(planned, actual), NEW i \in DOMAIN planned, NEW group \in Seq(d.left)
  PROVE  Assigned(d, i, group) \in Deltas(planned, actual)
<1>1. d.left \subseteq DOMAIN actual
  BY DEF Deltas
<1>2. group \in Seq(DOMAIN actual)
  BY <1>1
<1>3. CASE group = <<>>
  <2>1. Append(d.missed, i) \in Seq(DOMAIN planned)
    BY DEF Deltas
  <2> QED BY <1>3, <2>1 DEF Assigned, Deltas
<1>4. CASE group # <<>>
  <2> DEFINE match == [planned |-> i, actual |-> group]
  <2>1. match \in [planned : DOMAIN planned, actual : Seq(DOMAIN actual)]
    BY <1>2
  <2> HIDE DEF match
  <2>2. Append(d.matched, match) \in Seq([planned : DOMAIN planned, actual : Seq(DOMAIN actual)])
    BY <2>1 DEF Deltas
  <2>3. Taken(d.left, group) \in SUBSET DOMAIN actual
    BY <1>1 DEF Taken
  <2>4. Assigned(d, i, group) = [d EXCEPT !.matched = Append(d.matched, match),
                                          !.left = Taken(d.left, group)]
    BY <1>4 DEF Assigned, match
  <2> QED BY <2>2, <2>3, <2>4 DEF Deltas
<1> QED BY <1>3, <1>4

\* An appended element takes the place after the last one; the others keep theirs.
LEMMA AppendedPlaces ==
  ASSUME NEW T, NEW s \in Seq(T), NEW x \in T, NEW e, e = Append(s, x)
  PROVE  /\ Len(s) + 1 \notin DOMAIN s /\ DOMAIN e = (DOMAIN s) \cup {Len(s) + 1}
         /\ e[Len(s) + 1] = x /\ \A m \in DOMAIN s : e[m] = s[m]
<1>1. Len(s) \in Nat /\ DOMAIN s = 1..Len(s)
  OBVIOUS
<1>2. Len(e) = Len(s) + 1 /\ DOMAIN e = 1..Len(e)
  OBVIOUS
<1>3. e[Len(s) + 1] = x
  OBVIOUS
<1>4. \A m \in 1..Len(s) : e[m] = s[m]
  OBVIOUS
<1>5. DOMAIN e = 1..Len(s) \cup {Len(s) + 1} /\ Len(s) + 1 \notin 1..Len(s)
  BY <1>1, <1>2
<1> QED BY <1>1, <1>3, <1>4, <1>5

LEMMA AssignedIsAccounted ==
  ASSUME NEW A, NEW B, NEW planned \in Seq(A), NEW actual \in Seq(B),
         NEW d \in Deltas(planned, actual), NEW n \in 0..(Len(planned) - 1), Accounted(d, n),
         NEW group \in Groups(d.left)
  PROVE  Accounted(Assigned(d, n + 1, group), n + 1)
<1> DEFINE e == Assigned(d, n + 1, group)
<1> SUFFICES Accounted(e, n + 1)
  OBVIOUS
<1> DEFINE Match == [planned : DOMAIN planned, actual : Seq(DOMAIN actual)]
<1>0. d.matched \in Seq(Match) /\ d.missed \in Seq(DOMAIN planned)
  BY DEF Deltas
<1> HIDE DEF Match
<1>1. /\ DOMAIN d.matched = 1..Len(d.matched) /\ Len(d.matched) \in Nat
      /\ DOMAIN d.missed = 1..Len(d.missed) /\ Len(d.missed) \in Nat
      /\ DOMAIN group = 1..Len(group) /\ \A j \in DOMAIN group : group[j] \in d.left
      /\ IsInjective(group)
      /\ n \in Nat /\ n + 1 \in DOMAIN planned
  BY <1>0, DeltaIs DEF Groups
<1>a. GroupsAreSound(d, n) /\ GroupsAreApart(d) /\ MissedOnce(d, n) /\ PlannedIsCovered(d, n)
      /\ ActualIsCovered(d)
  BY DEF Accounted
<1>b. n + 1 \notin ToSet(d.missed) /\ \A m \in DOMAIN d.matched : d.matched[m].planned # n + 1
  BY <1>1, <1>a DEF GroupsAreSound, MissedOnce
<1>c. /\ 1..n \subseteq 1..(n + 1) /\ n + 1 \in 1..(n + 1)
      /\ \A i \in 1..(n + 1) : i \in 1..n \/ i = n + 1
  BY <1>1
<1>2. CASE group = <<>>
  <2>1. /\ e.matched = d.matched /\ e.missed = Append(d.missed, n + 1)
        /\ e.left = d.left /\ e.actual = d.actual
    BY <1>2 DEF Assigned, Deltas
  <2> HIDE DEF e
  <2> DEFINE L == Len(d.missed) + 1
  <2>2. /\ L \notin DOMAIN d.missed /\ DOMAIN e.missed = (DOMAIN d.missed) \cup {L}
        /\ e.missed[L] = n + 1 /\ \A m \in DOMAIN d.missed : e.missed[m] = d.missed[m]
    <3> DEFINE before == d.missed
               places == DOMAIN planned
    <3>1. before \in Seq(places) /\ n + 1 \in places /\ e.missed = Append(before, n + 1)
      BY <1>0, <1>1, <2>1
    <3> HIDE DEF before, places
    <3>2. /\ Len(before) + 1 \notin DOMAIN before
          /\ DOMAIN e.missed = (DOMAIN before) \cup {Len(before) + 1}
          /\ e.missed[Len(before) + 1] = n + 1 /\ \A m \in DOMAIN before : e.missed[m] = before[m]
      BY <3>1, AppendedPlaces
    <3> QED BY <3>2 DEF before
  <2> HIDE DEF L
  <2>3. ToSet(e.missed) = ToSet(d.missed) \cup {n + 1}
    BY <2>2 DEF ToSet
  <2>4. GroupsAreSound(e, n + 1)
    BY <1>a, <1>b, <1>c, <2>1, <2>3 DEF GroupsAreSound
  <2>5. GroupsAreApart(e) /\ ActualIsCovered(e)
    BY <1>a, <2>1 DEF GroupsAreApart, Apart, ActualIsCovered
  <2>6. MissedOnce(e, n + 1)
    BY <1>a, <1>b, <1>c, <2>2, <2>3 DEF MissedOnce, IsInjective, ToSet
  <2>7. PlannedIsCovered(e, n + 1)
    BY <1>a, <1>c, <2>1, <2>3 DEF PlannedIsCovered
  <2> QED BY <2>4, <2>5, <2>6, <2>7 DEF Accounted
<1>3. CASE group # <<>>
  <2> DEFINE match == [planned |-> n + 1, actual |-> group]
  <2>1. /\ e.matched = Append(d.matched, match) /\ e.missed = d.missed
        /\ e.left = d.left \ ToSet(group) /\ e.actual = d.actual
    BY <1>3 DEF Assigned, Deltas, Taken
  <2>2. match.planned = n + 1 /\ match.actual = group /\ match \in Match
    BY <1>1, DeltaIs DEF Groups, Match
  <2> HIDE DEF e, match
  <2> DEFINE L == Len(d.matched) + 1
  <2>3. /\ L \notin DOMAIN d.matched /\ DOMAIN e.matched = (DOMAIN d.matched) \cup {L}
        /\ e.matched[L] = match /\ \A m \in DOMAIN d.matched : e.matched[m] = d.matched[m]
    BY <1>0, <2>1, <2>2, AppendedPlaces
  <2> HIDE DEF L
  <2>4. ToSet(group) \subseteq d.left
    BY <1>1 DEF ToSet
  <2>5. \A m \in DOMAIN d.matched : ToSet(d.matched[m].actual) \cap ToSet(group) = {}
    BY <1>a, <2>4 DEF GroupsAreSound
  <2>6. GroupsAreSound(e, n + 1)
    <3>1. ASSUME NEW m \in DOMAIN d.matched
          PROVE  /\ e.matched[m].planned \in 1..(n + 1) /\ e.matched[m].planned \notin ToSet(e.missed)
                 /\ IsInjective(e.matched[m].actual) /\ ToSet(e.matched[m].actual) \cap e.left = {}
      BY <1>a, <1>c, <2>1, <2>3 DEF GroupsAreSound
    <3>2. /\ e.matched[L].planned \in 1..(n + 1) /\ e.matched[L].planned \notin ToSet(e.missed)
          /\ IsInjective(e.matched[L].actual) /\ ToSet(e.matched[L].actual) \cap e.left = {}
      BY <1>1, <1>b, <1>c, <2>1, <2>2, <2>3
    <3> QED BY <2>3, <3>1, <3>2 DEF GroupsAreSound
  <2>7. GroupsAreApart(e)
    <3>1. ASSUME NEW i \in DOMAIN d.matched PROVE Apart(e, i, L) /\ Apart(e, L, i)
      BY <1>b, <2>2, <2>3, <2>5 DEF Apart
    <3>2. ASSUME NEW i \in DOMAIN d.matched, NEW j \in DOMAIN d.matched, i # j PROVE Apart(e, i, j)
      <4>1. Apart(d, i, j)
        BY <1>a, <3>2 DEF GroupsAreApart
      <4> QED BY <2>3, <4>1 DEF Apart
    <3> QED BY <2>3, <3>1, <3>2 DEF GroupsAreApart
  <2>8. MissedOnce(e, n + 1)
    BY <1>a, <1>c, <2>1 DEF MissedOnce
  <2>9. PlannedIsCovered(e, n + 1)
    BY <1>a, <1>c, <2>1, <2>2, <2>3 DEF PlannedIsCovered
  <2>10. ActualIsCovered(e)
    BY <1>a, <2>1, <2>2, <2>3 DEF ActualIsCovered
  <2> QED BY <2>6, <2>7, <2>8, <2>9, <2>10 DEF Accounted
<1> QED BY <1>2, <1>3

\* A delta that accounts for the whole plan partitions it.
LEMMA AccountedIsPartition ==
  ASSUME NEW A, NEW B, NEW planned \in Seq(A), NEW actual \in Seq(B),
         NEW d \in Deltas(planned, actual), Accounted(d, Len(planned))
  PROVE  PartitionsItsItems(d)
<1>1. d.planned = planned /\ DOMAIN planned = 1..Len(planned)
  BY DeltaIs
<1>2. \A m \in DOMAIN d.matched : \A k :
        Contains(d.matched[m].actual, k) <=> k \in ToSet(d.matched[m].actual)
  <2> SUFFICES ASSUME NEW m \in DOMAIN d.matched
               PROVE  \A k : Contains(d.matched[m].actual, k) <=> k \in ToSet(d.matched[m].actual)
    OBVIOUS
  <2>1. DOMAIN d.matched[m].actual = 1..Len(d.matched[m].actual)
    BY DeltaIs
  <2> QED BY <2>1 DEF Contains, ToSet
<1>3. \A i : Contains(d.missed, i) <=> i \in ToSet(d.missed)
  BY DeltaIs DEF Contains, ToSet
<1>4. Cardinality({}) = 0 /\ \A m : Cardinality({m}) = 1
  BY FS_EmptySet, FS_Singleton
<1>5. ASSUME NEW k \in DOMAIN d.actual
      PROVE  Cardinality({ m \in DOMAIN d.matched : Contains(d.matched[m].actual, k) })
               + (IF k \in d.left THEN 1 ELSE 0) = 1
  <2> DEFINE users == { m \in DOMAIN d.matched : Contains(d.matched[m].actual, k) }
  <2> SUFFICES Cardinality(users) + (IF k \in d.left THEN 1 ELSE 0) = 1
    OBVIOUS
  <2>1. CASE k \in d.left
    <3>1. users = {}
      BY <1>2, <2>1 DEF Accounted, GroupsAreSound, GroupsAreApart, Apart, PlannedIsCovered, ActualIsCovered
    <3> HIDE DEF users
    <3> QED BY <1>4, <2>1, <3>1
  <2>2. CASE k \notin d.left
    <3>1. PICK m \in DOMAIN d.matched : k \in ToSet(d.matched[m].actual)
      BY <2>2 DEF Accounted, GroupsAreSound, GroupsAreApart, Apart, PlannedIsCovered, ActualIsCovered
    <3>2. \A j \in DOMAIN d.matched : k \in ToSet(d.matched[j].actual) => j = m
      BY <3>1 DEF Accounted, GroupsAreSound, GroupsAreApart, Apart, PlannedIsCovered, ActualIsCovered
    <3>4. users = {m}
      BY <1>2, <3>1, <3>2
    <3> HIDE DEF users
    <3>3. Cardinality(users) = 1
      BY <1>4, <3>4
    <3> QED BY <2>2, <3>3
  <2> QED BY <2>1, <2>2
<1>6. ASSUME NEW i \in DOMAIN d.planned
      PROVE  Cardinality({ m \in DOMAIN d.matched : d.matched[m].planned = i })
               + (IF Contains(d.missed, i) THEN 1 ELSE 0) = 1
  <2> DEFINE users == { m \in DOMAIN d.matched : d.matched[m].planned = i }
  <2> SUFFICES Cardinality(users) + (IF Contains(d.missed, i) THEN 1 ELSE 0) = 1
    OBVIOUS
  <2>1. CASE Contains(d.missed, i)
    <3>1. users = {}
      BY <1>3, <2>1 DEF Accounted, GroupsAreSound, GroupsAreApart, Apart, PlannedIsCovered, ActualIsCovered
    <3> HIDE DEF users
    <3> QED BY <1>4, <2>1, <3>1
  <2>2. CASE ~Contains(d.missed, i)
    <3>1. PICK m \in DOMAIN d.matched : d.matched[m].planned = i
      BY <1>1, <1>3, <2>2 DEF Accounted, GroupsAreSound, GroupsAreApart, Apart, PlannedIsCovered, ActualIsCovered
    <3>2. \A j \in DOMAIN d.matched : d.matched[j].planned = i => j = m
      BY <3>1 DEF Accounted, GroupsAreSound, GroupsAreApart, Apart, PlannedIsCovered, ActualIsCovered
    <3>4. users = {m}
      BY <3>1, <3>2
    <3> HIDE DEF users
    <3>3. Cardinality(users) = 1
      BY <1>4, <3>4
    <3> QED BY <2>2, <3>3
  <2> QED BY <2>1, <2>2
<1> QED BY <1>5, <1>6 DEF PartitionsItsItems

-----------------------------------------------------------------------------
(* Best matches *)

\* The items that the group <<length, start>> of the candidates s names.
LEMMA RunIsGroup ==
  ASSUME NEW left, NEW s \in Seq(left), IsInjective(s), NEW longest \in Nat,
         NEW r \in Runs(s, longest)
  PROVE  /\ Run(s, r) \in Groups(left) /\ Len(Run(s, r)) = r[1]
         /\ Run(s, r)[1] = s[r[2]]
<1>1. /\ r[1] \in 1..longest /\ r[2] \in 1..Len(s) /\ r[1] + r[2] <= Len(s) + 1
      /\ Len(s) \in Nat /\ DOMAIN s = 1..Len(s)
  BY DEF Runs
<1> DEFINE m == r[2]
           n == r[2] + r[1] - 1
<1>2. /\ m \in Int /\ n \in Int /\ m <= n /\ n - m + 1 = r[1] /\ m + 1 - 1 = m
      /\ 1 \in 1..(n - m + 1)
      /\ \A i \in m..n : i \in DOMAIN s
      /\ \A i \in 1..(n - m + 1) : m + i - 1 \in DOMAIN s /\ m + i - 1 \in Int
  <2> DEFINE a == r[1]
             b == r[2]
             L == Len(s)
  <2>1. a \in 1..longest /\ b \in 1..L /\ a + b <= L + 1 /\ L \in Nat /\ DOMAIN s = 1..L
    BY <1>1
  <2>2. m = b /\ n = b + a - 1
    OBVIOUS
  <2> HIDE DEF a, b, L, m, n
  <2>3. a \in Int /\ b \in Int /\ a >= 1 /\ b >= 1 /\ b + a - 1 <= L
    BY <2>1
  <2>4. m \in Int /\ n \in Int /\ m <= n /\ n - m + 1 = a /\ m >= 1 /\ n <= L
    BY <2>2, <2>3
  <2>5. m + 1 - 1 = m /\ 1 \in 1..(n - m + 1) /\ \A i \in m..n : i \in DOMAIN s
    BY <2>1, <2>3, <2>4
  <2>6. \A i \in 1..(n - m + 1) : m + i - 1 \in DOMAIN s /\ m + i - 1 \in Int
    BY <2>1, <2>3, <2>4
  <2> QED BY <2>4, <2>5, <2>6 DEF a
<1>7. \A i \in m..n : s[i] \in left
  <2> HIDE DEF m, n
  <2> QED BY <1>2
<1>3. Run(s, r) = SubSeq(s, m, n)
  BY DEF Run
<1> HIDE DEF m, n
<1>4. /\ SubSeq(s, m, n) \in Seq(left)
      /\ Len(SubSeq(s, m, n)) = n - m + 1
      /\ \A i \in 1..(n - m + 1) : SubSeq(s, m, n)[i] = s[m + i - 1]
  BY <1>2, <1>7, SubSeqProperties
<1>5. IsInjective(SubSeq(s, m, n))
  <2>1. DOMAIN SubSeq(s, m, n) = 1..(n - m + 1)
    BY <1>4
  <2>2. ASSUME NEW i \in 1..(n - m + 1), NEW j \in 1..(n - m + 1), s[m + i - 1] = s[m + j - 1]
        PROVE  i = j
    <3>1. m + i - 1 = m + j - 1
      BY <1>2, <2>2 DEF IsInjective
    <3> QED BY <1>2, <3>1
  <2> QED BY <1>4, <2>1, <2>2 DEF IsInjective
<1>6. SubSeq(s, m, n)[1] = s[m]
  BY <1>2, <1>4
<1> QED BY <1>2, <1>3, <1>4, <1>5, <1>6 DEF Groups, m

\* Of the runs that fit one is the first.
LEMMA FirstRunIsGroup ==
  ASSUME NEW left, NEW s \in Seq(left), IsInjective(s), NEW longest \in Nat,
         NEW fitting \in SUBSET Runs(s, longest)
  PROVE  /\ FirstRun(s, fitting) \in Groups(left)
         /\ FirstRun(s, fitting) = <<>> => fitting = {}
<1>1. CASE fitting = {}
  BY <1>1 DEF FirstRun, Groups, IsInjective
<1>2. CASE fitting # {}
  <2> DEFINE lengths == {r[1] : r \in fitting}
  <2>0. \A r \in fitting : r = <<r[1], r[2]>> /\ r[1] \in 1..longest /\ r[2] \in 1..Len(s) /\ Len(s) \in Nat
    BY DEF Runs
  <2>1. lengths \subseteq 0..longest /\ lengths # {}
    BY <1>2, <2>0
  <2> HIDE DEF lengths
  <2>2. Min(lengths) \in lengths /\ \A x \in lengths : Min(lengths) <= x
    BY <2>1, LeastExists
  <2> DEFINE len == Min(lengths)
             starts == {r[2] : r \in {o \in fitting : o[1] = len}}
  <2>3. starts \subseteq 0..Len(s) /\ starts # {} /\ Len(s) \in Nat
    <3>1. PICK o \in fitting : o[1] = len
      BY <2>2 DEF lengths
    <3>2. o[2] \in starts
      BY <3>1
    <3>3. starts \subseteq 0..Len(s) /\ Len(s) \in Nat
      BY <2>0
    <3> QED BY <3>2, <3>3
  <2> HIDE DEF starts
  <2>4. Min(starts) \in starts /\ \A x \in starts : Min(starts) <= x
    BY <2>3, LeastExists
  <2>5. PICK f \in fitting : f[1] = len /\ f[2] = Min(starts)
    BY <2>4 DEF starts
  <2> DEFINE least(r) == \A o \in fitting : r[1] < o[1] \/ (r[1] = o[1] /\ r[2] <= o[2])
             first == CHOOSE r \in fitting : least(r)
  <2>6. least(f)
    <3> SUFFICES ASSUME NEW o \in fitting PROVE f[1] < o[1] \/ (f[1] = o[1] /\ f[2] <= o[2])
      OBVIOUS
    <3>1. len <= o[1]
      BY <2>2 DEF lengths
    <3>2. o[1] = len => Min(starts) <= o[2]
      BY <2>4 DEF starts
    <3>3. o[1] \in Int /\ f[1] \in Int
      BY <2>0
    <3> HIDE DEF len
    <3> QED BY <2>5, <3>1, <3>2, <3>3
  <2> HIDE DEF least
  <2>7. first \in fitting
    BY <2>6
  <2>8. FirstRun(s, fitting) = Run(s, first)
    BY <1>2 DEF FirstRun, least
  <2> HIDE DEF first
  <2>9. first \in Runs(s, longest) /\ first[1] \in 1..longest
    BY <2>0, <2>7
  <2>10. Run(s, first) \in Groups(left) /\ Len(Run(s, first)) = first[1]
    BY <2>9, RunIsGroup
  <2>11. Run(s, first) # <<>>
    BY <2>9, <2>10
  <2> QED BY <2>8, <2>10, <2>11
<1> QED BY <1>1, <1>2

\* The runs of one item are all tried.
LEMMA SingleRuns ==
  ASSUME NEW left, NEW s \in Seq(left), NEW longest \in Nat \ {0}, NEW k \in ToSet(s)
  PROVE  \E r \in Runs(s, longest) : Run(s, r) = <<k>>
<1>1. PICK p \in 1..Len(s) : s[p] = k
  BY DEF ToSet
<1>2. Len(s) \in Nat /\ DOMAIN s = 1..Len(s)
  OBVIOUS
<1> DEFINE r == <<1, p>>
<1>3. r \in Runs(s, longest)
  BY <1>2 DEF Runs
<1>4. Run(s, r) = SubSeq(s, p, p)
  <2>1. r[2] + r[1] - 1 = p /\ r[2] = p
    BY <1>2
  <2> QED BY <2>1 DEF Run
<1>5. /\ SubSeq(s, p, p) \in Seq(left) /\ Len(SubSeq(s, p, p)) = 1
      /\ SubSeq(s, p, p)[1] = k
  <2>1. p \in Int /\ p <= p /\ p - p + 1 = 1 /\ 1 \in 1..1 /\ p + 1 - 1 = p /\ \A i \in p..p : s[i] \in left
    BY <1>2
  <2> QED BY <1>1, <2>1, SubSeqProperties
<1>6. SubSeq(s, p, p) = <<k>>
  <2>1. k \in left /\ <<k>> \in Seq(left) /\ Len(<<k>>) = 1 /\ <<k>>[1] = k
    BY <1>1, <1>2
  <2>2. \A i \in 1..1 : i = 1
    OBVIOUS
  <2> QED BY <1>5, <2>1, <2>2, SeqEqual
<1> QED BY <1>3, <1>4, <1>6

-----------------------------------------------------------------------------
(* Payments *)

LEMMA SmallPieces ==
  ASSUME NEW A, NEW s \in Seq(A)
  PROVE  /\ Positions(s) \in Seq(DOMAIN s) /\ DOMAIN Positions(s) = 1..Len(s)
         /\ DOMAIN s = 1..Len(s) /\ Len(s) \in Nat /\ IsFiniteSet(DOMAIN s)
         /\ \A k \in DOMAIN s : Positions(s)[k] = k /\ At(s, <<k>>) = <<s[k]>>
<1>1. Len(s) \in Nat /\ DOMAIN s = 1..Len(s) /\ IsFiniteSet(1..Len(s))
  BY FS_Interval
<1>2. /\ Positions(s) = [k \in 1..Len(s) |-> k] /\ DOMAIN Positions(s) = 1..Len(s)
      /\ \A k \in 1..Len(s) : Positions(s)[k] = k
  BY DEF Positions
<1>3. Positions(s) \in Seq(DOMAIN s)
  BY <1>1, <1>2
<1>4. ASSUME NEW k \in DOMAIN s PROVE At(s, <<k>>) = <<s[k]>>
  <2>1. Len(<<k>>) = 1 /\ <<k>>[1] = k
    OBVIOUS
  <2>2. At(s, <<k>>) = [j \in 1..1 |-> s[<<k>>[j]]]
    BY <2>1 DEF At
  <2>3. At(s, <<k>>) = [j \in 1..1 |-> s[k]]
    BY <2>1, <2>2
  <2> QED BY <2>3
<1> QED BY <1>1, <1>2, <1>3, <1>4

\* findBestMatch answers a group of the payments that are left, and nothing only if none
\* of them fits by itself.
LEMMA BestMatchIsGroup ==
  ASSUME NEW A, NEW payments \in Seq(A), NEW left \in SUBSET DOMAIN payments, NEW p, NEW t
  PROVE  /\ BestMatch(p, payments, left, t) \in Groups(left)
         /\ BestMatch(p, payments, left, t) = <<>> =>
              \A k \in left : ~Fits(t, p, <<payments[k]>>)
<1> DEFINE s == Ascending(left)
           fitting == { r \in Runs(s, Len(s)) : Fits(t, p, At(payments, Run(s, r))) }
<1>1. IsFiniteSet(left) /\ left \subseteq Int
  <2>1. IsFiniteSet(DOMAIN payments) /\ DOMAIN payments \subseteq Int
    BY SmallPieces
  <2> QED BY <2>1, FS_Subset
<1>2. s \in Seq(left) /\ IsInjective(s) /\ ToSet(s) = left
  BY <1>1, AscendingListsAll
<1>3. BestMatch(p, payments, left, t) = FirstRun(s, fitting)
  BY DEF BestMatch
<1> HIDE DEF s
<1>4. Len(s) \in Nat /\ fitting \in SUBSET Runs(s, Len(s))
  BY <1>2
<1>5. ASSUME fitting = {}, NEW k \in left PROVE ~Fits(t, p, <<payments[k]>>)
  <2>1. Len(s) # 0
    BY <1>2 DEF ToSet
  <2>2. Len(s) \in Nat \ {0} /\ k \in ToSet(s)
    BY <1>2, <1>4, <2>1
  <2>3. PICK r \in Runs(s, Len(s)) : Run(s, r) = <<k>>
    BY <1>2, <2>2, SingleRuns
  <2>4. ~Fits(t, p, At(payments, <<k>>))
    BY <1>5, <2>3
  <2>5. At(payments, <<k>>) = <<payments[k]>>
    BY SmallPieces
  <2> QED BY <2>4, <2>5
<1> HIDE DEF fitting
<1>6. /\ FirstRun(s, fitting) \in Groups(left)
      /\ FirstRun(s, fitting) = <<>> => fitting = {}
  BY <1>2, <1>4, FirstRunIsGroup
<1> QED BY <1>3, <1>5, <1>6

\* No payment is left over that by itself settles an installment reported missing.
NoneOverlooked(d, t) ==
  \A i \in ToSet(d.missed), k \in d.left : ~Fits(t, d.planned[i], <<d.actual[k]>>)

LEMMA AssignedOverlooksNone ==
  ASSUME NEW A, NEW B, NEW planned \in Seq(A), NEW actual \in Seq(B), NEW t,
         NEW d \in Deltas(planned, actual), NEW i \in DOMAIN planned, NoneOverlooked(d, t),
         NEW group \in Groups(d.left),
         group = <<>> => \A k \in d.left : ~Fits(t, planned[i], <<actual[k]>>)
  PROVE  NoneOverlooked(Assigned(d, i, group), t)
<1> DEFINE e == Assigned(d, i, group)
<1>1. d.planned = planned /\ d.actual = actual /\ d.missed \in Seq(DOMAIN planned)
  BY DEF Deltas
<1>2. e.planned = planned /\ e.actual = actual /\ e.left \subseteq d.left
  BY <1>1 DEF Assigned, Deltas, Taken
<1>3. CASE group = <<>>
  <2>1. e.missed = Append(d.missed, i)
    BY <1>3 DEF Assigned, Deltas
  <2> HIDE DEF e
  <2>2. \A j \in ToSet(e.missed) : j \in ToSet(d.missed) \/ j = i
    BY <1>1, <2>1 DEF ToSet
  <2>3. NoneOverlooked(e, t)
    BY <1>1, <1>2, <1>3, <2>2 DEF NoneOverlooked
  <2> QED BY <2>3 DEF e
<1>4. CASE group # <<>>
  <2>1. e.missed = d.missed
    BY <1>4 DEF Assigned, Deltas
  <2> HIDE DEF e
  <2>2. NoneOverlooked(e, t)
    BY <1>1, <1>2, <2>1 DEF NoneOverlooked
  <2> QED BY <2>2 DEF e
<1> QED BY <1>3, <1>4

LEMMA AnalyzeAccounts ==
  ASSUME NEW A, NEW B, NEW schedule \in Seq(A), NEW payments \in Seq(B), NEW t
  PROVE  LET d == Analyze(schedule, payments, t)
         IN  /\ d \in Deltas(schedule, payments) /\ Accounted(d, Len(schedule))
             /\ NoneOverlooked(d, t)
<1> DEFINE N == Len(schedule)
           V == Deltas(schedule, payments)
           base == NothingMatched(schedule, payments)
           Next1(d, i) == Assigned(d, i, BestMatch(schedule[i], payments, d.left, t))
           g == [a \in (1..N) \X V |-> Next1(a[2], a[1])]
           D == DOMAIN Positions(schedule)
           adds(it) == it = [s \in SUBSET D |->
             IF s = {} THEN base ELSE Next1(it[s \ {Max(s)}], Positions(schedule)[Max(s)])]
           fold == CHOOSE it : adds(it)
<1>1. /\ N \in Nat /\ DOMAIN schedule = 1..N /\ D = 1..N
      /\ \A k \in 1..N : Positions(schedule)[k] = k
  BY SmallPieces
<1>2. base \in V /\ Accounted(base, 0) /\ NoneOverlooked(base, t)
  <2>1. base \in V /\ Accounted(base, 0)
    BY NothingMatchedIsAccounted
  <2>2. NoneOverlooked(base, t)
    BY DEF NoneOverlooked, NothingMatched, ToSet
  <2> QED BY <2>1, <2>2
<1>3. ASSUME NEW d \in V, NEW i \in 1..N
      PROVE  /\ BestMatch(schedule[i], payments, d.left, t) \in Groups(d.left)
             /\ BestMatch(schedule[i], payments, d.left, t) = <<>> =>
                  \A k \in d.left : ~Fits(t, schedule[i], <<payments[k]>>)
             /\ Next1(d, i) \in V
  <2>1. d.left \in SUBSET DOMAIN payments
    BY DEF Deltas
  <2>2. /\ BestMatch(schedule[i], payments, d.left, t) \in Groups(d.left)
        /\ BestMatch(schedule[i], payments, d.left, t) = <<>> =>
             \A k \in d.left : ~Fits(t, schedule[i], <<payments[k]>>)
    BY <2>1, BestMatchIsGroup
  <2>3. BestMatch(schedule[i], payments, d.left, t) \in Seq(d.left)
    BY <2>2 DEF Groups
  <2>4. Next1(d, i) \in V
    BY <1>1, <2>3, AssignedIsDelta
  <2> QED BY <2>2, <2>4
<1>4. Analyze(schedule, payments, t) = fold[D]
  BY DEF Analyze, FoldLeft, MapThenFoldSet
<1> HIDE DEF V, base, Next1, N
<1>5. g \in [(1..N) \X V -> V] /\ \A i \in 1..N, d \in V : g[<<i, d>>] = Next1(d, i)
  BY <1>3
<1> HIDE DEF g
<1>6. PICK step \in [SUBSET (1..N) -> V] : Folds(step, base, g, N)
  BY <1>1, <1>2, <1>5, FoldExists
<1>7. ASSUME NEW S \in SUBSET (1..N), S # {} PROVE Max(S) \in 1..N
  <2>1. S \subseteq 0..N
    OBVIOUS
  <2>2. Max(S) \in S
    BY <1>1, <1>7, <2>1, GreatestExists
  <2> QED BY <2>2
<1>8. adds(step)
  <2>1. ASSUME NEW S \in SUBSET (1..N)
        PROVE  step[S] = IF S = {} THEN base ELSE Next1(step[S \ {Max(S)}], Positions(schedule)[Max(S)])
    <3>1. S \ {Max(S)} \in SUBSET (1..N)
      OBVIOUS
    <3>2. step[S] = IF S = {} THEN base ELSE g[<<Max(S), step[S \ {Max(S)}]>>]
      BY <1>6 DEF Folds
    <3>3. step[S \ {Max(S)}] \in V
      BY <1>6, <3>1
    <3>4. S # {} => Positions(schedule)[Max(S)] = Max(S) /\ Max(S) \in 1..N
      BY <1>1, <1>7
    <3> HIDE DEF Max
    <3>5. S # {} => g[<<Max(S), step[S \ {Max(S)}]>>] = Next1(step[S \ {Max(S)}], Max(S))
      BY <1>5, <3>3, <3>4
    <3> QED BY <3>2, <3>4, <3>5
  <2> QED BY <1>1, <1>6, <2>1
<1> HIDE DEF adds
<1>9. adds(fold)
  BY <1>8
<1> HIDE DEF fold
<1>10. Steps(fold, base, g, N, V)
  <2>1. fold[{}] = base
    BY <1>9 DEF adds
  <2>2. ASSUME NEW S \in (SUBSET (1..N)) \ {{}}, fold[S \ {Max(S)}] \in V
        PROVE  fold[S] = g[<<Max(S), fold[S \ {Max(S)}]>>]
    <3>1. fold[S] = Next1(fold[S \ {Max(S)}], Positions(schedule)[Max(S)])
      BY <1>1, <1>9 DEF adds
    <3> QED BY <1>1, <1>5, <1>7, <2>2, <3>1
  <2> QED BY <2>1, <2>2 DEF Steps
<1>11. /\ fold[1..0] = base
       /\ \A n \in 0..N : fold[1..n] \in V
       /\ \A n \in 1..N : fold[1..n] = g[<<n, fold[1..(n - 1)]>>]
  <2>1. N \in Nat /\ base \in V /\ g \in [(1..N) \X V -> V]
    BY <1>1, <1>2, <1>5
  <2>2. InTurn(fold, base, g, N, V)
    BY <1>10, <2>1, FoldsInTurn
  <2> QED BY <2>2 DEF InTurn
<1> DEFINE h == [n \in 0..N |-> fold[1..n]]
           G == {n \in 0..N : Accounted(h[n], n) /\ NoneOverlooked(h[n], t)}
<1>12. /\ h[0] = base /\ \A n \in 0..N : h[n] \in V
       /\ \A n \in 0..N : n < N => n + 1 \in 1..N /\ h[n + 1] = Next1(h[n], n + 1)
       /\ h[N] = fold[D]
  <2>1. h[0] = base /\ h[N] = fold[D] /\ \A n \in 0..N : h[n] \in V /\ h[n] = fold[1..n]
    BY <1>1, <1>11
  <2>2. ASSUME NEW n \in 0..N, n < N PROVE n + 1 \in 1..N /\ h[n + 1] = Next1(h[n], n + 1)
    <3>1. n + 1 \in 1..N /\ n + 1 \in 0..N /\ (n + 1) - 1 = n
      BY <1>1, <2>2
    <3>2. h[n + 1] = g[<<n + 1, h[n]>>]
      BY <1>11, <2>1, <3>1
    <3> QED BY <1>5, <2>1, <3>1, <3>2
  <2> QED BY <2>1, <2>2
<1> HIDE DEF h
<1>13. \A n \in 0..N : n \in G
  <2>1. 0 \in G
    BY <1>1, <1>2, <1>12
  <2>2. ASSUME NEW n \in 0..N, n \in G, n < N PROVE n + 1 \in G
    <3>1. /\ n + 1 \in 1..N /\ n + 1 \in 0..N /\ h[n] \in V /\ h[n + 1] = Next1(h[n], n + 1)
          /\ Accounted(h[n], n) /\ NoneOverlooked(h[n], t)
      BY <1>1, <1>12, <2>2
    <3> DEFINE d == h[n]
               group == BestMatch(schedule[n + 1], payments, d.left, t)
    <3>2. /\ group \in Groups(d.left)
          /\ group = <<>> => \A k \in d.left : ~Fits(t, schedule[n + 1], <<payments[k]>>)
      BY <1>3, <3>1
    <3>3. h[n + 1] = Assigned(d, n + 1, group)
      BY <3>1 DEF Next1
    <3>4. d \in Deltas(schedule, payments) /\ n \in 0..(Len(schedule) - 1) /\ n + 1 \in DOMAIN schedule
      BY <1>1, <3>1 DEF V, N
    <3> HIDE DEF d, group
    <3>5. Accounted(Assigned(d, n + 1, group), n + 1)
      BY <3>1, <3>2, <3>4, AssignedIsAccounted DEF d
    <3>6. NoneOverlooked(Assigned(d, n + 1, group), t)
      BY <3>1, <3>2, <3>4, AssignedOverlooksNone DEF d
    <3> QED BY <3>1, <3>3, <3>5, <3>6
  <2> HIDE DEF G
  <2> QED BY <1>1, <2>1, <2>2, UpTo
<1>14. fold[D] \in V /\ Accounted(fold[D], N) /\ NoneOverlooked(fold[D], t)
  BY <1>1, <1>12, <1>13
<1> QED BY <1>4, <1>14 DEF V, N

-----------------------------------------------------------------------------
(* Schedules *)

LEMMA PaymentsOf ==
  ASSUME NEW payments \in Seq(Payments)
  PROVE  /\ DOMAIN payments = 1..Len(payments) /\ Len(payments) \in Nat
         /\ \A k \in DOMAIN payments :
              payments[k] \in Payments /\ payments[k].when \in Int /\ payments[k].amount \in Int
<1>1. /\ DOMAIN payments = 1..Len(payments) /\ Len(payments) \in Nat
      /\ \A k \in DOMAIN payments : payments[k] \in Payments
  OBVIOUS
<1>2. \A p \in Payments : p.when \in Int /\ p.amount \in Int
  BY DEF Payments
<1> QED BY <1>1, <1>2

\* The places of the payments, the earlier dates first.
Listed(payments, listed) ==
  /\ listed \in Seq(DOMAIN payments) /\ Len(listed) = Len(payments)
  /\ IsInjective(listed) /\ ToSet(listed) = DOMAIN payments
  /\ \A i, j \in 1..Len(payments) : i < j => Sooner(payments, listed[i], listed[j])

LEMMA DatesAreListed ==
  ASSUME NEW payments \in Seq(Payments)
  PROVE  \E listed : Listed(payments, listed) /\ InDateOrder(payments) = At(payments, listed)
<1> DEFINE places == 1..Len(payments)
           R == { pair \in places \X places : Sooner(payments, pair[1], pair[2]) }
           listed == ListedBy(places, R)
<1>1. IsFiniteSet(places) /\ places = DOMAIN payments /\ places \subseteq Int
  BY FS_Interval
<1>2. \A i \in places : payments[i].when \in Int
  BY <1>1, PaymentsOf
<1>3. \A x, y \in places : <<x, y>> \in R <=>
        \/ payments[x].when < payments[y].when
        \/ payments[x].when = payments[y].when /\ x < y
  BY DEF Sooner
<1> HIDE DEF places, R
<1>4. OrdersStrictly(R, places)
  <2>1. \A x \in places : <<x, x>> \notin R
    BY <1>1, <1>2, <1>3
  <2>2. ASSUME NEW x \in places, NEW y \in places, NEW z \in places, <<x, y>> \in R, <<y, z>> \in R
        PROVE  <<x, z>> \in R
    <3>1. /\ payments[x].when < payments[y].when \/ (payments[x].when = payments[y].when /\ x < y)
          /\ payments[y].when < payments[z].when \/ (payments[y].when = payments[z].when /\ y < z)
      BY <1>3, <2>2
    <3>2. /\ payments[x].when \in Int /\ payments[y].when \in Int /\ payments[z].when \in Int
          /\ x \in Int /\ y \in Int /\ z \in Int
      BY <1>1, <1>2
    <3>3. payments[x].when < payments[z].when \/ (payments[x].when = payments[z].when /\ x < z)
      BY <3>1, <3>2
    <3> QED BY <1>3, <3>3
  <2>3. ASSUME NEW x \in places, NEW y \in places PROVE x = y \/ <<x, y>> \in R \/ <<y, x>> \in R
    <3>1. /\ payments[x].when \in Int /\ payments[y].when \in Int /\ x \in Int /\ y \in Int
      BY <1>1, <1>2
    <3> QED BY <1>3, <3>1
  <2> QED BY <2>1, <2>2, <2>3 DEF OrdersStrictly
<1>5. /\ listed \in Seq(places) /\ Len(listed) = Cardinality(places)
      /\ IsInjective(listed) /\ ToSet(listed) = places
      /\ \A i, j \in 1..Len(listed) : i < j => <<listed[i], listed[j]>> \in R
  BY <1>1, <1>4, ListsInTurn
<1>6. InDateOrder(payments) = At(payments, listed)
  BY DEF InDateOrder, places, R
<1>7. Cardinality(places) = Len(payments)
  <2>1. 1 \in Int /\ Len(payments) \in Int /\ Len(payments) >= 0
    BY PaymentsOf
  <2>2. Cardinality(1..Len(payments)) = IF 1 > Len(payments) THEN 0 ELSE Len(payments) - 1 + 1
    BY ONLY <2>1, FS_Interval
  <2> QED BY ONLY <2>1, <2>2 DEF places
<1> HIDE DEF listed
<1>8. \A i, j \in 1..Len(payments) : i < j => Sooner(payments, listed[i], listed[j])
  <2> SUFFICES ASSUME NEW i \in 1..Len(payments), NEW j \in 1..Len(payments), i < j
               PROVE  Sooner(payments, listed[i], listed[j])
    OBVIOUS
  <2>1. listed[i] \in places /\ listed[j] \in places /\ <<listed[i], listed[j]>> \in R
    BY <1>5, <1>7
  <2> QED BY <1>3, <2>1 DEF Sooner
<1> QED BY <1>1, <1>5, <1>6, <1>7, <1>8 DEF Listed

\* TotalAmount adds the amounts up.
AmountsOf(payments) == [k \in DOMAIN payments |-> payments[k].amount]

LEMMA TotalAmountIsTotal ==
  ASSUME NEW payments \in Seq(Payments)
  PROVE  /\ TotalAmount(payments) = Total(AmountsOf(payments), DOMAIN payments)
         /\ TotalAmount(payments) \in Int
<1> DEFINE S == DOMAIN payments
           q == AmountsOf(payments)
           adds(sum) == sum = [s \in SUBSET S |->
             IF s = {} THEN 0
             ELSE payments[CHOOSE x \in s : TRUE].amount + sum[s \ {CHOOSE x \in s : TRUE}]]
           total == CHOOSE sum : adds(sum)
<1>1. IsFiniteSet(S) /\ Measures(q, S)
  <2>1. S = 1..Len(payments) /\ Len(payments) \in Nat /\ \A k \in S : payments[k].amount \in Int
    BY PaymentsOf
  <2> QED BY <2>1, FS_Interval DEF Measures, AmountsOf
<1>2. TotalAmount(payments) = total[S]
  BY DEF TotalAmount, FoldSeq, FoldFunction, FoldFunctionOnSet, MapThenFoldSet
<1>3. \A s \in SUBSET S : s # {} => q[CHOOSE x \in s : TRUE] = payments[CHOOSE x \in s : TRUE].amount
  BY DEF AmountsOf
<1> HIDE DEF q, S
<1>4. PICK sum : AddsUp(sum, q, S)
  BY <1>1, TotalAddsUp
<1>5. adds(sum)
  <2>1. \A s \in SUBSET S : IF s = {} THEN TRUE
          ELSE q[CHOOSE x \in s : TRUE] = payments[CHOOSE x \in s : TRUE].amount
    BY <1>3
  <2> QED BY <1>4, <2>1 DEF AddsUp
<1> HIDE DEF adds
<1>6. adds(total)
  BY <1>5
<1> HIDE DEF total
<1>7. AddsUp(total, q, S)
  <2>1. ASSUME NEW s \in SUBSET S
        PROVE  total[s] = IF s = {} THEN 0
                          ELSE payments[CHOOSE x \in s : TRUE].amount + total[s \ {CHOOSE x \in s : TRUE}]
    BY <1>6 DEF adds
  <2>2. ASSUME NEW s \in SUBSET S, s # {} PROVE q[CHOOSE x \in s : TRUE] = payments[CHOOSE x \in s : TRUE].amount
    BY <1>3, <2>2
  <2>3. total = [s \in SUBSET S |-> total[s]]
    BY <1>6 DEF adds
  <2>4. \A s \in SUBSET S :
          total[s] = IF s = {} THEN 0
                     ELSE q[CHOOSE x \in s : TRUE] + total[s \ {CHOOSE x \in s : TRUE}]
    BY <2>1, <2>2
  <2> QED BY <2>3, <2>4 DEF AddsUp
<1>8. total[S] = Total(q, S) /\ Total(q, S) \in Int
  BY <1>1, <1>7, SumIsTotal, TotalIsInt
<1> QED BY <1>2, <1>8 DEF q, S

\* The first n payments are not after any that follows them.
Leads(payments, n) ==
  \A i \in 1..n, j \in DOMAIN payments : i < j => payments[i].when <= payments[j].when

\* Sorting puts the payments in order, loses no money and leaves those that lead in place.
LEMMA InDateOrderSorts ==
  ASSUME NEW payments \in Seq(Payments), NEW s, s = InDateOrder(payments)
  PROVE  /\ s \in Seq(Payments) /\ InOrder(s) /\ Len(s) = Len(payments)
         /\ TotalAmount(s) = TotalAmount(payments)
         /\ \A n \in 0..Len(payments) : Leads(payments, n) => \A k \in 1..n : s[k] = payments[k]
<1> DEFINE N == Len(payments)
<1>1. PICK listed : Listed(payments, listed) /\ s = At(payments, listed)
  BY DatesAreListed
<1>2. N \in Nat /\ DOMAIN payments = 1..N
      /\ \A k \in 1..N : payments[k] \in Payments /\ payments[k].when \in Int
  BY PaymentsOf
<1> HIDE DEF N
<1>3. /\ DOMAIN listed = 1..N /\ \A k \in 1..N : listed[k] \in 1..N
      /\ \A i, j \in 1..N : listed[i] = listed[j] => i = j
      /\ \A k \in 1..N : \E i \in 1..N : listed[i] = k
      /\ \A i, j \in 1..N : i < j => Sooner(payments, listed[i], listed[j])
  <2>1. /\ listed \in Seq(1..N) /\ Len(listed) = N
        /\ IsInjective(listed) /\ ToSet(listed) = 1..N
        /\ \A i, j \in 1..N : i < j => Sooner(payments, listed[i], listed[j])
    BY <1>1, <1>2 DEF Listed, N
  <2>2. DOMAIN listed = 1..N /\ \A k \in 1..N : listed[k] \in 1..N
    BY <1>2, <2>1
  <2>3. \A i, j \in 1..N : listed[i] = listed[j] => i = j
    BY <2>1, <2>2 DEF IsInjective
  <2>4. \A k \in 1..N : \E i \in 1..N : listed[i] = k
    BY <2>1, <2>2 DEF ToSet
  <2> QED BY <2>1, <2>2, <2>3, <2>4
<1>4. s = [k \in 1..N |-> payments[listed[k]]]
  BY <1>1 DEF At, Listed, N
<1>5. s \in Seq(Payments) /\ Len(s) = N
  BY <1>2, <1>3, <1>4
<1>6. InOrder(s)
  <2> SUFFICES ASSUME NEW i \in 1..N, NEW j \in 1..N, i < j PROVE s[i].when <= s[j].when
    BY <1>4 DEF InOrder
  <2>1. Sooner(payments, listed[i], listed[j])
    BY <1>3
  <2>2. payments[listed[i]].when \in Int /\ payments[listed[j]].when \in Int
    BY <1>2, <1>3
  <2>3. payments[listed[i]].when <= payments[listed[j]].when
    BY <2>1, <2>2 DEF Sooner
  <2> QED BY <1>4, <2>3
<1>7. TotalAmount(s) = TotalAmount(payments)
  <2> DEFINE S == 1..N
             p == AmountsOf(s)
             q == AmountsOf(payments)
  <2>1. TotalAmount(s) = Total(p, S) /\ TotalAmount(payments) = Total(q, S)
    BY <1>2, <1>4, <1>5, TotalAmountIsTotal
  <2>2. IsFiniteSet(S)
    <3>1. 1 \in Int /\ N \in Int
      BY <1>2
    <3> QED BY ONLY <3>1, FS_Interval DEF S
  <2>3. Renamed(listed, S) = S
    BY <1>3 DEF Renamed
  <2>4. Measures(p, S) /\ Measures(q, S)
    BY <1>2, <1>5, PaymentsOf DEF Measures, AmountsOf
  <2>5. \A k \in S : p[k] = q[listed[k]]
    BY <1>2, <1>3, <1>4 DEF AmountsOf
  <2>6. \A i, j \in S : listed[i] = listed[j] => i = j
    BY <1>3
  <2> HIDE DEF p, q, S
  <2>7. Total(p, S) = Total(q, Renamed(listed, S))
    BY <2>2, <2>3, <2>4, <2>5, <2>6, TotalOfRenamed
  <2> QED BY <2>1, <2>3, <2>7
<1>8. ASSUME NEW n \in 0..N, Leads(payments, n), NEW k \in 1..n PROVE s[k] = payments[k]
  <2> SUFFICES listed[k] = k
    BY <1>2, <1>4, <1>8
  <2> SUFFICES ASSUME listed[k] # k PROVE FALSE
    OBVIOUS
  <2> DEFINE moved == {i \in 1..n : listed[i] # i}
             first == Min(moved)
  <2>1. moved \subseteq 0..N /\ k \in moved
    BY <1>2, <1>8
  <2> HIDE DEF moved
  <2>2. first \in moved /\ \A i \in moved : first <= i
    BY <1>2, <2>1, LeastExists
  <2> HIDE DEF first
  <2>3. first \in 1..n /\ first \in 1..N /\ listed[first] # first /\ n \in Int
    BY <1>2, <1>8, <2>2 DEF moved
  <2>4. \A i \in 1..N : i < first => listed[i] = i
    <3> SUFFICES ASSUME NEW i \in 1..N, i < first, i \notin moved PROVE listed[i] = i
      BY <2>2, <2>3, <1>2
    <3>1. i \in 1..n
      BY <2>3
    <3> QED BY <3>1 DEF moved
  <2>5. PICK i \in 1..N : listed[i] = first
    BY <1>3, <2>3
  <2>6. first < i
    BY <2>3, <2>4, <2>5
  <2>7. Sooner(payments, listed[first], first)
    BY <1>3, <2>3, <2>5, <2>6
  <2>8. listed[first] \in 1..N /\ first < listed[first]
    <3>1. listed[first] \in 1..N
      BY <1>3, <2>3
    <3>2. ASSUME listed[first] < first PROVE FALSE
      <4>1. listed[listed[first]] = listed[first]
        BY <2>4, <3>1, <3>2
      <4> QED BY <1>3, <2>3, <3>1, <4>1
    <3> QED BY <2>3, <3>1, <3>2
  <2>9. payments[first].when <= payments[listed[first]].when
    BY <1>2, <1>8, <2>3, <2>8 DEF Leads
  <2>10. payments[first].when \in Int /\ payments[listed[first]].when \in Int
    BY <1>2, <2>3, <2>8
  <2> QED BY <2>3, <2>7, <2>8, <2>9, <2>10 DEF Sooner
<1> QED BY <1>5, <1>6, <1>7, <1>8 DEF N

\* Two sequences one after the other.
LEMMA Together ==
  ASSUME NEW S, NEW a \in Seq(S), NEW b \in Seq(S), NEW m, m = Len(a), NEW n, n = Len(b),
         NEW c, c = a \o b
  PROVE  /\ c \in Seq(S) /\ Len(c) = m + n
         /\ \A k \in 1..m : c[k] = a[k]
         /\ \A k \in (m + 1)..(m + n) : c[k] = b[k - m]
<1>1. m \in Nat /\ n \in Nat
  OBVIOUS
<1>2. /\ c \in Seq(S) /\ Len(c) = m + n
      /\ \A i \in 1..(m + n) : c[i] = IF i <= m THEN a[i] ELSE b[i - m]
  BY ConcatProperties
<1>3. /\ \A k \in 1..m : k \in 1..(m + n) /\ k <= m
      /\ \A k \in (m + 1)..(m + n) : k \in 1..(m + n) /\ ~(k <= m)
  BY <1>1
<1> QED BY ONLY <1>2, <1>3

\* Two schedules one after the other.
LEMMA AmountsTogether ==
  ASSUME NEW a \in Seq(Payments), NEW b \in Seq(Payments)
  PROVE  TotalAmount(a \o b) = TotalAmount(a) + TotalAmount(b)
<1> DEFINE m == Len(a)
           n == Len(b)
           both == a \o b
<1>1. /\ m \in Nat /\ n \in Nat /\ DOMAIN a = 1..m /\ DOMAIN b = 1..n
      /\ both \in Seq(Payments) /\ DOMAIN both = 1..(m + n)
      /\ \A k \in 1..m : both[k] = a[k]
      /\ \A k \in 1..n : both[m + k] = b[k]
  OBVIOUS
<1> HIDE DEF m, n, both
<1> DEFINE q == AmountsOf(both)
           p == AmountsOf(a)
           r == AmountsOf(b)
           S == 1..m
           R == (m + 1)..(m + n)
           B == 1..n
           f == [k \in 1..n |-> m + k]
<1>2. TotalAmount(both) = Total(q, 1..(m + n)) /\ TotalAmount(a) = Total(p, S) /\ TotalAmount(b) = Total(r, B)
  BY <1>1, TotalAmountIsTotal
<1>3. IsFiniteSet(S) /\ IsFiniteSet(R) /\ IsFiniteSet(B)
  BY <1>1, FS_Interval
<1>4. S \cap R = {} /\ S \cup R = 1..(m + n)
  BY <1>1
<1>5. /\ \A k \in 1..(m + n) : both[k].amount \in Int
      /\ \A k \in S : a[k].amount \in Int
      /\ \A k \in B : b[k].amount \in Int
  BY <1>1, PaymentsOf
<1>6. Measures(q, S \cup R) /\ Measures(q, S) /\ Measures(q, R) /\ Measures(p, S) /\ Measures(r, B)
  BY <1>1, <1>4, <1>5 DEF Measures, AmountsOf
<1>7. \A k \in S : q[k] = p[k]
  BY <1>1, <1>4 DEF AmountsOf
<1>8. \A k \in B : r[k] = q[f[k]]
  BY <1>1 DEF AmountsOf
<1>9. Renamed(f, B) = R
  <2>1. \A k \in B : f[k] = m + k /\ m + k \in R
    BY <1>1
  <2>2. \A k \in R : k - m \in B /\ f[k - m] = k
    BY <1>1
  <2> HIDE DEF f, B, R
  <2> QED BY <2>1, <2>2 DEF Renamed
<1>10. \A i, j \in B : f[i] = f[j] => i = j
  BY <1>1
<1> HIDE DEF p, q, r, S, R, B, f
<1>11. Total(q, S \cup R) = Total(q, S) + Total(q, R)
  BY <1>3, <1>4, <1>6, TotalOfUnion
<1>12. Total(q, S) = Total(p, S)
  BY <1>6, <1>7, TotalOfEqual
<1>13. Total(r, B) = Total(q, Renamed(f, B))
  BY <1>3, <1>6, <1>8, <1>9, <1>10, TotalOfRenamed
<1> QED BY <1>2, <1>4, <1>9, <1>11, <1>12, <1>13 DEF both

\* Payments of the same amount, with something more in the last one.
Even(s, n, c, more) ==
  Len(s) = n /\ \A k \in 1..n : s[k].amount = c + (IF k = n THEN more ELSE 0)

LEMMA AmountsOfEven ==
  ASSUME NEW n \in Nat \ {0}, NEW c \in Int, NEW more \in Int, NEW s \in Seq(Payments),
         Even(s, n, c, more)
  PROVE  TotalAmount(s) = n * c + more
<1> DEFINE q == AmountsOf(s)
           G == {k \in 0..(n - 1) : Total(q, 1..k) = k * c}
<1>1. DOMAIN s = 1..n /\ \A k \in 1..n : q[k] = c + (IF k = n THEN more ELSE 0)
  BY DEF AmountsOf, Even
<1>2. TotalAmount(s) = Total(q, 1..n)
  BY <1>1, TotalAmountIsTotal
<1>3. \A k \in 0..n : Measures(q, 1..k)
  BY <1>1 DEF Measures, AmountsOf
<1> HIDE DEF q
<1>4. ASSUME NEW k \in 0..(n - 1) PROVE Total(q, 1..(k + 1)) = q[k + 1] + Total(q, 1..k)
  <2> DEFINE S == 1..k
  <2>1. S \cup {k + 1} = 1..(k + 1) /\ k + 1 \notin S /\ k + 1 \in 0..n
    OBVIOUS
  <2>2. IsFiniteSet(S)
    <3>1. 1 \in Int /\ k \in Int
      OBVIOUS
    <3> QED BY ONLY <3>1, FS_Interval DEF S
  <2>3. Measures(q, 1..(k + 1))
    BY <1>3, <2>1
  <2> HIDE DEF S
  <2>4. Measures(q, S \cup {k + 1})
    BY <2>1, <2>3
  <2>5. Total(q, S \cup {k + 1}) = q[k + 1] + Total(q, S)
    BY <2>1, <2>2, <2>4, TotalOfOneMore
  <2> QED BY <2>1, <2>5 DEF S
<1>5. \A k \in 0..(n - 1) : k \in G
  <2>1. 0 \in G
    <3>1. 1..0 = {} /\ 0 * c = 0
      OBVIOUS
    <3> QED BY <3>1, TotalOfNone
  <2>2. ASSUME NEW k \in 0..(n - 1), k \in G, k < n - 1 PROVE k + 1 \in G
    <3>1. q[k + 1] = c
      <4>1. k + 1 \in 1..n /\ k + 1 # n
        BY <2>2
      <4> QED BY <1>1, <4>1
    <3>2. Total(q, 1..(k + 1)) = c + k * c
      BY <1>4, <2>2, <3>1
    <3>3. c + k * c = (k + 1) * c
      BY <2>2
    <3> QED BY <2>2, <3>2, <3>3
  <2>3. n - 1 \in Nat
    OBVIOUS
  <2> HIDE DEF G
  <2> QED BY <2>1, <2>2, <2>3, UpTo
<1>6. Total(q, 1..(n - 1)) = (n - 1) * c /\ n - 1 \in 0..(n - 1)
  BY <1>5
<1>7. Total(q, 1..n) = (c + more) + (n - 1) * c
  <2>1. (n - 1) + 1 = n
    OBVIOUS
  <2> QED BY <1>1, <1>4, <1>6, <2>1
<1>8. (c + more) + (n - 1) * c = n * c + more
  OBVIOUS
<1> QED BY <1>2, <1>7, <1>8

\* The schedules that PaymentSchedule's constructor takes.
Schedules == {s \in Seq(Payments) : InOrder(s)}

LEMMA RemoveInstallmentIsSchedule ==
  ASSUME NEW schedule \in Schedules, NEW index \in Nat
  PROVE  RemoveInstallment(schedule, index) \in Schedules
<1> schedule \in Seq(Payments)
  BY DEF Schedules
<1>1. CASE index < Len(schedule)
  <2> DEFINE before == SubSeq(schedule, 1, (index + 1) - 1)
             after == SubSeq(schedule, (index + 1) + 1, Len(schedule))
  <2>1. Len(schedule) \in Nat /\ \A i \in 1..Len(schedule) : schedule[i] \in Payments
    OBVIOUS
  <2>2. before \in Seq(Payments)
    <3>1. (index + 1) - 1 \in Int /\ \A i \in 1..((index + 1) - 1) : i \in 1..Len(schedule)
      BY <1>1, <2>1
    <3> QED BY <2>1, <3>1, SubSeqProperties
  <2>3. after \in Seq(Payments)
    <3>1. (index + 1) + 1 \in Int /\ Len(schedule) \in Int
          /\ \A i \in ((index + 1) + 1)..Len(schedule) : i \in 1..Len(schedule)
      BY <2>1
    <3> QED BY <2>1, <3>1, SubSeqProperties
  <2>4. RemoveAt(schedule, index + 1) = before \o after
    BY DEF RemoveAt
  <2> HIDE DEF before, after
  <2>5. RemoveAt(schedule, index + 1) \in Seq(Payments)
    BY <2>2, <2>3, <2>4, ConcatProperties
  <2>6. InDateOrder(RemoveAt(schedule, index + 1)) \in Schedules
    BY <2>5, InDateOrderSorts DEF Schedules
  <2> QED BY <1>1, <2>6 DEF RemoveInstallment
<1>2. CASE ~(index < Len(schedule))
  BY <1>2 DEF RemoveInstallment
<1> QED BY <1>1, <1>2

\* The first n installments of a schedule and the others.
LEMMA TakeAndSkip ==
  ASSUME NEW s \in Seq(Payments), NEW n \in Nat, n <= Len(s)
  PROVE  /\ Take(s, n) \in Seq(Payments) /\ Len(Take(s, n)) = n
         /\ Take(s, n) = [k \in 1..n |-> s[k]]
         /\ Skip(s, n) \in Seq(Payments) /\ Len(Skip(s, n)) = Len(s) - n
         /\ \A k \in 1..(Len(s) - n) : Skip(s, n)[k] = s[n + k]
         /\ Take(s, n) \o Skip(s, n) = s
<1> DEFINE L == Len(s)
           first == Take(s, n)
           rest == Skip(s, n)
<1>1. L \in Nat /\ n \in 0..L /\ \A i \in 1..L : s[i] \in Payments
  OBVIOUS
<1>2. first \in Seq(Payments) /\ Len(first) = n /\ first = [k \in 1..n |-> s[k]]
  <2>1. first = SubSeq(s, 1, n)
    <3>1. (IF n < Len(s) THEN n ELSE Len(s)) = n
      BY <1>1
    <3> QED BY <3>1 DEF Take
  <2>2. \A i \in 1..n : i \in 1..L
    BY <1>1
  <2>3. SubSeq(s, 1, n) \in Seq(Payments) /\ Len(SubSeq(s, 1, n)) = n
        /\ \A i \in 1..n : SubSeq(s, 1, n)[i] = s[i]
    BY <1>1, <2>2
  <2> HIDE DEF first
  <2>4. DOMAIN first = 1..n /\ first = [k \in DOMAIN first |-> first[k]]
    BY <1>1, <2>1, <2>3
  <2> QED BY <2>1, <2>3, <2>4
<1>3. rest \in Seq(Payments) /\ Len(rest) = L - n /\ \A k \in 1..(L - n) : rest[k] = s[n + k]
  <2>1. n + 1 \in Int /\ L \in Int /\ \A i \in (n + 1)..L : i \in 1..L
    BY <1>1
  <2>2. rest \in Seq(Payments)
    BY <1>1, <2>1, SubSeqProperties DEF Skip
  <2>3. Len(rest) = L - n
    <3>1. L - (n + 1) + 1 = L - n /\ (~(n + 1 <= L) => L - n = 0)
      BY <1>1
    <3>2. rest = SubSeq(s, n + 1, L)
      BY DEF Skip
    <3> HIDE DEF L, rest
    <3>3. Len(rest) = IF n + 1 <= L THEN L - (n + 1) + 1 ELSE 0
      BY ONLY <1>1, <2>1, <3>2, SubSeqProperties
    <3> QED BY ONLY <3>1, <3>3
  <2>4. ASSUME NEW k \in 1..(L - n) PROVE rest[k] = s[n + k]
    <3>1. (n + 1) + k - 1 = n + k /\ n + k \in 1..L
      BY <1>1
    <3> QED BY <1>1, <2>1, <2>3, <3>1, SubSeqProperties DEF Skip
  <2> QED BY <2>2, <2>3, <2>4
<1> HIDE DEF first, rest
<1>4. first \o rest = s
  <2> DEFINE both == first \o rest
  <2>1. /\ both \in Seq(Payments) /\ Len(both) = n + (L - n)
        /\ \A k \in 1..n : both[k] = first[k]
        /\ \A k \in (n + 1)..(n + (L - n)) : both[k] = rest[k - n]
    BY <1>1, <1>2, <1>3
  <2> HIDE DEF both
  <2>2. n + (L - n) = L /\ \A k \in (n + 1)..L : k - n \in 1..(L - n) /\ n + (k - n) = k
    BY <1>1
  <2>3. ASSUME NEW k \in 1..L PROVE both[k] = s[k]
    <3>1. k \in 1..n \/ k \in (n + 1)..L
      BY <1>1
    <3> QED BY <1>2, <1>3, <2>1, <2>2, <3>1
  <2>4. Len(both) = Len(s)
    BY <2>1, <2>2
  <2>5. both = s
    BY <2>1, <2>3, <2>4
  <2> QED BY <2>5 DEF both
<1> QED BY <1>2, <1>3, <1>4 DEF first, rest

\* The installments that take the place of the rest: none before the first of them, and
\* of the same total.
Installments(rest, n) == [i \in 1..n |-> Installment(rest, n, i - 1)]

LEMMA InstallmentsAreEven ==
  ASSUME NEW rest \in Schedules, rest # <<>>, NEW n \in Nat \ {0},
         NEW spread, spread = Installments(rest, n)
  PROVE  /\ spread \in Seq(Payments) /\ Len(spread) = n
         /\ \A i \in 1..n : spread[i].when >= rest[1].when
         /\ TotalAmount(spread) = TotalAmount(rest)
<1>0. spread = [i \in 1..n |-> Installment(rest, n, i - 1)]
  BY DEF Installments
<1>1. /\ rest \in Seq(Payments) /\ Len(rest) \in Nat \ {0}
      /\ 1 \in DOMAIN rest /\ Len(rest) \in DOMAIN rest
      /\ Head(rest) = rest[1] /\ Last(rest) = rest[Len(rest)]
  BY DEF Schedules, Last
<1>2. rest[1].when <= rest[Len(rest)].when
  <2>1. CASE Len(rest) = 1
    BY <1>1, <2>1, PaymentsOf
  <2>2. CASE Len(rest) # 1
    <3>1. \A i, j \in DOMAIN rest : i < j => rest[i].when <= rest[j].when
      BY DEF Schedules, InOrder
    <3>2. 1 < Len(rest)
      BY <1>1, <2>2
    <3> QED BY <1>1, <3>1, <3>2
  <2> QED BY <2>1, <2>2
<1> DEFINE from == rest[1].when
           to == rest[Len(rest)].when
           total == TotalAmount(rest)
<1>3. from \in Int /\ to \in Int /\ from <= to /\ total \in Int
  BY <1>1, <1>2, PaymentsOf, TotalAmountIsTotal
<1> HIDE DEF from, to, total
<1> DEFINE when(i) == IF n = 1 THEN from ELSE from + ((to - from) * (i - 1)) \div (n - 1)
<1>4. PICK c \in Int, more \in Int : c = total \div n /\ more = total % n /\ n * c + more = total
  <2>1. total \div n \in Int /\ total % n \in Int /\ n * (total \div n) + (total % n) = total
    BY <1>3
  <2> QED BY <2>1
<1> DEFINE amount(i) == c + (IF i = n THEN more ELSE 0)
<1>5. \A i \in 1..n : spread[i] = [when |-> when(i), amount |-> amount(i)]
  <2> SUFFICES ASSUME NEW i \in 1..n PROVE spread[i] = [when |-> when(i), amount |-> amount(i)]
    OBVIOUS
  <2>1. i - 1 = n - 1 <=> i = n
    OBVIOUS
  <2>2. spread[i] = Installment(rest, n, i - 1)
    BY <1>0
  <2> QED BY <1>1, <1>4, <2>1, <2>2 DEF Installment, from, to, total
<1>6. ASSUME NEW i \in 1..n PROVE when(i) \in Int /\ when(i) >= from
  <2>1. CASE n # 1
    <3> DEFINE days == (to - from) * (i - 1)
               m == n - 1
    <3>1. m \in Nat \ {0} /\ to - from \in Nat /\ i - 1 \in Nat
      BY <1>3, <2>1
    <3>2. days \in Nat
      BY <3>1
    <3> HIDE DEF days, m
    <3>3. days \div m \in Int /\ days \div m >= 0
      BY <3>1, <3>2
    <3>4. when(i) = from + days \div m
      BY <2>1 DEF days, m
    <3> HIDE DEF when
    <3> QED BY <1>3, <3>3, <3>4
  <2> QED BY <1>3, <2>1
<1>7. \A i \in 1..n : amount(i) \in Int
  OBVIOUS
<1> HIDE DEF when
<1>8. /\ DOMAIN spread = 1..n
      /\ \A i \in 1..n : /\ spread[i].when \in Int /\ spread[i].when >= from
                         /\ spread[i].amount = c + (IF i = n THEN more ELSE 0)
                         /\ spread[i] \in Payments
  <2>1. DOMAIN spread = 1..n
    BY <1>0
  <2>2. ASSUME NEW i \in 1..n
        PROVE  /\ spread[i].when \in Int /\ spread[i].when >= from
               /\ spread[i].amount = c + (IF i = n THEN more ELSE 0)
               /\ spread[i] \in Payments
    <3> DEFINE w == when(i)
               a == amount(i)
    <3>1. w \in Int /\ w >= from /\ a \in Int /\ spread[i] = [when |-> w, amount |-> a]
      BY <1>5, <1>6, <1>7
    <3>2. a = c + (IF i = n THEN more ELSE 0)
      OBVIOUS
    <3> HIDE DEF w, a
    <3> QED BY ONLY <3>1, <3>2 DEF Payments
  <2> QED BY <2>1, <2>2
<1>9. spread \in Seq(Payments) /\ Len(spread) = n
  <2>1. spread = [i \in 1..n |-> spread[i]]
    BY <1>0
  <2> QED BY ONLY <1>8, <2>1, n \in Nat \ {0}
<1>10. TotalAmount(spread) = n * c + more
  <2>1. c \in Int /\ more \in Int /\ \A i \in 1..n : spread[i].amount = c + (IF i = n THEN more ELSE 0)
    BY <1>8
  <2>2. Even(spread, n, c, more)
    BY <1>9, <2>1 DEF Even
  <2> QED BY ONLY <1>9, <2>1, <2>2, n \in Nat \ {0}, AmountsOfEven
<1> QED BY <1>4, <1>8, <1>9, <1>10 DEF from, total

\* Spreading the rest of a schedule keeps its total and the installments before the rest.
LEMMA SpreadRemainingKeeps ==
  ASSUME NEW schedule \in Schedules, NEW n \in Nat \ {0}, NEW d, Len(d.matched) \in Nat
  PROVE  /\ SpreadRemaining(schedule, n, d) \in Schedules
         /\ TotalAmount(SpreadRemaining(schedule, n, d)) = TotalAmount(schedule)
         /\ Take(SpreadRemaining(schedule, n, d), Len(d.matched)) = Take(schedule, Len(d.matched))
<1> DEFINE paid == Len(d.matched)
<1>1. CASE paid >= Len(schedule)
  BY <1>1 DEF SpreadRemaining
<1>2. CASE ~(paid >= Len(schedule))
  <2> DEFINE rest == Skip(schedule, paid)
             first == Take(schedule, paid)
             spread == Installments(rest, n)
             both == first \o spread
  <2>1. schedule \in Seq(Payments) /\ Len(schedule) \in Nat /\ paid \in Nat /\ paid < Len(schedule)
    BY <1>2 DEF Schedules
  <2>2. /\ first \in Seq(Payments) /\ Len(first) = paid /\ first = [k \in 1..paid |-> schedule[k]]
        /\ rest \in Seq(Payments) /\ Len(rest) = Len(schedule) - paid
        /\ \A k \in 1..(Len(schedule) - paid) : rest[k] = schedule[paid + k]
        /\ first \o rest = schedule
    <3> HIDE DEF paid
    <3>1. paid <= Len(schedule)
      BY <2>1
    <3> QED BY ONLY <2>1, <3>1, TakeAndSkip DEF first, rest
  <2>3. SpreadRemaining(schedule, n, d) = InDateOrder(both)
    BY <1>2 DEF SpreadRemaining, Installments
  <2> HIDE DEF paid, rest, first
  <2>4. rest \in Schedules /\ rest # <<>>
    <3>1. ASSUME NEW i \in 1..(Len(schedule) - paid), NEW j \in 1..(Len(schedule) - paid), i < j
          PROVE  rest[i].when <= rest[j].when
      <4>1. paid + i \in DOMAIN schedule /\ paid + j \in DOMAIN schedule /\ paid + i < paid + j
        BY <2>1, <3>1
      <4> QED BY <2>2, <4>1 DEF Schedules, InOrder
    <3>2. DOMAIN rest = 1..(Len(schedule) - paid) /\ Len(rest) # 0
      BY <2>1, <2>2
    <3> QED BY <2>2, <3>1, <3>2 DEF Schedules, InOrder
  <2>5. /\ spread \in Seq(Payments) /\ Len(spread) = n
        /\ \A i \in 1..n : spread[i].when >= rest[1].when
        /\ TotalAmount(spread) = TotalAmount(rest)
    BY <2>4, InstallmentsAreEven
  <2> HIDE DEF spread
  <2>6. TotalAmount(both) = TotalAmount(schedule)
    <3>1. TotalAmount(both) = TotalAmount(first) + TotalAmount(spread)
      BY <2>2, <2>5, AmountsTogether
    <3>2. TotalAmount(first \o rest) = TotalAmount(first) + TotalAmount(rest)
      BY <2>2, AmountsTogether
    <3> QED BY <2>2, <2>5, <3>1, <3>2
  <2>7. /\ both \in Seq(Payments) /\ Len(both) = paid + n
        /\ \A k \in 1..paid : both[k] = schedule[k]
        /\ \A k \in (paid + 1)..(paid + n) : both[k] = spread[k - paid]
    <3>1. \A k \in 1..paid : first[k] = schedule[k]
      BY <2>2
    <3>2. /\ both \in Seq(Payments) /\ Len(both) = paid + n
          /\ \A k \in 1..paid : both[k] = first[k]
          /\ \A k \in (paid + 1)..(paid + n) : both[k] = spread[k - paid]
      <4>1. /\ first \in Seq(Payments) /\ Len(first) = paid
            /\ spread \in Seq(Payments) /\ Len(spread) = n
        BY <2>2, <2>5
      <4>2. paid = Len(first) /\ n = Len(spread) /\ both = first \o spread
        BY <4>1
      <4> DEFINE T == Payments
      <4> HIDE DEF both, spread, T
      <4>3. first \in Seq(T) /\ spread \in Seq(T)
        BY <4>1 DEF T
      <4>4. /\ both \in Seq(T) /\ Len(both) = paid + n
            /\ \A k \in 1..paid : both[k] = first[k]
            /\ \A k \in (paid + 1)..(paid + n) : both[k] = spread[k - paid]
        BY ONLY <4>2, <4>3, Together
      <4> QED BY ONLY <4>4 DEF T
    <3> QED BY <3>1, <3>2
  <2> HIDE DEF both
  <2>8. Leads(both, paid)
    <3> SUFFICES ASSUME NEW i \in 1..paid, NEW j \in 1..(paid + n), i < j
                 PROVE  both[i].when <= both[j].when
      BY <2>1, <2>7 DEF Leads
    <3>1. CASE j \in 1..paid
      <4>1. i \in DOMAIN schedule /\ j \in DOMAIN schedule
        BY <2>1, <3>1
      <4> QED BY <2>7, <3>1, <4>1 DEF Schedules, InOrder
    <3>2. CASE j \notin 1..paid
      <4>1. j \in (paid + 1)..(paid + n) /\ j - paid \in 1..n
        BY <2>1, <3>2
      <4>2. i \in DOMAIN schedule /\ paid + 1 \in DOMAIN schedule /\ i < paid + 1
        BY <2>1
      <4>3. schedule[i].when <= schedule[paid + 1].when
        BY <4>2 DEF Schedules, InOrder
      <4>4. rest[1] = schedule[paid + 1]
        BY <2>1, <2>2
      <4>5. spread[j - paid].when >= rest[1].when /\ both[j] = spread[j - paid] /\ both[i] = schedule[i]
        BY <2>5, <2>7, <4>1
      <4>6. /\ schedule[i].when \in Int /\ schedule[paid + 1].when \in Int
            /\ spread[j - paid].when \in Int
        BY <2>1, <2>5, <4>1, <4>2, PaymentsOf
      <4> QED BY <4>3, <4>4, <4>5, <4>6
    <3> QED BY <3>1, <3>2
  <2> DEFINE s == InDateOrder(both)
  <2>9. /\ s \in Seq(Payments) /\ InOrder(s) /\ Len(s) = paid + n
        /\ TotalAmount(s) = TotalAmount(schedule)
        /\ \A k \in 1..paid : s[k] = both[k]
    <3>1. paid \in 0..Len(both)
      BY <2>1, <2>7
    <3> QED BY <2>6, <2>7, <2>8, <3>1, InDateOrderSorts
  <2> HIDE DEF s
  <2>10. Take(s, paid) = first
    <3>1. Take(s, paid) = [k \in 1..paid |-> s[k]]
      <4>1. paid <= Len(s)
        BY <2>1, <2>9
      <4> QED BY <2>1, <2>9, <4>1, TakeAndSkip
    <3>2. \A k \in 1..paid : s[k] = schedule[k]
      BY <2>7, <2>9
    <3> QED BY <2>2, <3>1, <3>2
  <2>11. s \in Schedules
    BY <2>9 DEF Schedules
  <2> QED BY <2>3, <2>9, <2>10, <2>11 DEF s, first, paid
<1> QED BY <1>1, <1>2

Modified(schedule, m, d) ==
  IF m.kind = "remove" THEN RemoveInstallment(schedule, m.index)
  ELSE SpreadRemaining(schedule, m.count, d)

\* What each modifier of a rule keeps, the rule keeps.
LEMMA ModifyKeeps ==
  ASSUME NEW V, NEW schedule \in V, NEW modifier \in Seq(ScheduleModifiers), NEW d,
         \A s \in V, i \in DOMAIN modifier : Modified(s, modifier[i], d) \in V
  PROVE  Modify(schedule, modifier, d) \in V
<1> DEFINE N == Len(modifier)
           Next1(s, m) == Modified(s, m, d)
           g == [a \in (1..N) \X V |-> Next1(a[2], modifier[a[1]])]
           D == DOMAIN modifier
           adds(it) == it = [S \in SUBSET D |->
             IF S = {} THEN schedule ELSE Next1(it[S \ {Max(S)}], modifier[Max(S)])]
           fold == CHOOSE it : adds(it)
<1>1. N \in Nat /\ D = 1..N /\ schedule \in V
  OBVIOUS
<1>2. ASSUME NEW s \in V, NEW i \in 1..N PROVE Next1(s, modifier[i]) \in V
  OBVIOUS
<1>3. Modify(schedule, modifier, d) = fold[D]
  BY DEF Modify, Modified, FoldLeft, MapThenFoldSet
<1> HIDE DEF Next1, N
<1>4. g \in [(1..N) \X V -> V] /\ \A i \in 1..N, s \in V : g[<<i, s>>] = Next1(s, modifier[i])
  BY <1>2
<1> HIDE DEF g
<1>5. PICK step \in [SUBSET (1..N) -> V] : Folds(step, schedule, g, N)
  BY <1>1, <1>4, FoldExists
<1>6. ASSUME NEW S \in SUBSET (1..N), S # {} PROVE Max(S) \in 1..N
  <2>1. S \subseteq 0..N
    OBVIOUS
  <2>2. Max(S) \in S
    BY <1>1, <1>6, <2>1, GreatestExists
  <2> QED BY <2>2
<1>7. adds(step)
  <2>1. ASSUME NEW S \in SUBSET (1..N)
        PROVE  step[S] = IF S = {} THEN schedule ELSE Next1(step[S \ {Max(S)}], modifier[Max(S)])
    <3>1. S \ {Max(S)} \in SUBSET (1..N)
      OBVIOUS
    <3>2. step[S] = IF S = {} THEN schedule ELSE g[<<Max(S), step[S \ {Max(S)}]>>]
      BY <1>5 DEF Folds
    <3>3. step[S \ {Max(S)}] \in V
      BY <1>5, <3>1
    <3> QED BY <1>1, <1>4, <1>6, <3>2, <3>3
  <2> QED BY <1>1, <1>5, <2>1
<1> HIDE DEF adds
<1>8. adds(fold)
  BY <1>7
<1> HIDE DEF fold
<1>9. Steps(fold, schedule, g, N, V)
  <2>1. fold[{}] = schedule
    BY <1>8 DEF adds
  <2>2. ASSUME NEW S \in (SUBSET (1..N)) \ {{}}, fold[S \ {Max(S)}] \in V
        PROVE  fold[S] = g[<<Max(S), fold[S \ {Max(S)}]>>]
    <3>1. fold[S] = Next1(fold[S \ {Max(S)}], modifier[Max(S)])
      BY <1>1, <1>8 DEF adds
    <3> QED BY <1>1, <1>4, <1>6, <2>2, <3>1
  <2> QED BY <2>1, <2>2 DEF Steps
<1>10. InTurn(fold, schedule, g, N, V)
  BY <1>1, <1>4, <1>9, FoldsInTurn
<1>11. fold[D] \in V
  BY <1>1, <1>10 DEF InTurn
<1> QED BY <1>3, <1>11

LEMMA ModifiersOf ==
  ASSUME NEW m \in ScheduleModifiers
  PROVE  \/ m.kind = "remove" /\ m.index \in Nat
         \/ m.kind = "spread" /\ m.count \in Nat \ {0}
BY DEF ScheduleModifiers

LEMMA ModifyIsSchedule ==
  ASSUME NEW schedule \in Schedules, NEW modifier \in Seq(ScheduleModifiers),
         NEW d, Len(d.matched) \in Nat
  PROVE  Modify(schedule, modifier, d) \in Schedules
<1>1. ASSUME NEW s \in Schedules, NEW i \in DOMAIN modifier
      PROVE  Modified(s, modifier[i], d) \in Schedules
  <2> DEFINE m == modifier[i]
  <2>1. m \in ScheduleModifiers
    OBVIOUS
  <2> HIDE DEF m
  <2>2. CASE m.kind = "remove" /\ m.index \in Nat
    BY <2>2, RemoveInstallmentIsSchedule DEF Modified, m
  <2>3. CASE m.kind = "spread" /\ m.count \in Nat \ {0}
    BY <2>3, SpreadRemainingKeeps DEF Modified, m
  <2> QED BY <2>1, <2>2, <2>3, ModifiersOf
<1> QED BY <1>1, ModifyKeeps

\* The schedules of the same total whose first n installments are the same.
SpreadFrom(schedule, n) ==
  {s \in Schedules : TotalAmount(s) = TotalAmount(schedule) /\ Take(s, n) = Take(schedule, n)}

LEMMA ModifySpreads ==
  ASSUME NEW schedule, NEW d, Len(d.matched) \in Nat, NEW modifier \in Seq(ScheduleModifiers),
         \A i \in DOMAIN modifier : modifier[i].kind = "spread",
         NEW s \in SpreadFrom(schedule, Len(d.matched))
  PROVE  Modify(s, modifier, d) \in SpreadFrom(schedule, Len(d.matched))
<1> DEFINE V == SpreadFrom(schedule, Len(d.matched))
<1>1. ASSUME NEW x \in V, NEW i \in DOMAIN modifier
      PROVE  Modified(x, modifier[i], d) \in V
  <2> DEFINE m == modifier[i]
  <2>1. m \in ScheduleModifiers /\ m.kind = "spread"
    OBVIOUS
  <2> HIDE DEF m
  <2>2. m.count \in Nat \ {0} /\ x \in Schedules
    BY <2>1, ModifiersOf DEF SpreadFrom
  <2>3. Modified(x, m, d) = SpreadRemaining(x, m.count, d)
    BY <2>1 DEF Modified
  <2>4. SpreadRemaining(x, m.count, d) \in V
    BY <2>2, SpreadRemainingKeeps DEF SpreadFrom
  <2> QED BY <2>3, <2>4 DEF m
<1> HIDE DEF V
<1>2. s \in V
  BY DEF V
<1> QED BY <1>1, <1>2, ModifyKeeps DEF V

-----------------------------------------------------------------------------
(* The orchestrator *)

PaymentTypes ==
  /\ active \in Schedules /\ received \in Seq(Payments)
  /\ rules \in RuleSets

PaymentInv == PaymentTypes /\ PaymentsAreUsedOnce

\* The rules that an analysis applies.
LEMMA RulesToApply ==
  ASSUME PaymentTypes, NEW d
  PROVE  /\ ToApply(d) \in Seq(DOMAIN rules)
         /\ \A r \in DOMAIN rules : rules[r].modifier \in Seq(ScheduleModifiers)
<1> DEFINE R == [on : {"late", "onTime"}, atLeast : Nat, modifier : Seq(ScheduleModifiers),
                 once : BOOLEAN]
           fit == { r \in DOMAIN rules : Fulfills(d, rules[r]) /\ r \notin appliedOnce }
<1>1. rules \in Seq(R)
  BY PaymentsAssumption DEF PaymentTypes, PaymentsAssumption
<1>2. \A r \in R : r.modifier \in Seq(ScheduleModifiers)
  OBVIOUS
<1> HIDE DEF R
<1>3. DOMAIN rules = 1..Len(rules) /\ Len(rules) \in Nat /\ \A r \in DOMAIN rules : rules[r] \in R
  BY <1>1
<1>4. IsFiniteSet(DOMAIN rules) /\ DOMAIN rules \subseteq Int
  BY <1>3, FS_Interval
<1>5. fit \subseteq DOMAIN rules
  OBVIOUS
<1>6. ToApply(d) = Ascending(fit)
  BY DEF ToApply
<1> HIDE DEF fit
<1>7. IsFiniteSet(fit) /\ fit \subseteq Int
  BY <1>4, <1>5, FS_Subset
<1>8. Ascending(fit) \in Seq(fit)
  BY <1>7, AscendingListsAll
<1> QED BY <1>2, <1>3, <1>5, <1>6, <1>8

\* What each of the rules keeps, an analysis keeps.
LEMMA RulesKeep ==
  ASSUME NEW V, active \in V, NEW d, NEW chosen \in Seq(DOMAIN rules),
         \A s \in V, r \in ToSet(chosen) : Modify(s, rules[r].modifier, d) \in V
  PROVE  Rescheduled(d, chosen) \in V
<1> DEFINE N == Len(chosen)
           Next1(s, r) == Modify(s, rules[r].modifier, d)
           g == [a \in (1..N) \X V |-> Next1(a[2], chosen[a[1]])]
           D == DOMAIN chosen
           adds(it) == it = [S \in SUBSET D |->
             IF S = {} THEN active ELSE Next1(it[S \ {Max(S)}], chosen[Max(S)])]
           fold == CHOOSE it : adds(it)
<1>1. N \in Nat /\ D = 1..N /\ active \in V
  OBVIOUS
<1>2. ASSUME NEW s \in V, NEW i \in 1..N PROVE Next1(s, chosen[i]) \in V
  <2>1. chosen[i] \in ToSet(chosen)
    BY DEF ToSet
  <2> QED BY <2>1
<1>3. Rescheduled(d, chosen) = fold[D]
  BY DEF Rescheduled, FoldLeft, MapThenFoldSet
<1> HIDE DEF Next1, N
<1>4. g \in [(1..N) \X V -> V] /\ \A i \in 1..N, s \in V : g[<<i, s>>] = Next1(s, chosen[i])
  BY <1>2
<1> HIDE DEF g
<1>5. PICK step \in [SUBSET (1..N) -> V] : Folds(step, active, g, N)
  BY <1>1, <1>4, FoldExists
<1>6. ASSUME NEW S \in SUBSET (1..N), S # {} PROVE Max(S) \in 1..N
  <2>1. S \subseteq 0..N
    OBVIOUS
  <2>2. Max(S) \in S
    BY <1>1, <1>6, <2>1, GreatestExists
  <2> QED BY <2>2
<1>7. adds(step)
  <2>1. ASSUME NEW S \in SUBSET (1..N)
        PROVE  step[S] = IF S = {} THEN active ELSE Next1(step[S \ {Max(S)}], chosen[Max(S)])
    <3>1. S \ {Max(S)} \in SUBSET (1..N)
      OBVIOUS
    <3>2. step[S] = IF S = {} THEN active ELSE g[<<Max(S), step[S \ {Max(S)}]>>]
      BY <1>5 DEF Folds
    <3>3. step[S \ {Max(S)}] \in V
      BY <1>5, <3>1
    <3> QED BY <1>1, <1>4, <1>6, <3>2, <3>3
  <2> QED BY <1>1, <1>5, <2>1
<1> HIDE DEF adds
<1>8. adds(fold)
  BY <1>7
<1> HIDE DEF fold
<1>9. Steps(fold, active, g, N, V)
  <2>1. fold[{}] = active
    BY <1>8 DEF adds
  <2>2. ASSUME NEW S \in (SUBSET (1..N)) \ {{}}, fold[S \ {Max(S)}] \in V
        PROVE  fold[S] = g[<<Max(S), fold[S \ {Max(S)}]>>]
    <3>1. fold[S] = Next1(fold[S \ {Max(S)}], chosen[Max(S)])
      BY <1>1, <1>8 DEF adds
    <3> QED BY <1>1, <1>4, <1>6, <2>2, <3>1
  <2> QED BY <2>1, <2>2 DEF Steps
<1>10. InTurn(fold, active, g, N, V)
  BY <1>1, <1>4, <1>9, FoldsInTurn
<1>11. fold[D] \in V
  BY <1>1, <1>10 DEF InTurn
<1> QED BY <1>3, <1>11

LEMMA RulesApply ==
  ASSUME PaymentTypes, NEW d, Len(d.matched) \in Nat
  PROVE  Rescheduled(d, ToApply(d)) \in Schedules
<1> DEFINE chosen == ToApply(d)
<1>1. /\ chosen \in Seq(DOMAIN rules) /\ ToSet(chosen) \subseteq DOMAIN rules
      /\ \A r \in DOMAIN rules : rules[r].modifier \in Seq(ScheduleModifiers)
  BY RulesToApply DEF ToSet
<1> HIDE DEF chosen
<1>2. \A s \in Schedules, r \in ToSet(chosen) : Modify(s, rules[r].modifier, d) \in Schedules
  BY <1>1, ModifyIsSchedule
<1>3. active \in Schedules
  BY DEF PaymentTypes
<1>4. Rescheduled(d, chosen) \in Schedules
  BY <1>1, <1>2, <1>3, RulesKeep
<1> QED BY <1>4 DEF chosen

LEMMA RulesSpread ==
  ASSUME PaymentTypes, NEW d, Len(d.matched) \in Nat, OnlySpreads(ToApply(d))
  PROVE  Rescheduled(d, ToApply(d)) \in SpreadFrom(active, Len(d.matched))
<1> DEFINE chosen == ToApply(d)
           V == SpreadFrom(active, Len(d.matched))
<1>1. /\ chosen \in Seq(DOMAIN rules) /\ ToSet(chosen) \subseteq DOMAIN rules
      /\ \A r \in DOMAIN rules : rules[r].modifier \in Seq(ScheduleModifiers)
  BY RulesToApply DEF ToSet
<1>2. \A r \in ToSet(chosen) : \A i \in DOMAIN rules[r].modifier : rules[r].modifier[i].kind = "spread"
  BY DEF OnlySpreads
<1> HIDE DEF chosen
<1>3. ASSUME NEW s \in V, NEW r \in ToSet(chosen) PROVE Modify(s, rules[r].modifier, d) \in V
  BY <1>1, <1>2, ModifySpreads
<1>4. active \in V
  BY DEF PaymentTypes, SpreadFrom
<1> HIDE DEF V
<1>5. Rescheduled(d, chosen) \in V
  BY <1>1, <1>3, <1>4, RulesKeep
<1> QED BY <1>5 DEF chosen, V

LEMMA PaymentInvHolds ==
  /\ PInit => PaymentInv
  /\ PaymentInv /\ [PNext]_pvars => PaymentInv'
<1>1. PInit => PaymentInv
  <2> SUFFICES ASSUME PInit PROVE PaymentInv
    OBVIOUS
  <2>1. PaymentTypes
    <3>1. active \in Schedules
      BY PaymentsAssumption DEF PInit, PaymentsAssumption, Schedules
    <3> QED BY <3>1 DEF PInit, PaymentTypes
  <2>2. PaymentsAreUsedOnce
    BY DEF PInit, PaymentsAreUsedOnce, PartitionsItsItems, NoDelta, ToSet
  <2> QED BY <2>1, <2>2 DEF PaymentInv
<1>2. ASSUME PaymentInv, NEW p \in Incoming, PaymentProcessed(p) PROVE PaymentInv'
  <2>1. received' = Append(received, p) /\ p \in Payments
        /\ UNCHANGED <<active, rules, tolerance, delta>>
    BY <1>2, PaymentsAssumption DEF PaymentProcessed, PaymentsAssumption
  <2>2. PaymentTypes'
    BY <1>2, <2>1 DEF PaymentInv, PaymentTypes
  <2>3. PaymentsAreUsedOnce'
    BY <1>2, <2>1 DEF PaymentInv, PaymentsAreUsedOnce
  <2> QED BY <2>2, <2>3 DEF PaymentInv
<1>3. ASSUME PaymentInv, AnalyzeAndApply PROVE PaymentInv'
  <2> DEFINE payments == InDateOrder(received)
             d == Analyze(active, payments, tolerance)
  <2>1. /\ delta' = d /\ UNCHANGED <<rules, tolerance, received>>
        /\ active' = Rescheduled(d, ToApply(d))
    BY <1>3 DEF AnalyzeAndApply
  <2>2. PaymentTypes
    BY <1>3 DEF PaymentInv
  <2>3. payments \in Seq(Payments) /\ active \in Seq(Payments)
    BY <2>2, InDateOrderSorts DEF PaymentTypes, Schedules
  <2> HIDE DEF payments
  <2>4. /\ d \in Deltas(active, payments) /\ Accounted(d, Len(active))
        /\ NoneOverlooked(d, tolerance)
    BY <2>3, AnalyzeAccounts
  <2> HIDE DEF d
  <2>5. PartitionsItsItems(d) /\ Len(d.matched) \in Nat
    BY <2>3, <2>4, AccountedIsPartition, DeltaIs
  <2>6. active' \in Schedules
    BY <2>1, <2>2, <2>5, RulesApply
  <2>7. PaymentTypes'
    BY <2>1, <2>2, <2>6 DEF PaymentTypes
  <2>8. PaymentsAreUsedOnce'
    BY <2>1, <2>4, <2>5 DEF PaymentsAreUsedOnce, NoneOverlooked
  <2> QED BY <2>7, <2>8 DEF PaymentInv
<1>4. ASSUME PaymentInv, UNCHANGED pvars PROVE PaymentInv'
  BY <1>4 DEF PaymentInv, PaymentTypes, PaymentsAreUsedOnce, pvars
<1> QED BY <1>1, <1>2, <1>3, <1>4 DEF PNext

\* Whatever the schedules, payments, rules and tolerances: at every analysis each
\* installment is matched or missed, each payment settles one installment or is left
\* over, and none that is left over would by itself settle an installment reported
\* missing (DeltaCalculator.calculate and findBestMatch).
THEOREM PaymentsUsedOnce == PSpec => []PaymentsAreUsedOnce
<1>1. PaymentInv => PaymentsAreUsedOnce
  BY DEF PaymentInv
<1> QED BY <1>1, PaymentInvHolds, PTL DEF PSpec

LEMMA AnalysesSpread ==
  PaymentInv /\ [PNext]_pvars =>
    [OnlySpreads(fulfilled') =>
       /\ TotalAmount(active') = TotalAmount(active)
       /\ PaidInOrder(delta') =>
            Take(active', Len(delta'.matched)) = Take(active, Len(delta'.matched))]_pvars
<1> DEFINE Spreads == OnlySpreads(fulfilled') =>
             /\ TotalAmount(active') = TotalAmount(active)
             /\ PaidInOrder(delta') =>
                  Take(active', Len(delta'.matched)) = Take(active, Len(delta'.matched))
<1>1. ASSUME PaymentInv, AnalyzeAndApply PROVE Spreads
  <2> DEFINE payments == InDateOrder(received)
             d == Analyze(active, payments, tolerance)
  <2>1. delta' = d /\ fulfilled' = ToApply(d) /\ active' = Rescheduled(d, ToApply(d))
    BY <1>1 DEF AnalyzeAndApply
  <2>2. PaymentTypes
    BY <1>1 DEF PaymentInv
  <2>3. payments \in Seq(Payments) /\ active \in Seq(Payments)
    BY <2>2, InDateOrderSorts DEF PaymentTypes, Schedules
  <2> HIDE DEF payments
  <2>4. d \in Deltas(active, payments)
    BY <2>3, AnalyzeAccounts
  <2> HIDE DEF d
  <2>5. Len(d.matched) \in Nat
    BY <2>3, <2>4, DeltaIs
  <2>6. ASSUME OnlySpreads(ToApply(d))
        PROVE  /\ TotalAmount(Rescheduled(d, ToApply(d))) = TotalAmount(active)
               /\ Take(Rescheduled(d, ToApply(d)), Len(d.matched)) = Take(active, Len(d.matched))
    BY <2>2, <2>5, <2>6, RulesSpread DEF SpreadFrom
  <2> QED BY <2>1, <2>6
<1>2. ASSUME NEW p \in Incoming, PaymentProcessed(p) PROVE Spreads
  BY <1>2 DEF PaymentProcessed
<1> QED BY <1>1, <1>2 DEF PNext

\* Whatever the schedules, payments, rules and tolerances: an analysis whose rules only
\* spread leaves the total of the schedule as it was, and leaves as many installments at
\* its beginning where they are as were matched (SpreadRemainingAmountModifier, the sort
\* and the constructor of PaymentSchedule).
THEOREM SpreadingMovesOnlyTheRest == PSpec => SpreadsOnlyTheRest
BY PaymentInvHolds, AnalysesSpread, PTL DEF PSpec, SpreadsOnlyTheRest

-----------------------------------------------------------------------------
(* Production *)

\* The batches of the group are all of the product.
AreAll(product, batches, group) == \A k \in ToSet(group) : batches[k].product = product

\* findBestMatch answers a group of batches that are left, all of the target's product.
LEMMA BestBatchesIsGroup ==
  ASSUME NEW A, NEW batches \in Seq(A), NEW left \in SUBSET DOMAIN batches, NEW target, NEW t
  PROVE  /\ BestBatches(target, batches, left, t) \in Groups(left)
         /\ AreAll(target.product, batches, BestBatches(target, batches, left, t))
<1> DEFINE same == { k \in left : batches[k].product = target.product }
           s == Ascending(same)
           fitting == { r \in Runs(s, LongestGroup) : Accepts(t, target, At(batches, Run(s, r))) }
           group == FirstRun(s, fitting)
<1>1. IsFiniteSet(same) /\ same \subseteq Int /\ same \subseteq left
  <2>1. IsFiniteSet(DOMAIN batches) /\ DOMAIN batches \subseteq Int
    BY SmallPieces
  <2> QED BY <2>1, FS_Subset
<1>2. BestBatches(target, batches, left, t) = group
  BY DEF BestBatches, SameProduct
<1>3. \A k \in same : batches[k].product = target.product
  OBVIOUS
<1> HIDE DEF same
<1>4. s \in Seq(same) /\ IsInjective(s)
  BY <1>1, AscendingListsAll
<1> HIDE DEF s
<1>5. fitting \in SUBSET Runs(s, LongestGroup) /\ LongestGroup \in Nat
  BY DEF LongestGroup
<1> HIDE DEF fitting
<1>6. group \in Groups(same)
  BY <1>4, <1>5, FirstRunIsGroup
<1> HIDE DEF group
<1>7. group \in Groups(left)
  <2>1. group \in Seq(same) /\ IsInjective(group)
    BY <1>6 DEF Groups
  <2>2. ASSUME NEW q \in Seq(same) PROVE q \in Seq(left)
    <3>1. Len(q) \in Nat /\ q \in [1..Len(q) -> same]
      OBVIOUS
    <3>2. q \in [1..Len(q) -> left]
      BY <1>1, <3>1
    <3> QED BY <3>1, <3>2
  <2> QED BY <2>1, <2>2 DEF Groups
<1>8. \A k \in ToSet(group) : k \in same
  BY <1>6 DEF Groups, ToSet
<1> QED BY <1>2, <1>3, <1>7, <1>8 DEF AreAll

\* No batch counts for a target of another product.
OwnProducts(d) ==
  \A m \in DOMAIN d.matched : \A k \in ToSet(d.matched[m].actual) :
    d.actual[k].product = d.planned[d.matched[m].planned].product

LEMMA AssignedKeepsProducts ==
  ASSUME NEW A, NEW B, NEW planned \in Seq(A), NEW actual \in Seq(B),
         NEW d \in Deltas(planned, actual), NEW i \in DOMAIN planned, OwnProducts(d),
         NEW group \in Groups(d.left), AreAll(planned[i].product, actual, group)
  PROVE  OwnProducts(Assigned(d, i, group))
<1> DEFINE e == Assigned(d, i, group)
           Match == [planned : DOMAIN planned, actual : Seq(DOMAIN actual)]
<1>1. d.planned = planned /\ d.actual = actual /\ d.matched \in Seq(Match)
  BY DEF Deltas
<1>2. e.planned = planned /\ e.actual = actual
  BY <1>1 DEF Assigned, Deltas
<1>3. CASE group = <<>>
  <2>1. e.matched = d.matched
    BY <1>3 DEF Assigned, Deltas
  <2> HIDE DEF e
  <2>2. OwnProducts(e)
    BY <1>1, <1>2, <2>1 DEF OwnProducts
  <2> QED BY <2>2 DEF e
<1>4. CASE group # <<>>
  <2> DEFINE match == [planned |-> i, actual |-> group]
             L == Len(d.matched) + 1
  <2>1. e.matched = Append(d.matched, match)
    BY <1>4 DEF Assigned, Deltas
  <2>2. match.planned = i /\ match.actual = group /\ match \in Match
    BY DeltaIs DEF Groups
  <2> HIDE DEF e, match, Match
  <2>3. /\ DOMAIN e.matched = (DOMAIN d.matched) \cup {L}
        /\ e.matched[L] = match /\ \A m \in DOMAIN d.matched : e.matched[m] = d.matched[m]
    BY <1>1, <2>1, <2>2, AppendedPlaces
  <2> HIDE DEF L
  <2>4. OwnProducts(e)
    BY <1>1, <1>2, <2>2, <2>3 DEF OwnProducts, AreAll
  <2> QED BY <2>4 DEF e
<1> QED BY <1>3, <1>4

LEMMA AnalyzeProductionAccounts ==
  ASSUME NEW A, NEW B, NEW targets \in Seq(A), NEW batches \in Seq(B), NEW t
  PROVE  LET d == AnalyzeProduction(targets, batches, t)
         IN  /\ d \in Deltas(targets, batches) /\ Accounted(d, Len(targets))
             /\ OwnProducts(d)
<1> DEFINE N == Len(targets)
           V == Deltas(targets, batches)
           base == NothingMatched(targets, batches)
           Next1(d, i) == Assigned(d, i, BestBatches(targets[i], batches, d.left, t))
           g == [a \in (1..N) \X V |-> Next1(a[2], a[1])]
           D == DOMAIN Positions(targets)
           adds(it) == it = [s \in SUBSET D |->
             IF s = {} THEN base ELSE Next1(it[s \ {Max(s)}], Positions(targets)[Max(s)])]
           fold == CHOOSE it : adds(it)
<1>1. /\ N \in Nat /\ DOMAIN targets = 1..N /\ D = 1..N
      /\ \A k \in 1..N : Positions(targets)[k] = k
  BY SmallPieces
<1>2. base \in V /\ Accounted(base, 0) /\ OwnProducts(base)
  <2>1. base \in V /\ Accounted(base, 0)
    BY NothingMatchedIsAccounted
  <2>2. OwnProducts(base)
    BY DEF OwnProducts, NothingMatched, ToSet
  <2> QED BY <2>1, <2>2
<1>3. ASSUME NEW d \in V, NEW i \in 1..N
      PROVE  /\ BestBatches(targets[i], batches, d.left, t) \in Groups(d.left)
             /\ AreAll(targets[i].product, batches, BestBatches(targets[i], batches, d.left, t))
             /\ Next1(d, i) \in V
  <2>1. d.left \in SUBSET DOMAIN batches
    BY DEF Deltas
  <2>2. /\ BestBatches(targets[i], batches, d.left, t) \in Groups(d.left)
        /\ AreAll(targets[i].product, batches, BestBatches(targets[i], batches, d.left, t))
    BY <2>1, BestBatchesIsGroup
  <2>3. BestBatches(targets[i], batches, d.left, t) \in Seq(d.left)
    BY <2>2 DEF Groups
  <2>4. Next1(d, i) \in V
    BY <1>1, <2>3, AssignedIsDelta
  <2> QED BY <2>2, <2>4
<1>4. AnalyzeProduction(targets, batches, t) = fold[D]
  BY DEF AnalyzeProduction, FoldLeft, MapThenFoldSet
<1> HIDE DEF V, base, Next1, N
<1>5. g \in [(1..N) \X V -> V] /\ \A i \in 1..N, d \in V : g[<<i, d>>] = Next1(d, i)
  BY <1>3
<1> HIDE DEF g
<1>6. PICK step \in [SUBSET (1..N) -> V] : Folds(step, base, g, N)
  BY <1>1, <1>2, <1>5, FoldExists
<1>7. ASSUME NEW S \in SUBSET (1..N), S # {} PROVE Max(S) \in 1..N
  <2>1. S \subseteq 0..N
    OBVIOUS
  <2>2. Max(S) \in S
    BY <1>1, <1>7, <2>1, GreatestExists
  <2> QED BY <2>2
<1>8. adds(step)
  <2>1. ASSUME NEW S \in SUBSET (1..N)
        PROVE  step[S] = IF S = {} THEN base ELSE Next1(step[S \ {Max(S)}], Positions(targets)[Max(S)])
    <3>1. S \ {Max(S)} \in SUBSET (1..N)
      OBVIOUS
    <3>2. step[S] = IF S = {} THEN base ELSE g[<<Max(S), step[S \ {Max(S)}]>>]
      BY <1>6 DEF Folds
    <3>3. step[S \ {Max(S)}] \in V
      BY <1>6, <3>1
    <3>4. S # {} => Positions(targets)[Max(S)] = Max(S) /\ Max(S) \in 1..N
      BY <1>1, <1>7
    <3> HIDE DEF Max
    <3>5. S # {} => g[<<Max(S), step[S \ {Max(S)}]>>] = Next1(step[S \ {Max(S)}], Max(S))
      BY <1>5, <3>3, <3>4
    <3> QED BY <3>2, <3>4, <3>5
  <2> QED BY <1>1, <1>6, <2>1
<1> HIDE DEF adds
<1>9. adds(fold)
  BY <1>8
<1> HIDE DEF fold
<1>10. Steps(fold, base, g, N, V)
  <2>1. fold[{}] = base
    BY <1>9 DEF adds
  <2>2. ASSUME NEW S \in (SUBSET (1..N)) \ {{}}, fold[S \ {Max(S)}] \in V
        PROVE  fold[S] = g[<<Max(S), fold[S \ {Max(S)}]>>]
    <3>1. fold[S] = Next1(fold[S \ {Max(S)}], Positions(targets)[Max(S)])
      BY <1>1, <1>9 DEF adds
    <3> QED BY <1>1, <1>5, <1>7, <2>2, <3>1
  <2> QED BY <2>1, <2>2 DEF Steps
<1>11. /\ fold[1..0] = base
       /\ \A n \in 0..N : fold[1..n] \in V
       /\ \A n \in 1..N : fold[1..n] = g[<<n, fold[1..(n - 1)]>>]
  <2>1. N \in Nat /\ base \in V /\ g \in [(1..N) \X V -> V]
    BY <1>1, <1>2, <1>5
  <2>2. InTurn(fold, base, g, N, V)
    BY <1>10, <2>1, FoldsInTurn
  <2> QED BY <2>2 DEF InTurn
<1> DEFINE h == [n \in 0..N |-> fold[1..n]]
           G == {n \in 0..N : Accounted(h[n], n) /\ OwnProducts(h[n])}
<1>12. /\ h[0] = base /\ \A n \in 0..N : h[n] \in V
       /\ \A n \in 0..N : n < N => n + 1 \in 1..N /\ h[n + 1] = Next1(h[n], n + 1)
       /\ h[N] = fold[D]
  <2>1. h[0] = base /\ h[N] = fold[D] /\ \A n \in 0..N : h[n] \in V /\ h[n] = fold[1..n]
    BY <1>1, <1>11
  <2>2. ASSUME NEW n \in 0..N, n < N PROVE n + 1 \in 1..N /\ h[n + 1] = Next1(h[n], n + 1)
    <3>1. n + 1 \in 1..N /\ n + 1 \in 0..N /\ (n + 1) - 1 = n
      BY <1>1, <2>2
    <3>2. h[n + 1] = g[<<n + 1, h[n]>>]
      BY <1>11, <2>1, <3>1
    <3> QED BY <1>5, <2>1, <3>1, <3>2
  <2> QED BY <2>1, <2>2
<1> HIDE DEF h
<1>13. \A n \in 0..N : n \in G
  <2>1. 0 \in G
    BY <1>1, <1>2, <1>12
  <2>2. ASSUME NEW n \in 0..N, n \in G, n < N PROVE n + 1 \in G
    <3>1. /\ n + 1 \in 1..N /\ n + 1 \in 0..N /\ h[n] \in V /\ h[n + 1] = Next1(h[n], n + 1)
          /\ Accounted(h[n], n) /\ OwnProducts(h[n])
      BY <1>1, <1>12, <2>2
    <3> DEFINE d == h[n]
               group == BestBatches(targets[n + 1], batches, d.left, t)
    <3>2. /\ group \in Groups(d.left)
          /\ AreAll(targets[n + 1].product, batches, group)
      BY <1>3, <3>1
    <3>3. h[n + 1] = Assigned(d, n + 1, group)
      BY <3>1 DEF Next1
    <3>4. d \in Deltas(targets, batches) /\ n \in 0..(Len(targets) - 1) /\ n + 1 \in DOMAIN targets
      BY <1>1, <3>1 DEF V, N
    <3> HIDE DEF d, group
    <3>5. Accounted(Assigned(d, n + 1, group), n + 1)
      BY <3>1, <3>2, <3>4, AssignedIsAccounted DEF d
    <3>6. OwnProducts(Assigned(d, n + 1, group))
      BY <3>1, <3>2, <3>4, AssignedKeepsProducts DEF d
    <3> QED BY <3>1, <3>3, <3>5, <3>6
  <2> HIDE DEF G
  <2> QED BY <1>1, <2>1, <2>2, UpTo
<1>14. fold[D] \in V /\ Accounted(fold[D], N) /\ OwnProducts(fold[D])
  BY <1>1, <1>12, <1>13
<1> QED BY <1>4, <1>14 DEF V, N

-----------------------------------------------------------------------------
(* Statistics *)

QuantitiesOf(items) == [k \in DOMAIN items |-> items[k].quantity]
Negated(q) == [x \in DOMAIN q |-> -q[x]]

LEMMA ItemsOf ==
  ASSUME NEW items \in Seq(Quantities)
  PROVE  /\ DOMAIN items = 1..Len(items) /\ Len(items) \in Nat /\ IsFiniteSet(DOMAIN items)
         /\ \A k \in DOMAIN items : items[k] \in Quantities /\ items[k].quantity \in Int
         /\ \A k \in DOMAIN items : QuantitiesOf(items)[k] = items[k].quantity
         /\ \A S \in SUBSET DOMAIN items : IsFiniteSet(S) /\ Measures(QuantitiesOf(items), S)
<1>1. /\ DOMAIN items = 1..Len(items) /\ Len(items) \in Nat
      /\ \A k \in DOMAIN items : items[k] \in Quantities
  OBVIOUS
<1>2. \A p \in Quantities : p.quantity \in Int
  BY DEF Quantities
<1>3. IsFiniteSet(DOMAIN items)
  BY <1>1, FS_Interval
<1>4. \A S \in SUBSET DOMAIN items : IsFiniteSet(S) /\ Measures(QuantitiesOf(items), S)
  BY <1>1, <1>2, <1>3, FS_Subset DEF Measures, QuantitiesOf
<1>5. \A k \in DOMAIN items : QuantitiesOf(items)[k] = items[k].quantity
  BY DEF QuantitiesOf
<1> QED BY <1>1, <1>2, <1>3, <1>4, <1>5

LEMMA SumOfItems ==
  ASSUME NEW items \in Seq(Quantities)
  PROVE  /\ Sum(items) = Total(QuantitiesOf(items), DOMAIN items)
         /\ Sum(items) \in Int
<1> DEFINE S == DOMAIN items
           q == QuantitiesOf(items)
           adds(sum) == sum = [s \in SUBSET S |->
             IF s = {} THEN 0
             ELSE items[CHOOSE x \in s : TRUE].quantity + sum[s \ {CHOOSE x \in s : TRUE}]]
           total == CHOOSE sum : adds(sum)
<1>1. IsFiniteSet(S) /\ Measures(q, S)
  BY ItemsOf
<1>2. Sum(items) = total[S]
  BY DEF Sum, FoldSeq, FoldFunction, FoldFunctionOnSet, MapThenFoldSet
<1>3. \A s \in SUBSET S : s # {} => q[CHOOSE x \in s : TRUE] = items[CHOOSE x \in s : TRUE].quantity
  BY DEF QuantitiesOf
<1> HIDE DEF q, S
<1>4. PICK sum : AddsUp(sum, q, S)
  BY <1>1, TotalAddsUp
<1>5. adds(sum)
  <2>1. \A s \in SUBSET S : IF s = {} THEN TRUE
          ELSE q[CHOOSE x \in s : TRUE] = items[CHOOSE x \in s : TRUE].quantity
    BY <1>3
  <2> QED BY <1>4, <2>1 DEF AddsUp
<1> HIDE DEF adds
<1>6. adds(total)
  BY <1>5
<1> HIDE DEF total
<1>7. AddsUp(total, q, S)
  <2>1. ASSUME NEW s \in SUBSET S
        PROVE  total[s] = IF s = {} THEN 0
                          ELSE items[CHOOSE x \in s : TRUE].quantity + total[s \ {CHOOSE x \in s : TRUE}]
    BY <1>6 DEF adds
  <2>2. ASSUME NEW s \in SUBSET S, s # {} PROVE q[CHOOSE x \in s : TRUE] = items[CHOOSE x \in s : TRUE].quantity
    BY <1>3, <2>2
  <2>3. total = [s \in SUBSET S |-> total[s]]
    BY <1>6 DEF adds
  <2>4. \A s \in SUBSET S :
          total[s] = IF s = {} THEN 0
                     ELSE q[CHOOSE x \in s : TRUE] + total[s \ {CHOOSE x \in s : TRUE}]
    BY <2>1, <2>2
  <2> QED BY <2>3, <2>4 DEF AddsUp
<1>8. total[S] = Total(q, S) /\ Total(q, S) \in Int
  BY <1>1, <1>7, SumIsTotal, TotalIsInt
<1> QED BY <1>2, <1>8 DEF q, S

\* The items at distinct positions.
LEMMA SumOfGroup ==
  ASSUME NEW items \in Seq(Quantities), NEW group \in Seq(DOMAIN items), IsInjective(group)
  PROVE  /\ Sum(At(items, group)) = Total(QuantitiesOf(items), ToSet(group))
         /\ Sum(At(items, group)) \in Int
<1> DEFINE own == At(items, group)
           S == DOMAIN group
<1>1. /\ S = 1..Len(group) /\ Len(group) \in Nat /\ \A k \in S : group[k] \in DOMAIN items
  OBVIOUS
<1>2. /\ own = [k \in 1..Len(group) |-> items[group[k]]] /\ DOMAIN own = S
      /\ \A k \in S : own[k] = items[group[k]]
  BY <1>1 DEF At
<1> HIDE DEF own, S
<1>3. own \in Seq(Quantities)
  <2>1. \A k \in 1..Len(group) : items[group[k]] \in Quantities
    BY <1>1, ItemsOf
  <2> QED BY <1>1, <1>2, <2>1
<1> DEFINE p == QuantitiesOf(own)
           q == QuantitiesOf(items)
<1>4. Sum(own) = Total(p, S) /\ Sum(own) \in Int
  BY <1>2, <1>3, SumOfItems
<1>5. IsFiniteSet(S) /\ Measures(p, S)
  BY <1>2, <1>3, ItemsOf
<1>6. Renamed(group, S) = ToSet(group) /\ Renamed(group, S) \subseteq DOMAIN items
  BY <1>1 DEF Renamed, ToSet, S
<1>7. Measures(q, Renamed(group, S))
  BY <1>6, ItemsOf
<1>8. \A k \in S : p[k] = q[group[k]]
  <2>1. \A k \in S : p[k] = own[k].quantity
    BY <1>2 DEF QuantitiesOf
  <2> QED BY <1>1, <1>2, <2>1 DEF QuantitiesOf
<1>9. \A i, j \in S : group[i] = group[j] => i = j
  BY DEF IsInjective, S
<1> HIDE DEF p, q
<1>10. Total(p, S) = Total(q, Renamed(group, S))
  BY <1>5, <1>7, <1>8, <1>9, TotalOfRenamed
<1> QED BY <1>4, <1>6, <1>10 DEF own, q

LEMMA TotalOfNegated ==
  ASSUME NEW S, IsFiniteSet(S), NEW q, Measures(q, S)
  PROVE  Measures(Negated(q), S) /\ Total(Negated(q), S) = -Total(q, S)
<1>1. Measures(Negated(q), S)
  BY DEF Measures, Negated
<1>2. \A i \in S : Gains(Negated(q))[i] = Losses(q)[i] /\ Losses(Negated(q))[i] = Gains(q)[i]
  BY DEF Gains, Losses, Negated, Measures
<1>3. Units(Gains(Negated(q)), S) = Units(Losses(q), S) /\ Units(Losses(Negated(q)), S) = Units(Gains(q), S)
  BY <1>2 DEF Units
<1>4. IsFiniteSet(Units(Gains(q), S)) /\ IsFiniteSet(Units(Losses(q), S))
  BY GainsAndLosses, UnitsAreFinite
<1>5. Cardinality(Units(Gains(q), S)) \in Nat /\ Cardinality(Units(Losses(q), S)) \in Nat
  BY <1>4, FS_CardinalityType
<1>6. Total(Negated(q), S) = -Total(q, S)
  BY <1>3, <1>5 DEF Total
<1> QED BY <1>1, <1>6

\* What is over less what is under.
LEMMA OverLessUnder ==
  ASSUME NEW S, IsFiniteSet(S), NEW q, Measures(q, S)
  PROVE  Total(q, {x \in S : q[x] > 0}) - Total(Negated(q), {x \in S : q[x] < 0}) = Total(q, S)
<1> DEFINE P == {x \in S : q[x] > 0}
           L == {x \in S : q[x] < 0}
           Z == {x \in S : q[x] = 0}
           R == L \cup Z
<1>1. P \cup R = S /\ P \cap R = {} /\ L \cap Z = {} /\ P \subseteq S /\ L \subseteq S /\ Z \subseteq S
  BY DEF Measures
<1>2. \A x \in Z : q[x] = 0
  OBVIOUS
<1> SUFFICES Total(q, P) - Total(Negated(q), L) = Total(q, S)
  OBVIOUS
<1> HIDE DEF P, L, Z
<1>3. IsFiniteSet(P) /\ IsFiniteSet(L) /\ IsFiniteSet(Z) /\ IsFiniteSet(R)
  BY <1>1, FS_Subset, FS_Union
<1>4. Measures(q, P) /\ Measures(q, L) /\ Measures(q, Z) /\ Measures(q, R)
  BY <1>1 DEF Measures
<1>5. Total(q, Z) = 0
  <2>1. \A x \in Z : Gains(q)[x] = 0 /\ Losses(q)[x] = 0
    BY <1>2, <1>4 DEF Gains, Losses, Measures
  <2>2. Units(Gains(q), Z) = {} /\ Units(Losses(q), Z) = {}
    BY <2>1 DEF Units
  <2> QED BY <2>2, FS_EmptySet DEF Total
<1>6. Total(q, R) = Total(q, L) + Total(q, Z)
  BY <1>1, <1>3, <1>4, TotalOfUnion
<1>7. Total(q, P \cup R) = Total(q, P) + Total(q, R)
  <2>1. Measures(q, P \cup R)
    BY <1>1
  <2> HIDE DEF R
  <2> QED BY <1>1, <1>3, <2>1, TotalOfUnion
<1>8. Total(Negated(q), L) = -Total(q, L)
  BY <1>3, <1>4, TotalOfNegated
<1>9. Total(q, P) \in Int /\ Total(q, L) \in Int
  BY <1>3, <1>4, TotalIsInt
<1>10. Total(q, S) = Total(q, P) + (Total(q, L) + 0)
  BY <1>1, <1>5, <1>6, <1>7
<1> QED BY <1>8, <1>9, <1>10

\* The three sums of the statistics.
LEMMA SumOfLeft ==
  ASSUME NEW d, NEW S, IsFiniteSet(S), NEW q, Measures(q, S),
         \A x \in S : q[x] = d.actual[x].quantity
  PROVE  TotalOf(S, LAMBDA k : d.actual[k].quantity) = Total(q, S)
<1> DEFINE adds(sum) == sum = [s \in SUBSET S |->
             IF s = {} THEN 0
             ELSE d.actual[CHOOSE x \in s : TRUE].quantity + sum[s \ {CHOOSE x \in s : TRUE}]]
           total == CHOOSE sum : adds(sum)
<1>1. TotalOf(S, LAMBDA k : d.actual[k].quantity) = total[S]
  BY DEF TotalOf, FoldSet, MapThenFoldSet
<1>2. \A s \in SUBSET S : IF s = {} THEN TRUE
        ELSE q[CHOOSE x \in s : TRUE] = d.actual[CHOOSE x \in s : TRUE].quantity
  OBVIOUS
<1>3. PICK sum : AddsUp(sum, q, S)
  BY TotalAddsUp
<1>4. adds(sum)
  BY <1>2, <1>3 DEF AddsUp
<1> HIDE DEF adds
<1>5. adds(total)
  BY <1>4
<1> HIDE DEF total
<1>6. AddsUp(total, q, S)
  BY <1>2, <1>5 DEF adds, AddsUp
<1>7. total[S] = Total(q, S)
  BY <1>6, SumIsTotal
<1> QED BY <1>1, <1>7

LEMMA SumOfOver ==
  ASSUME NEW d, NEW S, IsFiniteSet(S), NEW q, Measures(q, S),
         \A x \in S : q[x] = Deviation(d, d.matched[x])
  PROVE  TotalOf(S, LAMBDA m : Deviation(d, d.matched[m])) = Total(q, S)
<1> DEFINE adds(sum) == sum = [s \in SUBSET S |->
             IF s = {} THEN 0
             ELSE Deviation(d, d.matched[CHOOSE x \in s : TRUE]) + sum[s \ {CHOOSE x \in s : TRUE}]]
           total == CHOOSE sum : adds(sum)
<1>1. TotalOf(S, LAMBDA m : Deviation(d, d.matched[m])) = total[S]
  BY DEF TotalOf, FoldSet, MapThenFoldSet
<1>2. \A s \in SUBSET S : IF s = {} THEN TRUE
        ELSE q[CHOOSE x \in s : TRUE] = Deviation(d, d.matched[CHOOSE x \in s : TRUE])
  OBVIOUS
<1>3. PICK sum : AddsUp(sum, q, S)
  BY TotalAddsUp
<1>4. adds(sum)
  BY <1>2, <1>3 DEF AddsUp
<1> HIDE DEF adds
<1>5. adds(total)
  BY <1>4
<1> HIDE DEF total
<1>6. AddsUp(total, q, S)
  BY <1>2, <1>5 DEF adds, AddsUp
<1>7. total[S] = Total(q, S)
  BY <1>6, SumIsTotal
<1> QED BY <1>1, <1>7

LEMMA SumOfUnder ==
  ASSUME NEW d, NEW S, IsFiniteSet(S), NEW q, Measures(q, S),
         \A x \in S : q[x] = -Deviation(d, d.matched[x])
  PROVE  TotalOf(S, LAMBDA m : -Deviation(d, d.matched[m])) = Total(q, S)
<1> DEFINE adds(sum) == sum = [s \in SUBSET S |->
             IF s = {} THEN 0
             ELSE (-Deviation(d, d.matched[CHOOSE x \in s : TRUE])) + sum[s \ {CHOOSE x \in s : TRUE}]]
           total == CHOOSE sum : adds(sum)
<1>1. TotalOf(S, LAMBDA m : -Deviation(d, d.matched[m])) = total[S]
  BY DEF TotalOf, FoldSet, MapThenFoldSet
<1>2. \A s \in SUBSET S : IF s = {} THEN TRUE
        ELSE q[CHOOSE x \in s : TRUE] = -Deviation(d, d.matched[CHOOSE x \in s : TRUE])
  OBVIOUS
<1>3. PICK sum : AddsUp(sum, q, S)
  BY TotalAddsUp
<1>4. adds(sum)
  BY <1>2, <1>3 DEF AddsUp
<1> HIDE DEF adds
<1>5. adds(total)
  BY <1>4
<1> HIDE DEF total
<1>6. AddsUp(total, q, S)
  BY <1>2, <1>5 DEF adds, AddsUp
<1>7. total[S] = Total(q, S)
  BY <1>6, SumIsTotal
<1> QED BY <1>1, <1>7

\* Over-production less under-production is what was produced less what was planned.
LEMMA DifferenceAddsUp ==
  ASSUME NEW planned \in Seq(Quantities), NEW actual \in Seq(Quantities),
         NEW d \in Deltas(planned, actual), Accounted(d, Len(planned))
  PROVE  OverProduced(d) - UnderProduced(d) = Sum(d.actual) - Sum(d.planned)
<1> DEFINE M == DOMAIN d.matched
           P(m) == d.matched[m].planned
           G(m) == d.matched[m].actual
           qa == QuantitiesOf(actual)
           qp == QuantitiesOf(planned)
           dev == [m \in M |-> Deviation(d, d.matched[m])]
           over == {m \in M : dev[m] > 0}
           under == {m \in M : dev[m] < 0}
<1>1. /\ d.planned = planned /\ d.actual = actual /\ d.left \subseteq DOMAIN actual
      /\ IsFiniteSet(M) /\ d.missed \in Seq(DOMAIN planned)
      /\ \A m \in M : P(m) \in DOMAIN planned /\ G(m) \in Seq(DOMAIN actual)
  <2>1. M = 1..Len(d.matched) /\ Len(d.matched) \in Nat
    BY DeltaIs
  <2>2. d.missed \in Seq(DOMAIN planned)
    BY DEF Deltas
  <2>3. IsFiniteSet(M)
    BY <2>1, FS_Interval
  <2>4. d.planned = planned /\ d.actual = actual /\ d.left \subseteq DOMAIN actual
    BY DeltaIs
  <2>5. \A m \in M : P(m) \in DOMAIN planned /\ G(m) \in Seq(DOMAIN actual)
    BY DeltaIs
  <2> QED BY <2>2, <2>3, <2>4, <2>5
<1>2. /\ GroupsAreSound(d, Len(planned)) /\ GroupsAreApart(d) /\ MissedOnce(d, Len(planned))
      /\ PlannedIsCovered(d, Len(planned)) /\ ActualIsCovered(d)
  BY DEF Accounted
<1>3. /\ DOMAIN planned = 1..Len(planned)
      /\ \A S \in SUBSET DOMAIN actual : IsFiniteSet(S) /\ Measures(qa, S)
      /\ \A S \in SUBSET DOMAIN planned : IsFiniteSet(S) /\ Measures(qp, S)
      /\ \A i \in DOMAIN planned : qp[i] = planned[i].quantity /\ qp[i] \in Int
      /\ \A k \in DOMAIN actual : qa[k] = actual[k].quantity
  BY ItemsOf
<1>4. ASSUME NEW m \in M
      PROVE  /\ ToSet(G(m)) \subseteq DOMAIN actual /\ Total(qa, ToSet(G(m))) \in Int
             /\ Deviation(d, d.matched[m]) = Total(qa, ToSet(G(m))) - qp[P(m)]
             /\ Deviation(d, d.matched[m]) \in Int
  <2>1. ToSet(G(m)) \subseteq DOMAIN actual
    BY <1>1 DEF ToSet
  <2>2. G(m) \in Seq(DOMAIN actual) /\ IsInjective(G(m)) /\ P(m) \in DOMAIN planned
    BY <1>1, <1>2 DEF GroupsAreSound
  <2> DEFINE group == G(m)
  <2> HIDE DEF group
  <2>3. Sum(At(actual, group)) = Total(qa, ToSet(group)) /\ Sum(At(actual, group)) \in Int
    BY <2>2, SumOfGroup DEF group
  <2>4. Deviation(d, d.matched[m]) = Sum(At(actual, group)) - planned[P(m)].quantity
    BY <1>1 DEF Deviation, group
  <2> QED BY <1>3, <2>1, <2>2, <2>3, <2>4 DEF group
<1>5. Measures(dev, M) /\ \A m \in M : dev[m] = Deviation(d, d.matched[m])
  BY <1>4 DEF Measures
<1>21. ASSUME NEW S, S \subseteq M
       PROVE  Measures(Negated(dev), S) /\ \A m \in S : Negated(dev)[m] = -Deviation(d, d.matched[m])
  <2> DEFINE q == dev
  <2>1. S \subseteq DOMAIN q /\ \A m \in S : q[m] \in Int /\ q[m] = Deviation(d, d.matched[m])
    BY <1>5, <1>21 DEF Measures
  <2> HIDE DEF q
  <2>2. DOMAIN Negated(q) = DOMAIN q /\ \A m \in S : Negated(q)[m] = -q[m]
    BY <2>1 DEF Negated
  <2>3. Measures(Negated(q), S) /\ \A m \in S : Negated(q)[m] = -Deviation(d, d.matched[m])
    BY <2>1, <2>2 DEF Measures
  <2> QED BY <2>3 DEF q
<1>6. Total(dev, over) - Total(Negated(dev), under) = Total(dev, M)
  <2> HIDE DEF M, dev
  <2> QED BY <1>1, <1>5, OverLessUnder
<1>7. OverProduced(d) = Total(dev, over) + Total(qa, d.left)
  <2>1. IsFiniteSet(over) /\ over \subseteq M
    BY <1>1, FS_Subset
  <2>2. Measures(dev, over)
    BY <1>5, <2>1 DEF Measures
  <2>3. over = { m \in DOMAIN d.matched : Deviation(d, d.matched[m]) > 0 }
    BY <1>5
  <2> HIDE DEF over, dev
  <2>4. TotalOf(over, LAMBDA m : Deviation(d, d.matched[m])) = Total(dev, over)
    BY <1>5, <2>1, <2>2, SumOfOver
  <2>5. IsFiniteSet(d.left) /\ Measures(qa, d.left) /\ \A x \in d.left : qa[x] = d.actual[x].quantity
    BY <1>1, <1>3
  <2> HIDE DEF qa
  <2>6. TotalOf(d.left, LAMBDA k : d.actual[k].quantity) = Total(qa, d.left)
    BY <2>5, SumOfLeft
  <2> QED BY <2>3, <2>4, <2>6 DEF OverProduced
<1>8. UnderProduced(d) = Total(Negated(dev), under) + Total(qp, ToSet(d.missed))
  <2>1. IsFiniteSet(under) /\ under \subseteq M
    BY <1>1, FS_Subset
  <2>2. Measures(Negated(dev), under) /\ \A m \in under : Negated(dev)[m] = -Deviation(d, d.matched[m])
    BY <1>21, <2>1
  <2>3. under = { m \in DOMAIN d.matched : Deviation(d, d.matched[m]) < 0 }
    BY <1>5
  <2> HIDE DEF under, dev
  <2>4. TotalOf(under, LAMBDA m : -Deviation(d, d.matched[m])) = Total(Negated(dev), under)
    BY <2>1, <2>2, SumOfUnder
  <2>5. Sum(At(d.planned, d.missed)) = Total(qp, ToSet(d.missed))
    BY <1>1, <1>2, SumOfGroup DEF MissedOnce
  <2> QED BY <2>3, <2>4, <2>5 DEF UnderProduced
<1> HIDE DEF over, under
<1>9. Sum(d.actual) = Total(qa, DOMAIN actual) /\ Sum(d.planned) = Total(qp, DOMAIN planned)
  BY <1>1, SumOfItems
\* what was produced
<1> DEFINE used == DOMAIN actual \ d.left
           own == [k \in used |-> CHOOSE m \in M : k \in ToSet(G(m))]
           need == [m \in M |-> qp[P(m)]]
<1>10. used \subseteq DOMAIN actual /\ used \cup d.left = DOMAIN actual /\ used \cap d.left = {}
  BY <1>1
<1>11. ASSUME NEW m \in M PROVE PartOf(own, used, {m}) = ToSet(G(m))
  <2>1. \A k \in used : own[k] \in M /\ k \in ToSet(G(own[k]))
    BY <1>1, <1>2 DEF ActualIsCovered
  <2>2. \A k \in ToSet(G(m)) : k \in used
    BY <1>2, <1>4 DEF GroupsAreSound
  <2>3. \A j \in M : j # m => ToSet(G(j)) \cap ToSet(G(m)) = {}
    BY <1>2 DEF GroupsAreApart, Apart
  <2> HIDE DEF own, used
  <2> QED BY <2>1, <2>2, <2>3 DEF PartOf
<1>12. PartOf(own, used, M) = used
  <2>1. \A k \in used : own[k] \in M
    BY <1>1, <1>2 DEF ActualIsCovered
  <2> HIDE DEF own, used
  <2> QED BY <2>1 DEF PartOf
<1>13. Measures(need, M) /\ Measures(Negated(need), M) /\ Total(Negated(need), M) = -Total(need, M)
       /\ \A m \in M : Negated(need)[m] = -qp[P(m)]
  <2>1. Measures(need, M)
    BY <1>1, <1>3 DEF Measures
  <2>2. \A m \in M : Negated(need)[m] = -qp[P(m)]
    BY DEF Negated
  <2> HIDE DEF need
  <2> QED BY <1>1, <2>1, <2>2, TotalOfNegated
<1>14. Total(dev, M) = Total(Negated(need), M) + Total(qa, used)
  <2> DEFINE before == Negated(need)
  <2>1. \A m \in M : dev[m] = before[m] + Total(qa, PartOf(own, used, {m}))
    <3> SUFFICES ASSUME NEW m \in M PROVE dev[m] = before[m] + Total(qa, PartOf(own, used, {m}))
      OBVIOUS
    <3>1. dev[m] = Total(qa, ToSet(G(m))) - qp[P(m)] /\ Total(qa, ToSet(G(m))) \in Int /\ qp[P(m)] \in Int
      BY <1>1, <1>3, <1>4, <1>5
    <3>2. before[m] = -qp[P(m)] /\ PartOf(own, used, {m}) = ToSet(G(m))
      BY <1>11, <1>13
    <3> QED BY <3>1, <3>2
  <2>2. Measures(before, M) /\ IsFiniteSet(used) /\ Measures(qa, used)
    BY <1>3, <1>10, <1>13
  <2> HIDE DEF before, own, used, need, dev, qa, M
  <2>3. Moves(before, dev, M, qa, own, used)
    BY <2>1 DEF Moves
  <2>4. Total(dev, M) = Total(before, M) + Total(qa, PartOf(own, used, M))
    BY <1>1, <1>5, <2>2, <2>3, TotalByGroup
  <2> QED BY <1>12, <2>4 DEF before
<1>15. Total(qa, DOMAIN actual) = Total(qa, used) + Total(qa, d.left)
  <2>1. /\ IsFiniteSet(used) /\ IsFiniteSet(d.left) /\ Measures(qa, used \cup d.left)
    BY <1>1, <1>3, <1>10
  <2> HIDE DEF used, qa
  <2> QED BY <1>10, <2>1, TotalOfUnion
\* what was planned
<1> DEFINE place == [m \in M |-> P(m)]
           served == Renamed(place, M)
<1>16. /\ served \cup ToSet(d.missed) = DOMAIN planned /\ served \cap ToSet(d.missed) = {}
       /\ served \subseteq DOMAIN planned /\ ToSet(d.missed) \subseteq DOMAIN planned
  <2>1. served = {P(m) : m \in M}
    BY DEF Renamed
  <2> HIDE DEF served
  <2>2. served \cap ToSet(d.missed) = {} /\ served \subseteq DOMAIN planned
    BY <1>1, <1>2, <2>1 DEF GroupsAreSound
  <2>3. ToSet(d.missed) \subseteq DOMAIN planned
    BY <1>2, <1>3 DEF MissedOnce
  <2>4. DOMAIN planned \subseteq served \cup ToSet(d.missed)
    BY <1>2, <1>3, <2>1 DEF PlannedIsCovered
  <2> QED BY <2>2, <2>3, <2>4
<1>17. Total(need, M) = Total(qp, served)
  <2>1. \A i, j \in M : place[i] = place[j] => i = j
    BY <1>2 DEF GroupsAreApart, Apart
  <2>2. Measures(qp, served) /\ \A m \in M : need[m] = qp[place[m]]
    BY <1>3, <1>16
  <2> HIDE DEF place, need, qp, M
  <2> QED BY <1>1, <1>13, <2>1, <2>2, TotalOfRenamed
<1>18. Total(qp, DOMAIN planned) = Total(qp, served) + Total(qp, ToSet(d.missed))
  <2> DEFINE missed == ToSet(d.missed)
  <2>1. IsFiniteSet(served) /\ IsFiniteSet(missed) /\ Measures(qp, served \cup missed)
    BY <1>3, <1>16
  <2>2. served \cap missed = {} /\ served \cup missed = DOMAIN planned
    BY <1>16
  <2> HIDE DEF served, missed, qp
  <2>3. Total(qp, served \cup missed) = Total(qp, served) + Total(qp, missed)
    BY <2>1, <2>2, TotalOfUnion
  <2> QED BY <2>2, <2>3 DEF missed
<1>19. /\ Total(qp, served) \in Int /\ Total(qp, ToSet(d.missed)) \in Int
       /\ Total(qa, used) \in Int /\ Total(qa, d.left) \in Int
       /\ Total(dev, over) \in Int /\ Total(Negated(dev), under) \in Int
  <2>1. /\ Total(qp, served) \in Int /\ Total(qp, ToSet(d.missed)) \in Int
        /\ Total(qa, used) \in Int /\ Total(qa, d.left) \in Int
    <3> HIDE DEF served, used, qa, qp
    <3> QED BY <1>1, <1>3, <1>10, <1>16, TotalIsInt
  <2>2. over \subseteq M /\ under \subseteq M
    BY DEF over, under
  <2>3. /\ IsFiniteSet(over) /\ IsFiniteSet(under) /\ Measures(dev, over)
        /\ Measures(Negated(dev), under)
    <3>1. IsFiniteSet(over) /\ IsFiniteSet(under)
      BY <1>1, <2>2, FS_Subset
    <3>2. Measures(dev, over)
      BY <1>5, <2>2 DEF Measures
    <3> QED BY <1>21, <2>2, <3>1, <3>2
  <2> HIDE DEF M, dev, over, under, used, served, qa, qp
  <2>4. Total(dev, over) \in Int /\ Total(Negated(dev), under) \in Int
    BY <2>3, TotalIsInt
  <2> QED BY <2>1, <2>4
<1> HIDE DEF M, dev, qa, qp, used, own, need, served, place
<1>20. Total(dev, M) = Total(qa, used) - Total(qp, served)
  BY <1>13, <1>14, <1>17, <1>19
<1>22. OverProduced(d) - UnderProduced(d)
         = Total(dev, M) + Total(qa, d.left) - Total(qp, ToSet(d.missed))
  BY <1>6, <1>7, <1>8, <1>19
<1>23. Sum(d.actual) = Total(qa, used) + Total(qa, d.left)
       /\ Sum(d.planned) = Total(qp, served) + Total(qp, ToSet(d.missed))
  BY <1>9, <1>15, <1>18
<1> QED BY <1>19, <1>20, <1>22, <1>23

-----------------------------------------------------------------------------
(* The production orchestrator *)

ProductionTypes ==
  /\ plan \in Seq(Quantities) /\ produced \in Seq(Quantities)
  /\ planRules \in ProductionRules

ProductionInv == ProductionTypes /\ StatisticsAddUp

LEMMA IncreaseBufferIsPlan ==
  ASSUME NEW targets \in Seq(Quantities), NEW percent \in Int
  PROVE  IncreaseBuffer(targets, percent) \in Seq(Quantities)
<1>1. /\ DOMAIN targets = 1..Len(targets) /\ Len(targets) \in Nat
      /\ \A i \in DOMAIN targets : targets[i] \in Quantities
  BY ItemsOf
<1>2. ASSUME NEW x \in Quantities
      PROVE  [x EXCEPT !.quantity = @ + (@ * percent) \div 100] \in Quantities
  <2>1. x.quantity \in Int /\ x.product \in STRING
    BY DEF Quantities
  <2>2. x.quantity * percent \in Int
    BY <2>1
  <2>3. x.quantity + (x.quantity * percent) \div 100 \in Int
    BY <2>1, <2>2
  <2> QED BY <2>1, <2>3 DEF Quantities
<1>3. \A i \in 1..Len(targets) :
        [targets[i] EXCEPT !.quantity = @ + (@ * percent) \div 100] \in Quantities
  BY <1>1, <1>2
<1>4. IncreaseBuffer(targets, percent)
        = [i \in 1..Len(targets) |-> [targets[i] EXCEPT !.quantity = @ + (@ * percent) \div 100]]
  BY <1>1 DEF IncreaseBuffer
<1> QED BY <1>1, <1>3, <1>4

\* The targets when the rules of a sequence are applied one after the other.
WithBuffers(ruleSet, targets, order) ==
  FoldLeft(LAMBDA t, r : IncreaseBuffer(t, ruleSet[r].percent), targets, order)

\* The targets after each of them.
BuffersInTurn(c, ruleSet, targets, order) ==
  /\ c \in [0..Len(order) -> Seq(Quantities)]
  /\ c[0] = targets
  /\ \A k \in 1..Len(order) : c[k] = IncreaseBuffer(c[k - 1], ruleSet[order[k]].percent)

LEMMA BuffersAreAdded ==
  ASSUME NEW ruleSet, \A r \in DOMAIN ruleSet : ruleSet[r].percent \in Int,
         NEW targets \in Seq(Quantities), NEW order \in Seq(DOMAIN ruleSet)
  PROVE  \E c : /\ BuffersInTurn(c, ruleSet, targets, order)
                /\ WithBuffers(ruleSet, targets, order) = c[Len(order)]
<1> DEFINE N == Len(order)
           V == Seq(Quantities)
           Next1(t, r) == IncreaseBuffer(t, ruleSet[r].percent)
           g == [a \in (1..N) \X V |-> Next1(a[2], order[a[1]])]
           D == DOMAIN order
           adds(it) == it = [S \in SUBSET D |->
             IF S = {} THEN targets ELSE Next1(it[S \ {Max(S)}], order[Max(S)])]
           fold == CHOOSE it : adds(it)
<1>1. N \in Nat /\ D = 1..N /\ targets \in V
  OBVIOUS
<1>2. ASSUME NEW s \in V, NEW i \in 1..N PROVE Next1(s, order[i]) \in V
  <2>1. order[i] \in DOMAIN ruleSet
    OBVIOUS
  <2> QED BY <2>1, IncreaseBufferIsPlan
<1>3. WithBuffers(ruleSet, targets, order) = fold[D]
  BY DEF WithBuffers, FoldLeft, MapThenFoldSet
<1>4. \A t, r : Next1(t, r) = IncreaseBuffer(t, ruleSet[r].percent)
  OBVIOUS
<1> HIDE DEF V, Next1, N
<1>5. g \in [(1..N) \X V -> V] /\ \A i \in 1..N, s \in V : g[<<i, s>>] = Next1(s, order[i])
  BY <1>2
<1> HIDE DEF g
<1>6. PICK step \in [SUBSET (1..N) -> V] : Folds(step, targets, g, N)
  BY <1>1, <1>5, FoldExists
<1>7. ASSUME NEW S \in SUBSET (1..N), S # {} PROVE Max(S) \in 1..N
  <2>1. S \subseteq 0..N
    OBVIOUS
  <2>2. Max(S) \in S
    BY <1>1, <1>7, <2>1, GreatestExists
  <2> QED BY <2>2
<1>8. adds(step)
  <2>1. ASSUME NEW S \in SUBSET (1..N)
        PROVE  step[S] = IF S = {} THEN targets ELSE Next1(step[S \ {Max(S)}], order[Max(S)])
    <3>1. S \ {Max(S)} \in SUBSET (1..N)
      OBVIOUS
    <3>2. step[S] = IF S = {} THEN targets ELSE g[<<Max(S), step[S \ {Max(S)}]>>]
      BY <1>6 DEF Folds
    <3>3. step[S \ {Max(S)}] \in V
      BY <1>6, <3>1
    <3> QED BY <1>1, <1>5, <1>7, <3>2, <3>3
  <2> QED BY <1>1, <1>6, <2>1
<1> HIDE DEF adds
<1>9. adds(fold)
  BY <1>8
<1> HIDE DEF fold
<1>10. Steps(fold, targets, g, N, V)
  <2>1. fold[{}] = targets
    BY <1>9 DEF adds
  <2>2. ASSUME NEW S \in (SUBSET (1..N)) \ {{}}, fold[S \ {Max(S)}] \in V
        PROVE  fold[S] = g[<<Max(S), fold[S \ {Max(S)}]>>]
    <3>1. fold[S] = Next1(fold[S \ {Max(S)}], order[Max(S)])
      BY <1>1, <1>9 DEF adds
    <3> QED BY <1>1, <1>5, <1>7, <2>2, <3>1
  <2> QED BY <2>1, <2>2 DEF Steps
<1>11. InTurn(fold, targets, g, N, V)
  BY <1>1, <1>5, <1>10, FoldsInTurn
<1> DEFINE c == [k \in 0..N |-> fold[1..k]]
<1>12. /\ c \in [0..N -> V] /\ c[0] = targets
       /\ \A k \in 1..N : c[k] = Next1(c[k - 1], order[k])
  <2>1. c[0] = targets
    BY <1>1, <1>11 DEF InTurn
  <2>2. c \in [0..N -> V]
    BY <1>11 DEF InTurn
  <2>3. ASSUME NEW k \in 1..N PROVE c[k] = Next1(c[k - 1], order[k])
    <3>1. k \in 0..N /\ k - 1 \in 0..N
      BY <1>1
    <3>2. c[k] = fold[1..k] /\ c[k - 1] = fold[1..(k - 1)]
      BY <3>1
    <3>3. fold[1..(k - 1)] \in V /\ fold[1..k] = g[<<k, fold[1..(k - 1)]>>]
      BY <1>11, <3>1 DEF InTurn
    <3> QED BY <1>5, <3>2, <3>3
  <2> QED BY <2>1, <2>2, <2>3
<1>13. c[N] = fold[D]
  BY <1>1
<1> HIDE DEF c
<1>14. BuffersInTurn(c, ruleSet, targets, order)
  BY <1>4, <1>12 DEF BuffersInTurn, V, N
<1> QED BY <1>3, <1>13, <1>14 DEF N

LEMMA SameBuffers ==
  ASSUME NEW ruleSet, NEW targets, NEW order, Len(order) \in Nat,
         NEW b, BuffersInTurn(b, ruleSet, targets, order),
         NEW c, BuffersInTurn(c, ruleSet, targets, order)
  PROVE  b[Len(order)] = c[Len(order)]
<1> SUFFICES ASSUME b[Len(order)] # c[Len(order)] PROVE FALSE
  OBVIOUS
<1> DEFINE N == Len(order)
           differ == {k \in 0..N : b[k] # c[k]}
           first == Min(differ)
<1>1. differ \subseteq 0..N /\ N \in differ
  OBVIOUS
<1> HIDE DEF differ
<1>2. first \in differ /\ \A k \in differ : first <= k
  BY <1>1, LeastExists
<1> HIDE DEF first
<1>3. first \in 0..N /\ b[first] # c[first]
  BY <1>2 DEF differ
<1>4. b[0] = c[0]
  BY DEF BuffersInTurn
<1>5. first \in 1..N /\ first - 1 \in 0..N
  BY <1>3, <1>4
<1>6. b[first - 1] = c[first - 1]
  <2>1. first - 1 \notin differ
    BY <1>2, <1>5
  <2> QED BY <1>5, <2>1 DEF differ
<1> QED BY <1>3, <1>5, <1>6 DEF BuffersInTurn

\* Rules applied in two goes add the same as in one.
LEMMA BuffersInTwoGoes ==
  ASSUME NEW ruleSet, \A r \in DOMAIN ruleSet : ruleSet[r].percent \in Int,
         NEW targets \in Seq(Quantities),
         NEW p \in Seq(DOMAIN ruleSet), NEW q \in Seq(DOMAIN ruleSet)
  PROVE  /\ WithBuffers(ruleSet, targets, p) \in Seq(Quantities)
         /\ WithBuffers(ruleSet, WithBuffers(ruleSet, targets, p), q)
              = WithBuffers(ruleSet, targets, p \o q)
<1> DEFINE mid == WithBuffers(ruleSet, targets, p)
           m == Len(p)
           n == Len(q)
           both == p \o q
<1>1. PICK b : BuffersInTurn(b, ruleSet, targets, p) /\ mid = b[m]
  BY BuffersAreAdded
<1>2. m \in Nat /\ n \in Nat /\ both \in Seq(DOMAIN ruleSet) /\ Len(both) = m + n
  OBVIOUS
<1>3. /\ \A k \in 1..m : both[k] = p[k]
      /\ \A k \in (m + 1)..(m + n) : both[k] = q[k - m]
  OBVIOUS
<1> HIDE DEF both, m, n, mid
<1>4. mid \in Seq(Quantities)
  BY <1>1, <1>2 DEF BuffersInTurn, m
<1>5. PICK c : BuffersInTurn(c, ruleSet, mid, q) /\ WithBuffers(ruleSet, mid, q) = c[n]
  BY <1>4, BuffersAreAdded DEF n
<1>6. PICK d : BuffersInTurn(d, ruleSet, targets, both)
               /\ WithBuffers(ruleSet, targets, both) = d[Len(both)]
  BY <1>2, BuffersAreAdded
<1> DEFINE e == [k \in 0..(m + n) |-> IF k <= m THEN b[k] ELSE c[k - m]]
<1>7. BuffersInTurn(e, ruleSet, targets, both)
  <2>1. /\ b \in [0..m -> Seq(Quantities)] /\ c \in [0..n -> Seq(Quantities)]
        /\ b[0] = targets /\ c[0] = b[m]
        /\ \A k \in 1..m : b[k] = IncreaseBuffer(b[k - 1], ruleSet[p[k]].percent)
        /\ \A k \in 1..n : c[k] = IncreaseBuffer(c[k - 1], ruleSet[q[k]].percent)
    BY <1>1, <1>5 DEF BuffersInTurn, m, n
  <2>2. e \in [0..(m + n) -> Seq(Quantities)] /\ e[0] = targets
    <3>1. ASSUME NEW k \in 0..(m + n), k > m PROVE k - m \in 0..n
      BY <1>2, <3>1
    <3> QED BY <1>2, <2>1, <3>1
  <2>3. ASSUME NEW k \in 1..(m + n)
        PROVE  e[k] = IncreaseBuffer(e[k - 1], ruleSet[both[k]].percent)
    <3>1. CASE k <= m
      <4>1. k \in 1..m /\ k - 1 \in 0..(m + n) /\ k - 1 <= m /\ k \in 0..(m + n)
        BY <1>2, <3>1
      <4>2. e[k] = b[k] /\ e[k - 1] = b[k - 1] /\ both[k] = p[k]
        BY <1>3, <3>1, <4>1
      <4> QED BY <2>1, <4>1, <4>2
    <3>2. CASE k > m
      <4>1. k \in (m + 1)..(m + n) /\ k - m \in 1..n /\ k - 1 \in 0..(m + n) /\ k \in 0..(m + n)
            /\ (k - 1) - m = (k - m) - 1
        BY <1>2, <3>2
      <4>2. e[k] = c[k - m] /\ both[k] = q[k - m]
        BY <1>2, <1>3, <3>2, <4>1
      <4>3. e[k - 1] = c[(k - m) - 1]
        <5>1. CASE k - 1 <= m
          <6>1. k - 1 = m /\ (k - m) - 1 = 0
            BY <1>2, <3>2, <5>1
          <6> QED BY <2>1, <4>1, <5>1, <6>1
        <5>2. CASE ~(k - 1 <= m)
          BY <4>1, <5>2
        <5> QED BY <5>1, <5>2
      <4> HIDE DEF e
      <4>4. c[k - m] = IncreaseBuffer(c[(k - m) - 1], ruleSet[q[k - m]].percent)
        BY <2>1, <4>1
      <4> QED BY <4>2, <4>3, <4>4
    <3> QED BY <1>2, <3>1, <3>2
  <2> HIDE DEF e
  <2> QED BY <1>2, <2>2, <2>3 DEF BuffersInTurn
<1>8. e[m + n] = c[n]
  <2>1. CASE n = 0
    <3>1. c[0] = b[m] /\ m + n = m
      BY <1>1, <1>2, <1>5, <2>1 DEF BuffersInTurn
    <3> QED BY <1>2, <2>1, <3>1
  <2>2. CASE n # 0
    <3>1. m + n \in 0..(m + n) /\ ~(m + n <= m) /\ (m + n) - m = n
      BY <1>2, <2>2
    <3> QED BY <3>1
  <2> QED BY <2>1, <2>2
<1> HIDE DEF e
<1>9. e[Len(both)] = d[Len(both)]
  <2>1. Len(both) \in Nat
    BY <1>2
  <2> QED BY <1>6, <1>7, <2>1, SameBuffers
<1>10. WithBuffers(ruleSet, mid, q) = WithBuffers(ruleSet, targets, both)
  BY <1>2, <1>5, <1>6, <1>8, <1>9
<1> QED BY <1>4, <1>10 DEF mid, both

\* Two lists without a common element, one after the other.
LEMMA ListedTogether ==
  ASSUME NEW S, IsFiniteSet(S), NEW T, IsFiniteSet(T), S \cap T = {},
         NEW p \in SetToSeqs(S), NEW q \in SetToSeqs(T)
  PROVE  /\ p \in Seq(S) /\ q \in Seq(T) /\ p \o q \in SetToSeqs(S \cup T)
<1> DEFINE m == Cardinality(S)
           n == Cardinality(T)
<1>1. m \in Nat /\ n \in Nat
  BY FS_CardinalityType
<1>2. Cardinality(S \cup T) = m + n
  <2>1. Cardinality(S \cup T) = Cardinality(S) + Cardinality(T) - Cardinality(S \cap T)
    BY ONLY IsFiniteSet(S), IsFiniteSet(T), FS_Union
  <2>2. Cardinality(S \cap T) = 0
    BY FS_EmptySet
  <2> HIDE DEF m, n
  <2>3. Cardinality(S \cup T) = m + n - 0
    BY <2>1, <2>2 DEF m, n
  <2> QED BY <1>1, <2>3
<1>3. /\ p \in [1..m -> S] /\ \A i, j \in 1..m : i # j => p[i] # p[j]
      /\ q \in [1..n -> T] /\ \A i, j \in 1..n : i # j => q[i] # q[j]
  BY DEF SetToSeqs
<1> HIDE DEF m, n
<1>4. p \in Seq(S) /\ q \in Seq(T) /\ Len(p) = m /\ Len(q) = n
  BY <1>1, <1>3
<1> DEFINE both == p \o q
<1>5. /\ DOMAIN both = 1..(m + n) /\ both = [k \in 1..(m + n) |-> both[k]]
      /\ \A k \in 1..m : both[k] = p[k]
      /\ \A k \in (m + 1)..(m + n) : both[k] = q[k - m]
  <2> DEFINE A == S \cup T
  <2>1. p \in Seq(A) /\ q \in Seq(A)
    BY <1>1, <1>3
  <2> HIDE DEF A
  <2>2. /\ both \in Seq(A) /\ Len(both) = m + n
        /\ \A k \in 1..m : both[k] = p[k]
        /\ \A k \in (m + 1)..(m + n) : both[k] = q[k - m]
    BY <1>1, <1>4, <2>1
  <2> HIDE DEF both
  <2> QED BY <1>1, <2>2
<1> HIDE DEF both
<1>6. ASSUME NEW k \in 1..(m + n)
      PROVE  \/ k \in 1..m /\ both[k] = p[k] /\ both[k] \in S
             \/ k \notin 1..m /\ k - m \in 1..n /\ both[k] = q[k - m] /\ both[k] \in T
  <2>1. k \in 1..m \/ (k \notin 1..m /\ k \in (m + 1)..(m + n) /\ k - m \in 1..n)
    BY <1>1
  <2> QED BY <1>3, <1>5, <2>1
<1>7. both \in [1..(m + n) -> S \cup T]
  BY <1>5, <1>6
<1>8. ASSUME NEW i \in 1..(m + n), NEW j \in 1..(m + n), i # j PROVE both[i] # both[j]
  <2>1. \/ i \in 1..m /\ both[i] = p[i] /\ both[i] \in S
        \/ i \notin 1..m /\ i - m \in 1..n /\ both[i] = q[i - m] /\ both[i] \in T
    BY <1>6
  <2>2. \/ j \in 1..m /\ both[j] = p[j] /\ both[j] \in S
        \/ j \notin 1..m /\ j - m \in 1..n /\ both[j] = q[j - m] /\ both[j] \in T
    BY <1>6
  <2>3. i - m # j - m
    BY <1>1, <1>8
  <2> QED BY <1>3, <1>8, <2>1, <2>2, <2>3
<1> QED BY <1>2, <1>4, <1>7, <1>8 DEF SetToSeqs, both
LEMMA RulesOfPlan ==
  ASSUME ProductionTypes
  PROVE  /\ IsFiniteSet(DOMAIN planRules) /\ DOMAIN planRules \subseteq Int
         /\ \A r \in DOMAIN planRules : planRules[r].percent \in Int
<1> DEFINE R == [atLeast : Int, percent : Int, once : BOOLEAN]
<1>1. planRules \in Seq(R)
  BY ProductionAssumption DEF ProductionTypes, ProductionAssumption
<1>2. \A r \in R : r.percent \in Int
  OBVIOUS
<1> HIDE DEF R
<1>3. /\ DOMAIN planRules = 1..Len(planRules) /\ Len(planRules) \in Nat
      /\ \A r \in DOMAIN planRules : planRules[r] \in R
  BY <1>1
<1>4. IsFiniteSet(DOMAIN planRules) /\ DOMAIN planRules \subseteq Int
  BY <1>3, FS_Interval
<1> QED BY <1>2, <1>3, <1>4

\* The rules that an analysis applies, none of which was used up.
LEMMA FulfilledAreListed ==
  ASSUME ProductionTypes, NEW d, NEW chosen, chosen = Fulfilled(d)
  PROVE  /\ ToSet(chosen) \subseteq DOMAIN planRules /\ ToSet(chosen) \cap rulesUsed = {}
         /\ IsFiniteSet(ToSet(chosen)) /\ chosen \in SetToSeqs(ToSet(chosen))
         /\ chosen \in Seq(DOMAIN planRules)
<1> DEFINE fit == { r \in DOMAIN planRules :
                      UnderProduced(d) >= planRules[r].atLeast /\ r \notin rulesUsed }
<1>1. fit \subseteq DOMAIN planRules /\ fit \cap rulesUsed = {} /\ chosen = Ascending(fit)
  BY DEF Fulfilled
<1> HIDE DEF fit
<1>2. IsFiniteSet(fit) /\ fit \subseteq Int
  BY <1>1, RulesOfPlan, FS_Subset
<1>3. /\ chosen \in Seq(fit) /\ Len(chosen) = Cardinality(fit)
      /\ IsInjective(chosen) /\ ToSet(chosen) = fit
  BY <1>1, <1>2, AscendingListsAll
<1> DEFINE n == Cardinality(fit)
<1> HIDE DEF n
<1>4. /\ DOMAIN chosen = 1..n /\ chosen \in [1..n -> fit]
  BY <1>3 DEF n
<1>5. \A i, j \in 1..n : i # j => chosen[i] # chosen[j]
  BY <1>3, <1>4 DEF IsInjective
<1>6. chosen \in SetToSeqs(fit)
  BY <1>4, <1>5 DEF SetToSeqs, n
<1>7. chosen \in Seq(DOMAIN planRules)
  BY <1>1, <1>3
<1> QED BY <1>1, <1>2, <1>3, <1>6, <1>7

LEMMA BuffersApply ==
  ASSUME ProductionTypes, NEW d
  PROVE  Buffered(Fulfilled(d)) \in Seq(Quantities)
<1> DEFINE chosen == Fulfilled(d)
<1>1. Buffered(chosen) = WithBuffers(planRules, plan, chosen)
  BY Zenon DEF Buffered, WithBuffers
<1>2. chosen \in Seq(DOMAIN planRules)
  BY FulfilledAreListed
<1> HIDE DEF chosen
<1>3. plan \in Seq(Quantities)
  BY DEF ProductionTypes
<1>4. WithBuffers(planRules, plan, chosen) \in Seq(Quantities)
  BY <1>2, <1>3, RulesOfPlan, BuffersInTwoGoes
<1> QED BY <1>1, <1>4 DEF chosen

LEMMA ProductionInvHolds ==
  /\ MInit => ProductionInv
  /\ ProductionInv /\ [MNext]_mvars => ProductionInv'
<1>1. MInit => ProductionInv
  <2> SUFFICES ASSUME MInit PROVE ProductionInv
    OBVIOUS
  <2>1. ProductionTypes
    <3>1. plan \in Seq(Quantities)
      BY ProductionAssumption DEF MInit, ProductionAssumption
    <3> QED BY <3>1 DEF MInit, ProductionTypes
  <2>2. StatisticsAddUp
    <3> DEFINE d == NoProductionDelta
    <3>1. <<>> \in Seq(Quantities)
      OBVIOUS
    <3>2. NoProductionDelta = NothingMatched(<<>>, <<>>)
      BY DEF NoProductionDelta, NothingMatched
    <3>3. d \in Deltas(<<>>, <<>>) /\ Accounted(d, Len(<<>>)) /\ d.matched = <<>>
      <4>1. Len(<<>>) = 0
        OBVIOUS
      <4> QED BY <3>1, <3>2, <4>1, NothingMatchedIsAccounted DEF NoProductionDelta
    <3> HIDE DEF d
    <3>4. PartitionsItsItems(d) /\ OverProduced(d) - UnderProduced(d) = Sum(d.actual) - Sum(d.planned)
      BY <3>1, <3>3, AccountedIsPartition, DifferenceAddsUp
    <3>5. shortfall = d
      BY DEF MInit, d
    <3> QED BY <3>3, <3>4, <3>5 DEF StatisticsAddUp
  <2> QED BY <2>1, <2>2 DEF ProductionInv
<1>2. ASSUME ProductionInv, NEW b \in Batches, Produce(b) PROVE ProductionInv'
  <2>1. /\ produced' = Append(produced, b) /\ b \in Quantities
        /\ UNCHANGED <<plan, planRules, shortfall>>
    BY <1>2, ProductionAssumption DEF Produce, ProductionAssumption
  <2>2. ProductionTypes'
    BY <1>2, <2>1 DEF ProductionInv, ProductionTypes
  <2>3. StatisticsAddUp'
    BY <1>2, <2>1 DEF ProductionInv, StatisticsAddUp
  <2> QED BY <2>2, <2>3 DEF ProductionInv
<1>3. ASSUME ProductionInv, AnalyzeAndApplyToPlan PROVE ProductionInv'
  <2> DEFINE d == AnalyzeProduction(plan, produced, accuracy)
  <2>1. shortfall' = d /\ UNCHANGED <<planRules, produced>> /\ plan' = Buffered(Fulfilled(d))
    BY <1>3 DEF AnalyzeAndApplyToPlan
  <2>2. ProductionTypes /\ plan \in Seq(Quantities) /\ produced \in Seq(Quantities)
    BY <1>3 DEF ProductionInv, ProductionTypes
  <2>3. d \in Deltas(plan, produced) /\ Accounted(d, Len(plan)) /\ OwnProducts(d)
    BY <2>2, AnalyzeProductionAccounts
  <2> HIDE DEF d
  <2>4. PartitionsItsItems(d)
    BY <2>2, <2>3, AccountedIsPartition
  <2>5. OverProduced(d) - UnderProduced(d) = Sum(d.actual) - Sum(d.planned)
    BY <2>2, <2>3, DifferenceAddsUp
  <2>6. \A m \in DOMAIN d.matched, k \in DOMAIN d.actual :
          Contains(d.matched[m].actual, k) =>
            d.actual[k].product = d.planned[d.matched[m].planned].product
    <3> SUFFICES ASSUME NEW m \in DOMAIN d.matched, NEW k, Contains(d.matched[m].actual, k)
                 PROVE  d.actual[k].product = d.planned[d.matched[m].planned].product
      OBVIOUS
    <3>1. DOMAIN d.matched[m].actual = 1..Len(d.matched[m].actual)
      BY <2>2, <2>3, DeltaIs
    <3>2. k \in ToSet(d.matched[m].actual)
      BY <3>1 DEF Contains, ToSet
    <3> QED BY <2>3, <3>2 DEF OwnProducts
  <2>7. plan' \in Seq(Quantities)
    BY <2>1, <2>2, BuffersApply
  <2>8. ProductionTypes'
    BY <2>1, <2>2, <2>7 DEF ProductionTypes
  <2>9. StatisticsAddUp'
    BY <2>1, <2>4, <2>5, <2>6 DEF StatisticsAddUp
  <2> QED BY <2>8, <2>9 DEF ProductionInv
<1>4. ASSUME ProductionInv, UNCHANGED mvars PROVE ProductionInv'
  BY <1>4 DEF ProductionInv, ProductionTypes, StatisticsAddUp, mvars
<1> QED BY <1>1, <1>2, <1>3, <1>4 DEF MNext

\* Whatever the plans, batches, rules and tolerances: at every analysis over-production
\* less under-production is what was produced less what was planned, and no batch counts
\* for two targets or for a target of another product (DeltaStatistics.calculate).
THEOREM StatisticsAlwaysAddUp == MSpec => []StatisticsAddUp
<1>1. ProductionInv => StatisticsAddUp
  BY DEF ProductionInv
<1> QED BY <1>1, ProductionInvHolds, PTL DEF MSpec

-----------------------------------------------------------------------------
(* Each buffer is added once *)

\* The rules used up, in the order in which they were applied to the targets.
SomeOrder(targets) ==
  \E order \in SetToSeqs(rulesUsed) : plan = WithBuffers(planRules, targets, order)

OnceRulesUsed ==
  /\ rulesUsed \subseteq DOMAIN planRules
  /\ (\A r \in DOMAIN planRules : planRules[r].once) =>
       \E targets \in InitialTargets : SomeOrder(targets)

\* An order in which the used rules were applied goes on with those of an analysis.
LEMMA OrderGoesOn ==
  ASSUME ProductionTypes, OnceRulesUsed, NEW targets \in InitialTargets, SomeOrder(targets),
         NEW chosen, chosen \in SetToSeqs(ToSet(chosen)), IsFiniteSet(ToSet(chosen)),
         ToSet(chosen) \cap rulesUsed = {}, ToSet(chosen) \subseteq DOMAIN planRules
  PROVE  \E order \in SetToSeqs(rulesUsed \cup ToSet(chosen)) :
           WithBuffers(planRules, plan, chosen) = WithBuffers(planRules, targets, order)
<1>1. PICK order \in SetToSeqs(rulesUsed) : plan = WithBuffers(planRules, targets, order)
  BY DEF SomeOrder
<1> DEFINE T == ToSet(chosen)
<1>2. IsFiniteSet(rulesUsed) /\ rulesUsed \subseteq DOMAIN planRules
  BY RulesOfPlan, FS_Subset DEF OnceRulesUsed
<1>3. IsFiniteSet(T) /\ T \cap rulesUsed = {} /\ T \subseteq DOMAIN planRules /\ chosen \in SetToSeqs(T)
  OBVIOUS
<1> HIDE DEF T
<1>4. /\ order \in Seq(rulesUsed) /\ chosen \in Seq(T)
      /\ order \o chosen \in SetToSeqs(rulesUsed \cup T)
  <2>1. rulesUsed \cap T = {}
    BY <1>3
  <2> QED BY <1>1, <1>2, <1>3, <2>1, ListedTogether
<1>5. order \in Seq(DOMAIN planRules) /\ chosen \in Seq(DOMAIN planRules)
  BY <1>2, <1>3, <1>4
<1>6. targets \in Seq(Quantities)
  BY ProductionAssumption DEF ProductionAssumption
<1>7. WithBuffers(planRules, plan, chosen) = WithBuffers(planRules, targets, order \o chosen)
  BY <1>1, <1>5, <1>6, RulesOfPlan, BuffersInTwoGoes
<1> QED BY <1>4, <1>7 DEF T

LEMMA OnceRulesUsedHolds ==
  /\ MInit => OnceRulesUsed
  /\ ProductionTypes /\ OnceRulesUsed /\ [MNext]_mvars => OnceRulesUsed'
<1>1. ASSUME MInit PROVE OnceRulesUsed
  <2>1. plan \in InitialTargets /\ rulesUsed = {} /\ ProductionTypes
    BY <1>1, ProductionInvHolds DEF MInit, ProductionInv
  <2> DEFINE none == <<>>
  <2>2. none \in SetToSeqs({}) /\ none \in Seq(DOMAIN planRules)
    <3>1. Cardinality({}) = 0 /\ 1..0 = {}
      BY FS_EmptySet
    <3> QED BY <3>1 DEF SetToSeqs
  <2>3. Len(none) = 0 /\ plan \in Seq(Quantities)
    BY <2>1 DEF ProductionTypes
  <2> HIDE DEF none
  <2>4. PICK c : BuffersInTurn(c, planRules, plan, none)
                 /\ WithBuffers(planRules, plan, none) = c[Len(none)]
    BY <2>1, <2>2, <2>3, RulesOfPlan, BuffersAreAdded
  <2>5. plan = WithBuffers(planRules, plan, none)
    BY <2>3, <2>4 DEF BuffersInTurn
  <2>6. SomeOrder(plan)
    BY <2>1, <2>2, <2>5 DEF SomeOrder
  <2> QED BY <2>1, <2>6 DEF OnceRulesUsed
<1>2. ASSUME ProductionTypes, OnceRulesUsed, AnalyzeAndApplyToPlan PROVE OnceRulesUsed'
  <2> DEFINE d == AnalyzeProduction(plan, produced, accuracy)
             chosen == Fulfilled(d)
             T == ToSet(chosen)
  <2>1. /\ plan' = WithBuffers(planRules, plan, chosen) /\ planRules' = planRules
        /\ rulesUsed' = rulesUsed \cup { r \in T : planRules[r].once }
    BY <1>2, Zenon DEF AnalyzeAndApplyToPlan, Buffered, WithBuffers
  <2> HIDE DEF d
  <2>2. /\ T \subseteq DOMAIN planRules /\ T \cap rulesUsed = {}
        /\ IsFiniteSet(T) /\ chosen \in SetToSeqs(T)
    BY <1>2, FulfilledAreListed
  <2> HIDE DEF chosen
  <2>3. (rulesUsed \subseteq DOMAIN planRules)'
    BY <1>2, <2>1, <2>2 DEF OnceRulesUsed
  <2>4. ASSUME \A r \in DOMAIN planRules : planRules[r].once
        PROVE  \E targets \in InitialTargets : \E order \in SetToSeqs(rulesUsed') :
                 plan' = WithBuffers(planRules', targets, order)
    <3>1. PICK targets \in InitialTargets : SomeOrder(targets)
      BY <1>2, <2>4 DEF OnceRulesUsed
    <3>2. rulesUsed' = rulesUsed \cup T
      BY <2>1, <2>2, <2>4
    <3>3. \E order \in SetToSeqs(rulesUsed \cup T) :
            WithBuffers(planRules, plan, chosen) = WithBuffers(planRules, targets, order)
      BY <1>2, <2>2, <3>1, OrderGoesOn
    <3> QED BY <2>1, <3>2, <3>3
  <2> QED BY <2>1, <2>3, <2>4 DEF OnceRulesUsed, SomeOrder
<1>3. ASSUME OnceRulesUsed, UNCHANGED <<plan, planRules, rulesUsed>> PROVE OnceRulesUsed'
  BY <1>3 DEF OnceRulesUsed, SomeOrder
<1> QED BY <1>1, <1>2, <1>3 DEF MNext, Produce, mvars

\* Whatever the plans, batches, rules and tolerances: when the rules all apply once, the
\* targets are those the plan began with, with the buffers of the rules used so far added
\* once each, however often and in whatever order the analyses found them fulfilled
\* (ConfigurableProductionPlan.fulfilled with ModificationRule.once).
THEOREM EachBufferOnce == MSpec => []BuffersAddedOnce
<1>1. OnceRulesUsed => BuffersAddedOnce
  BY Zenon DEF OnceRulesUsed, SomeOrder, BuffersAddedOnce, WithBuffers
<1>2. ProductionInv => ProductionTypes
  BY DEF ProductionInv
<1> QED BY <1>1, <1>2, ProductionInvHolds, OnceRulesUsedHolds, PTL DEF MSpec
=============================================================================
