---------------------------- MODULE WaitListProofs ----------------------------
(***************************************************************************)
(* The waiting list keeps everybody, serves in the order of its policy and *)
(* keeps its quotas, for any entries, priorities, quotas and capacity.     *)
(***************************************************************************)
EXTENDS WaitList, FiniteSetTheorems, FunctionTheorems, SequenceTheorems, TLAPS

-----------------------------------------------------------------------------
(* Sorting: whatever total order ranks positions, ranks are a permutation. *)

\* Rank counts, for each of N positions, those before it, and itself, in a total order.
IsRanking(N, before, Rank) ==
  /\ N \in Nat
  /\ before \in [1..N -> SUBSET (1..N)]
  /\ Rank \in [1..N -> Nat]
  /\ \A n \in 1..N : Rank[n] = Cardinality(before[n])
  /\ \A m, n \in 1..N : m \in before[n] <=> (m = n \/ n \notin before[m])
  /\ \A m, n \in 1..N : m \in before[n] => before[m] \subseteq before[n]

LEMMA RankIsPermutation ==
  ASSUME NEW N, NEW before, NEW Rank, IsRanking(N, before, Rank)
  PROVE  /\ Rank \in [1..N -> 1..N]
         /\ \A m, n \in 1..N : m # n /\ m \in before[n] => Rank[m] < Rank[n]
         /\ \A k \in 1..N : \E n \in 1..N : Rank[n] = k
<1> USE DEF IsRanking
<1>1. IsFiniteSet(1..N) /\ Cardinality(1..N) = N
  BY FS_Interval
<1>2. ASSUME NEW n \in 1..N
      PROVE  IsFiniteSet(before[n]) /\ Rank[n] \in 1..N
  <2>1. before[n] \in SUBSET (1..N) /\ n \in before[n]
    OBVIOUS
  <2>2. IsFiniteSet(before[n]) /\ Cardinality(before[n]) <= N
    BY <1>1, <2>1, FS_Subset
  <2>3. Cardinality(before[n]) # 0
    BY <2>1, <2>2, FS_EmptySet
  <2> QED BY <2>2, <2>3
<1>3. ASSUME NEW m \in 1..N, NEW n \in 1..N, m # n, m \in before[n]
      PROVE  Rank[m] < Rank[n]
  <2>1. before[m] \in SUBSET before[n] /\ n \in before[n] /\ n \notin before[m]
    BY <1>3
  <2>2. Cardinality(before[m]) <= Cardinality(before[n]) /\ Cardinality(before[m]) # Cardinality(before[n])
    BY <1>2, <2>1, FS_Subset
  <2> QED BY <2>2
<1>4. Rank \in [1..N -> 1..N]
  BY <1>2
<1>5. \A m, n \in 1..N : Rank[m] = Rank[n] => m = n
  <2> SUFFICES ASSUME NEW m \in 1..N, NEW n \in 1..N, m # n PROVE Rank[m] # Rank[n]
    OBVIOUS
  <2>1. m \in before[n] \/ n \in before[m]
    OBVIOUS
  <2>2. Rank[m] < Rank[n] \/ Rank[n] < Rank[m]
    BY <1>3, <2>1
  <2> QED BY <2>2
<1>6. Rank \in Injection(1..N, 1..N)
  BY <1>4, <1>5, Fun_IsInj
<1>7. Rank \in Surjection(1..N, 1..N)
  BY <1>1, <1>6, FS_Injection
<1> QED BY <1>3, <1>4, <1>7 DEF Surjection

\* The queue's tickets stand in the order of the list.
Precedes(t, u) ==
  IF policy = "PRIORITY"
  THEN Before(arrivals[t], arrivals[u]) \/ (t < u /\ ~Before(arrivals[u], arrivals[t]))
  ELSE t < u

\* compareTo orders entries like a pair of numbers.
LEMMA BeforeIsOrder ==
  ASSUME NEW e \in Entries, NEW f \in Entries, NEW g \in Entries
  PROVE  /\ ~Before(e, e)
         /\ Before(e, f) => ~Before(f, e)
         /\ Before(e, f) /\ Before(f, g) => Before(e, g)
         /\ ~Before(e, f) /\ ~Before(f, g) => ~Before(e, g)
<1>1. \A x \in Entries : Priority[x] \in Nat /\ AddedAt[x] \in Nat
  BY WaitListAssumption
<1> QED BY <1>1 DEF Before

\* A sorted queue has the same members, the more urgent ones first and the equally
\* urgent ones in the order they had.
IsSorted(q, entryOf, sorted) ==
  /\ Len(sorted) = Len(q)
  /\ \A n \in 1..Len(q) : \E k \in 1..Len(q) : sorted[k] = q[n]
  /\ \A k \in 1..Len(q) : \E n \in 1..Len(q) : sorted[k] = q[n]
  /\ \A k, l \in 1..Len(q) : k < l =>
       \E m, n \in 1..Len(q) :
         /\ sorted[k] = q[m]
         /\ sorted[l] = q[n]
         /\ m # n
         /\ \/ Before(entryOf[q[m]], entryOf[q[n]])
            \/ m < n /\ ~Before(entryOf[q[n]], entryOf[q[m]])

LEMMA SortedProperties ==
  ASSUME NEW T, NEW q \in Seq(T), NEW entryOf, \A t \in T : entryOf[t] \in Entries
  PROVE  Sorted(q, entryOf) \in Seq(T) /\ IsSorted(q, entryOf, Sorted(q, entryOf))
<1> DEFINE N == Len(q)
           first(m, n) == \/ Before(entryOf[q[m]], entryOf[q[n]])
                          \/ m <= n /\ ~Before(entryOf[q[n]], entryOf[q[m]])
           count(n) == Cardinality({m \in 1..N : first(m, n)})
           at(k) == CHOOSE n \in 1..N : count(n) = k
           before == [n \in 1..N |-> {m \in 1..N : first(m, n)}]
           Rank == [n \in 1..N |-> Cardinality(before[n])]
<1>1. N \in Nat /\ \A n \in 1..N : q[n] \in T /\ entryOf[q[n]] \in Entries
  BY LenProperties
<1>2. Sorted(q, entryOf) = [k \in 1..N |-> q[at(k)]]
  BY DEF Sorted
<1>3. \A m, n \in 1..N : first(m, n) <=> (m = n \/ ~first(n, m))
  BY <1>1, BeforeIsOrder
<1>4. \A l, m, n \in 1..N : first(l, m) /\ first(m, n) => first(l, n)
  BY <1>1, BeforeIsOrder
<1>5. \A n \in 1..N : count(n) = Rank[n]
  OBVIOUS
<1> HIDE DEF count
<1>6. /\ before \in [1..N -> SUBSET (1..N)]
      /\ \A m, n \in 1..N : m \in before[n] <=> first(m, n)
  OBVIOUS
<1> HIDE DEF first, before
<1>7. \A n \in 1..N : Rank[n] = Cardinality(before[n])
  OBVIOUS
<1>8. Rank \in [1..N -> Nat]
  <2>1. \A n \in 1..N : before[n] \in SUBSET (1..N)
    BY <1>6
  <2>2. IsFiniteSet(1..N)
    BY <1>1, FS_Interval
  <2>3. \A n \in 1..N : Cardinality(before[n]) \in Nat
    BY <2>1, <2>2, FS_Subset, FS_CardinalityType
  <2> QED BY <2>3
<1> HIDE DEF Rank, N
<1>9. \A m, n \in 1..N : m \in before[n] <=> (m = n \/ n \notin before[m])
  BY <1>3, <1>6
<1>10. \A m, n \in 1..N : m \in before[n] => before[m] \subseteq before[n]
  BY <1>4, <1>6
<1>11. /\ Rank \in [1..N -> 1..N]
       /\ \A m, n \in 1..N : m # n /\ m \in before[n] => Rank[m] < Rank[n]
       /\ \A k \in 1..N : \E n \in 1..N : Rank[n] = k
  <2>1. IsRanking(N, before, Rank)
    BY <1>1, <1>6, <1>7, <1>8, <1>9, <1>10 DEF IsRanking
  <2> QED BY <2>1, RankIsPermutation
<1>12. \A k \in 1..N : at(k) \in 1..N /\ Rank[at(k)] = k
  <2>1. \A k \in 1..N : \E n \in 1..N : count(n) = k
    BY <1>5, <1>11
  <2>2. \A k \in 1..N : at(k) \in 1..N /\ count(at(k)) = k
    BY <2>1
  <2> QED BY <1>5, <2>2
<1>13. \A m, n \in 1..N : Rank[m] < Rank[n] => m # n /\ first(m, n)
  <2> SUFFICES ASSUME NEW m \in 1..N, NEW n \in 1..N, Rank[m] < Rank[n]
               PROVE  m # n /\ first(m, n)
    OBVIOUS
  <2>1. Rank[m] \in 1..N /\ Rank[n] \in 1..N
    BY <1>11
  <2>2. m # n
    BY <1>1, <2>1
  <2>3. ~(Rank[n] < Rank[m])
    BY <1>1, <2>1
  <2> QED BY <1>6, <1>9, <1>11, <2>2, <2>3
<1>14. \A n \in 1..N : Rank[n] \in 1..N /\ at(Rank[n]) = n
  <2> SUFFICES ASSUME NEW n \in 1..N PROVE Rank[n] \in 1..N /\ at(Rank[n]) = n
    OBVIOUS
  <2>1. Rank[n] \in 1..N
    BY <1>11
  <2> DEFINE m == at(Rank[n])
  <2>2. m \in 1..N /\ Rank[m] = Rank[n]
    BY <1>12, <2>1
  <2> HIDE DEF m
  <2>3. ~(Rank[m] < Rank[n]) /\ ~(Rank[n] < Rank[m])
    BY <1>1, <2>1, <2>2
  <2>4. m = n
    BY <1>9, <1>11, <2>2, <2>3
  <2> QED BY <2>1, <2>4 DEF m
<1> HIDE DEF at
<1>15. Sorted(q, entryOf) \in Seq(T) /\ Len(Sorted(q, entryOf)) = N
  BY <1>1, <1>2, <1>12
<1>16. \A n \in 1..N : \E k \in 1..N : Sorted(q, entryOf)[k] = q[n]
  BY <1>2, <1>14
<1>17. ASSUME NEW k \in 1..N, NEW l \in 1..N, k < l
       PROVE  \E m, n \in 1..N :
                /\ Sorted(q, entryOf)[k] = q[m]
                /\ Sorted(q, entryOf)[l] = q[n]
                /\ m # n
                /\ \/ Before(entryOf[q[m]], entryOf[q[n]])
                   \/ m < n /\ ~Before(entryOf[q[n]], entryOf[q[m]])
  <2>1. at(k) \in 1..N /\ at(l) \in 1..N /\ Rank[at(k)] < Rank[at(l)]
    BY <1>12, <1>17
  <2>2. at(k) # at(l) /\ first(at(k), at(l))
    BY <1>13, <2>1
  <2>3. at(k) <= at(l) => at(k) < at(l)
    BY <1>1, <2>1, <2>2
  <2>4. \/ Before(entryOf[q[at(k)]], entryOf[q[at(l)]])
        \/ at(k) < at(l) /\ ~Before(entryOf[q[at(l)]], entryOf[q[at(k)]])
    BY <2>2, <2>3 DEF first
  <2>5. Sorted(q, entryOf)[k] = q[at(k)] /\ Sorted(q, entryOf)[l] = q[at(l)]
    BY <1>2
  <2> QED BY <2>1, <2>2, <2>4, <2>5
<1>18. \A k \in 1..N : \E n \in 1..N : Sorted(q, entryOf)[k] = q[n]
  BY <1>2, <1>12
<1> QED BY <1>15, <1>16, <1>17, <1>18 DEF N, IsSorted

\* A queue without its n-th ticket has the others, in their order.
LEMMA WithoutProperties ==
  ASSUME NEW T, NEW q \in Seq(T), NEW n \in 1..Len(q)
  PROVE  /\ Without(q, n) \in Seq(T)
         /\ Len(Without(q, n)) = Len(q) - 1
         /\ \A k \in 1..(Len(q) - 1) : Without(q, n)[k] = IF k < n THEN q[k] ELSE q[k + 1]
<1>1. Len(q) \in Nat /\ \A k \in 1..Len(q) : q[k] \in T
  BY LenProperties
<1>2. /\ SubSeq(q, 1, n - 1) \in Seq(T)
      /\ Len(SubSeq(q, 1, n - 1)) = n - 1
      /\ \A k \in 1..(n - 1) : SubSeq(q, 1, n - 1)[k] = q[k]
  BY <1>1, SubSeqProperties
<1>3. /\ SubSeq(q, n + 1, Len(q)) \in Seq(T)
      /\ Len(SubSeq(q, n + 1, Len(q))) = Len(q) - n
      /\ \A k \in 1..(Len(q) - n) : SubSeq(q, n + 1, Len(q))[k] = q[n + k]
  BY <1>1, SubSeqProperties
<1> DEFINE s1 == SubSeq(q, 1, n - 1)
           s2 == SubSeq(q, n + 1, Len(q))
<1>4. Without(q, n) = s1 \o s2
  BY DEF Without
<1> HIDE DEF s1, s2
<1>5. /\ s1 \o s2 \in Seq(T)
      /\ Len(s1 \o s2) = Len(s1) + Len(s2)
      /\ \A i \in 1 .. Len(s1) + Len(s2) : (s1 \o s2)[i] =
                     IF i <= Len(s1) THEN s1[i] ELSE s2[i - Len(s1)]
  BY <1>2, <1>3, ConcatProperties DEF s1, s2
<1>6. Len(s1) = n - 1 /\ Len(s2) = Len(q) - n
  BY <1>2, <1>3 DEF s1, s2
<1>7. ASSUME NEW k \in 1..(Len(q) - 1)
      PROVE  (s1 \o s2)[k] = IF k < n THEN q[k] ELSE q[k + 1]
  <2>1. CASE k < n
    <3>1. s1[k] = q[k]
      BY <1>1, <1>2, <2>1 DEF s1
    <3> QED BY <1>1, <1>5, <1>6, <2>1, <3>1
  <2>2. CASE ~(k < n)
    <3>1. s2[k - (n - 1)] = q[k + 1]
      BY <1>1, <1>3, <2>2 DEF s2
    <3> QED BY <1>1, <1>5, <1>6, <2>2, <3>1
  <2> QED BY <2>1, <2>2
<1>8. Len(Without(q, n)) = Len(q) - 1
  BY <1>1, <1>4, <1>5, <1>6
<1> QED BY <1>4, <1>5, <1>7, <1>8

-----------------------------------------------------------------------------
(* The inductive invariant *)

WaitTypes ==
  /\ policy \in Policies
  /\ arrivals \in Seq(Entries)
  /\ queue \in Seq(Tickets)
  /\ allocated \in [Segments -> Nat]
  /\ served \in Seq([ticket : Nat, accepts : SUBSET Entries, seen : Nat])
  /\ \A k \in 1..Len(served) : served[k].ticket \in Tickets /\ served[k].seen <= Len(arrivals)
  /\ removed \subseteq Tickets
  /\ resetAt \in [Segments -> Nat]
  /\ \A s \in Segments : resetAt[s] <= Len(served)

QueueInOrder == \A m, n \in 1..Len(queue) : m < n => Precedes(queue[m], queue[n])

\* What was selected of a segment since its last reset.
SelectedSince(s) ==
  {k \in (resetAt[s] + 1)..Len(served) : SegmentOf[arrivals[served[k].ticket]] = s}

\* The count of a segment is what was selected of it, and within its quota.
CountIsKept ==
  policy = "QUOTA" =>
    \A s \in Segments : allocated[s] = Cardinality(SelectedSince(s)) /\ allocated[s] <= Quota[s]

WaitInv ==
  /\ WaitTypes
  /\ QueueInOrder
  /\ Waiting \cap removed = {}
  /\ EachTicketOnce
  /\ NoOvertaking
  /\ CountIsKept

\* Types and sequences in the terms the proofs use them.
LEMMA TypesUnfolded ==
  ASSUME WaitTypes
  PROVE  /\ Len(arrivals) \in Nat /\ Len(queue) \in Nat /\ Len(served) \in Nat
         /\ \A t \in Tickets : arrivals[t] \in Entries
         /\ \A n \in 1..Len(queue) : queue[n] \in Tickets
         /\ \A k \in 1..Len(served) : served[k] \in [ticket : Nat, accepts : SUBSET Entries, seen : Nat]
         /\ Tickets \subseteq Nat
<1>1. /\ Len(arrivals) \in Nat /\ Len(queue) \in Nat /\ Len(served) \in Nat
      /\ arrivals \in [1..Len(arrivals) -> Entries]
      /\ queue \in [1..Len(queue) -> Tickets]
      /\ served \in [1..Len(served) -> [ticket : Nat, accepts : SUBSET Entries, seen : Nat]]
  BY LenProperties DEF WaitTypes
<1> QED BY <1>1, SMTT(60) DEF Tickets

\* Nobody stands in the queue twice.
LEMMA QueueIsDistinct ==
  ASSUME WaitTypes, QueueInOrder, NEW m \in 1..Len(queue), NEW n \in 1..Len(queue), m # n
  PROVE  queue[m] # queue[n]
<1>1. /\ m \in Nat /\ n \in Nat
      /\ queue[m] \in Nat /\ queue[n] \in Nat
      /\ arrivals[queue[m]] \in Entries /\ arrivals[queue[n]] \in Entries
  BY TypesUnfolded
<1>2. Precedes(queue[m], queue[n]) \/ Precedes(queue[n], queue[m])
  BY <1>1 DEF QueueInOrder
<1> QED BY <1>1, <1>2, BeforeIsOrder DEF Precedes

\* Arrivals are only appended to: what a ticket stands for does not change.
LEMMA ArrivalsGrow ==
  ASSUME WaitTypes, NEW e \in Entries, arrivals' = Append(arrivals, e)
  PROVE  /\ arrivals' \in Seq(Entries)
         /\ Len(arrivals') = Len(arrivals) + 1
         /\ arrivals'[Len(arrivals) + 1] = e
         /\ \A t \in Tickets : arrivals'[t] = arrivals[t]
         /\ Tickets' = Tickets \cup {Len(arrivals) + 1}
         /\ Len(arrivals) + 1 \notin Tickets
<1>1. /\ arrivals' \in Seq(Entries)
      /\ Len(arrivals') = Len(arrivals) + 1
      /\ \A t \in 1..Len(arrivals) : arrivals'[t] = arrivals[t]
      /\ arrivals'[Len(arrivals) + 1] = e
  BY AppendProperties DEF WaitTypes
<1> QED BY <1>1, TypesUnfolded DEF Tickets

\* Adding puts the new ticket into the queue, at the place the policy gives it.
LEMMA AddKeepsOrder ==
  ASSUME WaitTypes, QueueInOrder, NEW e \in Entries, Add(e)
  PROVE  /\ queue' \in Seq(Tickets')
         /\ Len(queue') = Len(queue) + 1
         /\ Waiting' = Waiting \cup {Len(arrivals) + 1}
         /\ QueueInOrder'
<1> DEFINE t == Len(arrivals) + 1
           pushed == Append(queue, t)
<1>1. /\ arrivals' \in Seq(Entries)
      /\ Len(arrivals') = t
      /\ \A u \in Tickets : arrivals'[u] = arrivals[u]
      /\ Tickets' = Tickets \cup {t}
      /\ policy' = policy
  BY ArrivalsGrow DEF Add
<1>2. /\ pushed \in Seq(Tickets')
      /\ Len(pushed) = Len(queue) + 1
      /\ \A n \in 1..Len(queue) : pushed[n] = queue[n]
      /\ pushed[Len(queue) + 1] = t
  <2>1. queue \in Seq(Tickets')
    BY <1>1, SeqMonotonic DEF WaitTypes
  <2> QED BY <1>1, <2>1, AppendProperties
<1>3. Tickets' = 1..t /\ t \in Nat
  BY <1>1, TypesUnfolded DEF Tickets
<1>4. \A u \in Tickets' : arrivals'[u] \in Entries
  BY <1>1, <1>3, LenProperties
<1>5. {pushed[n] : n \in 1..Len(pushed)} = Waiting \cup {t}
  BY <1>2, TypesUnfolded DEF Waiting
<1> HIDE DEF pushed
<1>6. \A m, n \in 1..Len(pushed) : m < n => pushed[m] < t /\ pushed[n] <= t
  <2> SUFFICES ASSUME NEW m \in 1..Len(pushed), NEW n \in 1..Len(pushed), m < n
               PROVE  pushed[m] < t /\ pushed[n] <= t
    OBVIOUS
  <2>1. m \in 1..Len(queue) /\ (n \in 1..Len(queue) \/ n = Len(queue) + 1)
    BY <1>2, TypesUnfolded
  <2>2. \A k \in 1..Len(queue) : pushed[k] \in Tickets
    BY <1>2, TypesUnfolded
  <2> QED BY <1>2, <1>3, <2>1, <2>2, TypesUnfolded, SMTT(60) DEF Tickets
<1>7. CASE policy = "PRIORITY"
  <2> DEFINE sorted == Sorted(pushed, arrivals')
  <2>1. queue' = sorted
    BY <1>7 DEF Add, pushed
  <2>2. sorted \in Seq(Tickets') /\ IsSorted(pushed, arrivals', sorted)
    BY <1>2, <1>4, SortedProperties
  <2> HIDE DEF sorted
  <2> DEFINE inOrder(k, l) ==
        \E m, n \in 1..Len(pushed) :
          /\ sorted[k] = pushed[m]
          /\ sorted[l] = pushed[n]
          /\ m # n
          /\ \/ Before(arrivals'[pushed[m]], arrivals'[pushed[n]])
             \/ m < n /\ ~Before(arrivals'[pushed[n]], arrivals'[pushed[m]])
  <2>3. \A k, l \in 1..Len(pushed) : k < l => inOrder(k, l)
    BY <2>2, ZenonT(60) DEF IsSorted
  <2>4. ASSUME NEW k \in 1..Len(pushed), NEW l \in 1..Len(pushed), k < l
        PROVE  Precedes(queue[k], queue[l])'
    <3>1. PICK m \in 1..Len(pushed), n \in 1..Len(pushed) :
            /\ sorted[k] = pushed[m]
            /\ sorted[l] = pushed[n]
            /\ m # n
            /\ \/ Before(arrivals'[pushed[m]], arrivals'[pushed[n]])
               \/ m < n /\ ~Before(arrivals'[pushed[n]], arrivals'[pushed[m]])
      <4>1. inOrder(k, l)
        <5> HIDE DEF inOrder
        <5> QED BY <2>3, <2>4
      <4> QED BY <4>1
    <3>2. CASE Before(arrivals'[pushed[m]], arrivals'[pushed[n]])
      BY <1>1, <1>7, <2>1, <3>1, <3>2 DEF Precedes
    <3>3. CASE m < n /\ ~Before(arrivals'[pushed[n]], arrivals'[pushed[m]])
      <4>1. CASE n = Len(queue) + 1
        <5>1. pushed[m] < pushed[n]
          BY <1>2, <1>6, <3>3, <4>1
        <5> QED BY <1>1, <1>7, <2>1, <3>1, <3>3, <5>1 DEF Precedes
      <4>2. CASE n # Len(queue) + 1
        <5>1. m \in 1..Len(queue) /\ n \in 1..Len(queue)
          BY <1>2, <3>3, <4>2, TypesUnfolded
        <5>2. Precedes(pushed[m], pushed[n]) /\ pushed[m] \in Tickets /\ pushed[n] \in Tickets
          BY <1>2, <3>3, <5>1, TypesUnfolded DEF QueueInOrder
        <5> QED BY <1>1, <1>7, <2>1, <3>1, <3>3, <5>2 DEF Precedes
      <4> QED BY <4>1, <4>2
    <3> QED BY <3>1, <3>2, <3>3
  <2>5. QueueInOrder'
    BY <2>1, <2>2, <2>4 DEF QueueInOrder, IsSorted
  <2>6. Waiting' = {pushed[n] : n \in 1..Len(pushed)}
    <3>1. Waiting' = {sorted[k] : k \in 1..Len(pushed)}
      BY <2>1, <2>2 DEF Waiting, IsSorted
    <3>2. \A k \in 1..Len(pushed) : sorted[k] \in {pushed[n] : n \in 1..Len(pushed)}
      BY <2>2 DEF IsSorted
    <3>3. \A n \in 1..Len(pushed) : pushed[n] \in {sorted[k] : k \in 1..Len(pushed)}
      BY <2>2 DEF IsSorted
    <3> QED BY <3>1, <3>2, <3>3
  <2> QED BY <1>2, <1>5, <2>1, <2>2, <2>5, <2>6 DEF IsSorted
<1>8. CASE policy # "PRIORITY"
  <2>1. queue' = pushed
    BY <1>8 DEF Add, pushed
  <2>2. Waiting' = {pushed[n] : n \in 1..Len(pushed)}
    BY <2>1 DEF Waiting
  <2>3. \A m, n \in 1..Len(pushed) : m < n => pushed[m] < pushed[n]
    <3> SUFFICES ASSUME NEW m \in 1..Len(pushed), NEW n \in 1..Len(pushed), m < n
                 PROVE  pushed[m] < pushed[n]
      OBVIOUS
    <3>1. CASE n = Len(queue) + 1
      BY <1>2, <1>6, <3>1
    <3>2. CASE n # Len(queue) + 1
      <4>1. m \in 1..Len(queue) /\ n \in 1..Len(queue)
        BY <1>2, <3>2, TypesUnfolded
      <4> QED BY <1>2, <1>8, <4>1 DEF QueueInOrder, Precedes
    <3> QED BY <3>1, <3>2
  <2>4. QueueInOrder'
    BY <1>1, <1>8, <2>1, <2>3 DEF QueueInOrder, Precedes
  <2> QED BY <1>2, <1>5, <2>1, <2>2, <2>4
<1> QED BY <1>7, <1>8

\* Taking a ticket out leaves the others in their order.
LEMMA LeavingKeepsOrder ==
  ASSUME WaitTypes, QueueInOrder, NEW n \in 1..Len(queue), queue' = Without(queue, n),
         arrivals' = arrivals, policy' = policy
  PROVE  /\ queue' \in Seq(Tickets')
         /\ Len(queue') = Len(queue) - 1
         /\ Waiting' = Waiting \ {queue[n]}
         /\ QueueInOrder'
<1>1. /\ queue' \in Seq(Tickets)
      /\ Len(queue') = Len(queue) - 1
      /\ \A k \in 1..(Len(queue) - 1) : queue'[k] = IF k < n THEN queue[k] ELSE queue[k + 1]
  BY WithoutProperties DEF WaitTypes
<1>2. Len(queue) \in Nat
  BY TypesUnfolded
<1>3. Waiting' \subseteq Waiting \ {queue[n]}
  <2> SUFFICES ASSUME NEW k \in 1..Len(queue') PROVE queue'[k] \in Waiting \ {queue[n]}
    BY DEF Waiting
  <2> DEFINE j == IF k < n THEN k ELSE k + 1
  <2>1. j \in 1..Len(queue) /\ j # n /\ queue'[k] = queue[j]
    BY <1>1, <1>2
  <2> QED BY <2>1, QueueIsDistinct DEF Waiting
<1>4. Waiting \ {queue[n]} \subseteq Waiting'
  <2> SUFFICES ASSUME NEW j \in 1..Len(queue), j # n PROVE queue[j] \in Waiting'
    BY DEF Waiting
  <2> DEFINE k == IF j < n THEN j ELSE j - 1
  <2>1. k \in 1..Len(queue') /\ queue'[k] = queue[j]
    BY <1>1, <1>2
  <2> QED BY <2>1 DEF Waiting
<1>5. QueueInOrder'
  <2> SUFFICES ASSUME NEW k \in 1..Len(queue'), NEW l \in 1..Len(queue'), k < l
               PROVE  Precedes(queue[k], queue[l])'
    BY DEF QueueInOrder
  <2> DEFINE i == IF k < n THEN k ELSE k + 1
             j == IF l < n THEN l ELSE l + 1
  <2>1. i \in 1..Len(queue) /\ j \in 1..Len(queue) /\ i < j /\ queue'[k] = queue[i] /\ queue'[l] = queue[j]
    BY <1>1, <1>2
  <2>2. Precedes(queue[i], queue[j])
    BY <2>1 DEF QueueInOrder
  <2> QED BY <2>1, <2>2 DEF Precedes
<1> QED BY <1>1, <1>3, <1>4, <1>5 DEF Tickets

-----------------------------------------------------------------------------
(* The invariant is inductive: one lemma for each way a list changes *)

LEMMA AddKeepsInv ==
  ASSUME WaitInv, NEW e \in Entries, Add(e)
  PROVE  WaitInv'
<1> DEFINE t == Len(arrivals) + 1
<1>0. WaitTypes /\ QueueInOrder
  BY DEF WaitInv
<1>1. /\ arrivals' \in Seq(Entries)
      /\ Len(arrivals') = t
      /\ \A u \in Tickets : arrivals'[u] = arrivals[u]
      /\ Tickets' = Tickets \cup {t}
      /\ t \notin Tickets
  BY <1>0, ArrivalsGrow DEF Add
<1>2. /\ queue' \in Seq(Tickets')
      /\ Len(queue') = Len(queue) + 1
      /\ Waiting' = Waiting \cup {t}
      /\ QueueInOrder'
  BY <1>0, AddKeepsOrder
<1>3. UNCHANGED <<policy, allocated, served, removed, resetAt>> /\ Len(queue) < MaxWaiting
  BY DEF Add
<1>4. /\ Len(arrivals) \in Nat /\ Len(queue) \in Nat /\ Len(served) \in Nat
      /\ removed \subseteq Tickets
      /\ Cardinality(removed) \in Nat
  <2>1. IsFiniteSet(Tickets) /\ removed \in SUBSET Tickets
    BY <1>0, TypesUnfolded, FS_Interval DEF Tickets, WaitTypes
  <2> QED BY <1>0, <2>1, TypesUnfolded, FS_Subset, FS_CardinalityType
<1>5. WaitTypes'
  <2>1. Tickets \subseteq Tickets'
    BY <1>1
  <2>2. \A k \in 1..Len(served) : served[k].ticket \in Tickets' /\ served[k].seen <= t
    <3> SUFFICES ASSUME NEW k \in 1..Len(served)
                 PROVE  served[k].ticket \in Tickets' /\ served[k].seen <= t
      OBVIOUS
    <3>1. served[k].ticket \in Tickets /\ served[k].seen <= Len(arrivals) /\ served[k].seen \in Nat
      BY <1>0, TypesUnfolded DEF WaitTypes
    <3> QED BY <1>4, <2>1, <3>1
  <2> HIDE DEF t
  <2> QED BY <1>0, <1>1, <1>2, <1>3, <1>4, <2>1, <2>2 DEF WaitTypes
<1>6. (Waiting \cap removed = {})'
  BY <1>1, <1>2, <1>3, <1>4 DEF WaitInv
<1>7. EachTicketOnce'
  <2>1. Served' = Served
    BY <1>3 DEF Served
  <2>2. Waiting' \cup Served' \cup removed' = Tickets'
    BY <1>1, <1>2, <1>3, <2>1 DEF WaitInv, EachTicketOnce
  <2>3. Len(queue') + Len(served') + Cardinality(removed') = Len(arrivals')
    BY <1>1, <1>2, <1>3, <1>4 DEF WaitInv, EachTicketOnce
  <2>4. Len(queue') <= MaxWaiting
    BY <1>2, <1>3, <1>4, WaitListAssumption
  <2> QED BY <1>2, <2>2, <2>3, <2>4 DEF EachTicketOnce
<1>8. NoOvertaking'
  <2> SUFFICES ASSUME NEW k \in 1..Len(served), NEW u \in Waiting', u <= served[k].seen
               PROVE  MayPass(k, u)'
    BY <1>3 DEF NoOvertaking
  <2>1. served[k].ticket \in Tickets /\ served[k].seen <= Len(arrivals) /\ served[k].seen \in Nat
    BY <1>0, TypesUnfolded DEF WaitTypes
  <2>2. u \in Waiting /\ u \in Tickets
    <3>1. u # t
      BY <1>4, <2>1
    <3> QED BY <1>0, <1>2, <3>1, TypesUnfolded DEF Waiting
  <2>3. MayPass(k, u)
    BY <2>2 DEF WaitInv, NoOvertaking
  <2> QED BY <1>1, <1>3, <2>1, <2>2, <2>3 DEF MayPass
<1>9. CountIsKept'
  <2>1. \A s \in Segments : SelectedSince(s)' = SelectedSince(s)
    <3> SUFFICES ASSUME NEW s \in Segments PROVE SelectedSince(s)' = SelectedSince(s)
      OBVIOUS
    <3>1. \A k \in (resetAt[s] + 1)..Len(served) : arrivals'[served[k].ticket] = arrivals[served[k].ticket]
      <4>1. (resetAt[s] + 1)..Len(served) \subseteq 1..Len(served)
        BY <1>0, <1>4 DEF WaitTypes
      <4> QED BY <1>0, <1>1, <4>1 DEF WaitTypes
    <3> QED BY <1>3, <3>1 DEF SelectedSince
  <2> QED BY <1>3, <2>1 DEF WaitInv, CountIsKept
<1> QED BY <1>2, <1>5, <1>6, <1>7, <1>8, <1>9 DEF WaitInv

LEMMA RemoveKeepsInv ==
  ASSUME WaitInv, NEW e \in Entries, Remove(e)
  PROVE  WaitInv'
<1>0. WaitTypes /\ QueueInOrder
  BY DEF WaitInv
<1>1. PICK n \in 1..Len(queue) :
        /\ queue' = Without(queue, n)
        /\ removed' = removed \cup {queue[n]}
        /\ UNCHANGED <<policy, allocated, arrivals, served, resetAt>>
  BY DEF Remove
<1>2. /\ queue' \in Seq(Tickets')
      /\ Len(queue') = Len(queue) - 1
      /\ Waiting' = Waiting \ {queue[n]}
      /\ QueueInOrder'
  BY <1>0, <1>1, LeavingKeepsOrder
<1>3. /\ Tickets' = Tickets /\ Served' = Served
      /\ queue[n] \in Tickets /\ queue[n] \in Waiting /\ queue[n] \notin removed
      /\ Len(arrivals) \in Nat /\ Len(queue) \in Nat /\ Len(served) \in Nat
  BY <1>0, <1>1, TypesUnfolded DEF Tickets, Served, Waiting, WaitInv
<1>4. WaitTypes'
  BY <1>0, <1>1, <1>2, <1>3 DEF WaitTypes
<1>5. EachTicketOnce'
  <2>1. IsFiniteSet(removed)
    <3>1. IsFiniteSet(Tickets) /\ removed \in SUBSET Tickets
      BY <1>0, <1>3, FS_Interval DEF Tickets, WaitTypes
    <3> QED BY <3>1, FS_Subset
  <2>2. Cardinality(removed') = Cardinality(removed) + 1 /\ Cardinality(removed) \in Nat
    BY <1>1, <1>3, <2>1, FS_AddElement, FS_CardinalityType
  <2>3. Waiting' \cup Served' \cup removed' = Tickets'
    BY <1>1, <1>2, <1>3 DEF WaitInv, EachTicketOnce
  <2>4. Len(queue') + Len(served') + Cardinality(removed') = Len(arrivals')
    BY <1>1, <1>2, <1>3, <2>2 DEF WaitInv, EachTicketOnce
  <2>5. Len(queue') <= MaxWaiting
    BY <1>2, <1>3, WaitListAssumption DEF WaitInv, EachTicketOnce
  <2> QED BY <1>2, <2>3, <2>4, <2>5 DEF EachTicketOnce
<1>6. (Waiting \cap removed = {})'
  BY <1>1, <1>2 DEF WaitInv
<1>7. NoOvertaking'
  <2>1. \A k \in 1..Len(served) : \A t \in Waiting : MayPass(k, t)' <=> MayPass(k, t)
    BY <1>1 DEF MayPass
  <2> QED BY <1>1, <1>2, <2>1 DEF WaitInv, NoOvertaking
<1>8. CountIsKept'
  BY <1>1 DEF WaitInv, CountIsKept, SelectedSince
<1> QED BY <1>2, <1>4, <1>5, <1>6, <1>7, <1>8 DEF WaitInv

LEMMA ResetKeepsInv ==
  ASSUME WaitInv, NEW segments \in SUBSET Segments, Reset(segments)
  PROVE  WaitInv'
<1>0. WaitTypes
  BY DEF WaitInv
<1>1. /\ UNCHANGED <<policy, queue, arrivals, served, removed>>
      /\ allocated' = [s \in Segments |-> IF s \in segments THEN 0 ELSE allocated[s]]
      /\ resetAt' = [s \in Segments |-> IF s \in segments THEN Len(served) ELSE resetAt[s]]
  BY DEF Reset
<1>2. Len(served) \in Nat
  BY <1>0, TypesUnfolded
<1>3. WaitTypes'
  BY <1>0, <1>1, <1>2, SMTT(60) DEF WaitTypes, Tickets
<1>4. QueueInOrder' /\ (Waiting \cap removed = {})' /\ EachTicketOnce'
  BY <1>1 DEF WaitInv, QueueInOrder, Precedes, Waiting, EachTicketOnce, Tickets, Served
<1>5. NoOvertaking'
  <2>1. Waiting' = Waiting /\ \A k, t : MayPass(k, t)' <=> MayPass(k, t)
    BY <1>1 DEF Waiting, MayPass
  <2> QED BY <1>1, <2>1 DEF WaitInv, NoOvertaking
<1>6. CountIsKept'
  <2> SUFFICES ASSUME policy = "QUOTA", NEW s \in Segments
               PROVE  allocated'[s] = Cardinality(SelectedSince(s)') /\ allocated'[s] <= Quota[s]
    BY <1>1 DEF CountIsKept
  <2>1. CASE s \in segments
    <3>1. SelectedSince(s)' = {}
      BY <1>1, <1>2, <2>1 DEF SelectedSince
    <3>2. Quota[s] \in Nat
      BY WaitListAssumption
    <3> QED BY <1>1, <2>1, <3>1, <3>2, FS_EmptySet
  <2>2. CASE s \notin segments
    <3>1. SelectedSince(s)' = SelectedSince(s)
      BY <1>1, <2>2 DEF SelectedSince
    <3> QED BY <1>1, <2>2, <3>1 DEF WaitInv, CountIsKept
  <2> QED BY <2>1, <2>2
<1> QED BY <1>3, <1>4, <1>5, <1>6 DEF WaitInv

LEMMA SelectKeepsInv ==
  ASSUME WaitInv, NEW accepts \in SUBSET Entries, SelectNext(accepts)
  PROVE  WaitInv'
<1>0. WaitTypes /\ QueueInOrder
  BY DEF WaitInv
<1>1. PICK n \in 1..Len(queue) :
        /\ Eligible(n, accepts)
        /\ \A k \in 1..(n - 1) : ~Eligible(k, accepts)
        /\ queue' = Without(queue, n)
        /\ served' = Append(served, Selection(queue[n], accepts))
        /\ allocated' = IF policy = "QUOTA"
             THEN [allocated EXCEPT ![SegmentOf[arrivals[queue[n]]]] = @ + 1] ELSE allocated
        /\ UNCHANGED <<policy, arrivals, removed, resetAt>>
  BY DEF SelectNext
<1> DEFINE chosen == queue[n]
           e == arrivals[chosen]
           K == Len(served) + 1
<1>2. /\ queue' \in Seq(Tickets')
      /\ Len(queue') = Len(queue) - 1
      /\ Waiting' = Waiting \ {chosen}
      /\ QueueInOrder'
  BY <1>0, <1>1, LeavingKeepsOrder
<1>3. /\ Tickets' = Tickets
      /\ chosen \in Tickets /\ chosen \in Waiting /\ chosen \in Nat
      /\ e \in Entries /\ SegmentOf[e] \in Segments
      /\ Len(arrivals) \in Nat /\ Len(queue) \in Nat /\ Len(served) \in Nat
  BY <1>0, <1>1, TypesUnfolded, WaitListAssumption DEF Tickets, Waiting
<1>4. /\ served' \in Seq([ticket : Nat, accepts : SUBSET Entries, seen : Nat])
      /\ Len(served') = K
      /\ \A k \in 1..Len(served) : served'[k] = served[k]
      /\ served'[K] = Selection(chosen, accepts)
  <2>1. Selection(chosen, accepts) \in [ticket : Nat, accepts : SUBSET Entries, seen : Nat]
    BY <1>3 DEF Selection
  <2> QED BY <1>0, <1>1, <2>1, AppendProperties DEF WaitTypes
<1>5. /\ served'[K].ticket = chosen
      /\ served'[K].accepts = accepts
      /\ served'[K].seen = Len(arrivals)
      /\ \A k \in 1..K : k = K \/ k \in 1..Len(served)
  BY <1>3, <1>4 DEF Selection
<1>6. WaitTypes'
  <2>1. allocated' \in [Segments -> Nat]
    <3>1. allocated \in [Segments -> Nat] /\ allocated[SegmentOf[e]] + 1 \in Nat
      BY <1>0, <1>3 DEF WaitTypes
    <3>2. allocated' = IF policy = "QUOTA" THEN [allocated EXCEPT ![SegmentOf[e]] = allocated[SegmentOf[e]] + 1]
                       ELSE allocated
      BY <1>1
    <3> HIDE DEF e
    <3> QED BY <3>1, <3>2
  <2>2. \A k \in 1..K : served'[k].ticket \in Tickets /\ served'[k].seen <= Len(arrivals)
    <3> SUFFICES ASSUME NEW k \in 1..K
                 PROVE  served'[k].ticket \in Tickets /\ served'[k].seen <= Len(arrivals)
      OBVIOUS
    <3>1. CASE k = K
      BY <1>3, <1>5, <3>1
    <3>2. CASE k \in 1..Len(served)
      BY <1>0, <1>4, <3>2 DEF WaitTypes
    <3> QED BY <1>5, <3>1, <3>2
  <2>3. \A s \in Segments : resetAt[s] <= K
    BY <1>0, <1>3 DEF WaitTypes
  <2> QED BY <1>0, <1>1, <1>2, <1>3, <1>4, <2>1, <2>2, <2>3 DEF WaitTypes
<1>7. (Waiting \cap removed = {})'
  BY <1>1, <1>2 DEF WaitInv
<1>8. EachTicketOnce'
  <2>1. Served' = Served \cup {chosen}
    <3>1. Served' = {served'[k].ticket : k \in 1..K}
      BY <1>4 DEF Served
    <3>2. \A k \in 1..K : served'[k].ticket \in Served \cup {chosen}
      BY <1>4, <1>5 DEF Served
    <3>3. \A k \in 1..Len(served) : k \in 1..K /\ served'[k].ticket = served[k].ticket
      <4>1. \A k \in 1..Len(served) : k \in 1..K
        BY <1>3
      <4> HIDE DEF K
      <4> QED BY <1>4, <4>1
    <3>4. K \in 1..K
      BY <1>3
    <3> QED BY <1>5, <3>1, <3>2, <3>3, <3>4, ZenonT(60) DEF Served
  <2>2. Waiting' \cup Served' \cup removed' = Tickets'
    BY <1>1, <1>2, <1>3, <2>1 DEF WaitInv, EachTicketOnce
  <2>3. Cardinality(removed) \in Nat
    <3>1. IsFiniteSet(Tickets) /\ removed \in SUBSET Tickets
      BY <1>0, <1>3, FS_Interval DEF Tickets, WaitTypes
    <3> QED BY <3>1, FS_Subset, FS_CardinalityType
  <2>4. Len(queue') + Len(served') + Cardinality(removed') = Len(arrivals')
    BY <1>1, <1>2, <1>3, <1>4, <2>3 DEF WaitInv, EachTicketOnce
  <2>5. Len(queue') <= MaxWaiting
    BY <1>2, <1>3, WaitListAssumption DEF WaitInv, EachTicketOnce
  <2> QED BY <1>2, <2>2, <2>4, <2>5 DEF EachTicketOnce
<1>9. NoOvertaking'
  <2> SUFFICES ASSUME NEW k \in 1..K, NEW t \in Waiting', t <= served'[k].seen
               PROVE  MayPass(k, t)'
    BY <1>4 DEF NoOvertaking
  <2>1. CASE k \in 1..Len(served)
    <3>1. MayPass(k, t)
      BY <1>2, <1>4, <2>1 DEF WaitInv, NoOvertaking
    <3> QED BY <1>1, <1>4, <2>1, <3>1 DEF MayPass
  <2>2. CASE k = K
    <3>1. PICK j \in 1..Len(queue) : t = queue[j] /\ j # n
      BY <1>2 DEF Waiting
    <3>2. t \in Tickets /\ t \in Nat /\ arrivals[t] \in Entries /\ SegmentOf[arrivals[t]] \in Segments
      BY <1>0, <3>1, TypesUnfolded, WaitListAssumption
    <3>3. CASE n < j
      <4>1. Precedes(chosen, t)
        BY <1>0, <3>1, <3>3 DEF QueueInOrder
      <4> QED BY <1>0, <1>1, <1>3, <1>5, <2>2, <3>2, <4>1 DEF Precedes, MayPass, WaitTypes, Policies
    <3>4. CASE j < n
      <4>1. ~Eligible(j, accepts)
        BY <1>1, <1>3, <3>4
      <4>2. policy \in {"CRITERIA", "QUOTA"}
        BY <1>0, <4>1 DEF Eligible, WaitTypes, Policies
      <4>3. CASE arrivals[t] \notin accepts
        BY <1>1, <1>5, <2>2, <4>2, <4>3 DEF MayPass
      <4>4. CASE arrivals[t] \in accepts
        <5>1. policy = "QUOTA" /\ ~(allocated[SegmentOf[arrivals[t]]] < Quota[SegmentOf[arrivals[t]]])
          BY <3>1, <4>1, <4>2, <4>4 DEF Eligible
        <5>2. allocated[SegmentOf[e]] < Quota[SegmentOf[e]]
          BY <1>1, <5>1 DEF Eligible
        <5> QED BY <1>1, <1>5, <2>2, <5>1, <5>2 DEF MayPass
      <4> QED BY <4>3, <4>4
    <3> QED BY <1>3, <3>1, <3>3, <3>4
  <2> QED BY <1>5, <2>1, <2>2
<1>10. CountIsKept'
  <2> SUFFICES ASSUME policy = "QUOTA", NEW s \in Segments
               PROVE  allocated'[s] = Cardinality(SelectedSince(s)') /\ allocated'[s] <= Quota[s]
    BY <1>1 DEF CountIsKept
  <2>1. resetAt[s] \in Nat /\ resetAt[s] <= Len(served) /\ resetAt'[s] = resetAt[s]
    BY <1>0, <1>1 DEF WaitTypes
  <2>2. SelectedSince(s)' = IF SegmentOf[e] = s THEN SelectedSince(s) \cup {K} ELSE SelectedSince(s)
    <3>1. SelectedSince(s)' = {k \in (resetAt[s] + 1)..K : SegmentOf[arrivals[served'[k].ticket]] = s}
      BY <1>1, <1>4 DEF SelectedSince
    <3>2. (resetAt[s] + 1)..K = ((resetAt[s] + 1)..Len(served)) \cup {K}
      BY <1>3, <2>1
    <3>3. \A k \in (resetAt[s] + 1)..Len(served) : served'[k] = served[k]
      <4>1. (resetAt[s] + 1)..Len(served) \subseteq 1..Len(served)
        BY <1>3, <2>1
      <4> QED BY <1>4, <4>1
    <3> QED BY <1>5, <3>1, <3>2, <3>3 DEF SelectedSince
  <2>3. IsFiniteSet(SelectedSince(s)) /\ K \notin SelectedSince(s)
    <3>1. IsFiniteSet((resetAt[s] + 1)..Len(served))
      BY <1>3, <2>1, FS_Interval
    <3>2. SelectedSince(s) \in SUBSET ((resetAt[s] + 1)..Len(served))
      BY DEF SelectedSince
    <3> QED BY <1>3, <2>1, <3>1, <3>2, FS_Subset
  <2>4. Cardinality(SelectedSince(s) \cup {K}) = Cardinality(SelectedSince(s)) + 1
    BY <2>3, FS_AddElement
  <2>5. allocated[s] = Cardinality(SelectedSince(s)) /\ allocated[s] <= Quota[s]
    BY DEF WaitInv, CountIsKept
  <2>6. allocated'[s] = IF SegmentOf[e] = s THEN allocated[s] + 1 ELSE allocated[s]
    BY <1>0, <1>1, <1>3 DEF WaitTypes
  <2>7. SegmentOf[e] = s => allocated[s] < Quota[s]
    BY <1>1 DEF Eligible
  <2>8. allocated[s] \in Nat /\ Quota[s] \in Nat
    BY <1>0, WaitListAssumption DEF WaitTypes
  <2> QED BY <2>2, <2>4, <2>5, <2>6, <2>7, <2>8
<1> QED BY <1>2, <1>6, <1>7, <1>8, <1>9, <1>10 DEF WaitInv

LEMMA WaitInvariant == WSpec => []WaitInv
<1>1. WInit => WaitInv
  <2> SUFFICES ASSUME WInit PROVE WaitInv
    OBVIOUS
  <2>1. Len(queue) = 0 /\ Len(arrivals) = 0 /\ Len(served) = 0 /\ removed = {}
    BY DEF WInit
  <2>2. Tickets = {} /\ Waiting = {} /\ Served = {}
    BY <2>1 DEF Tickets, Waiting, Served
  <2>3. WaitTypes
    BY <2>1 DEF WInit, WaitTypes
  <2>4. \A s \in Segments : SelectedSince(s) = {} /\ allocated[s] = 0 /\ Quota[s] \in Nat
    BY <2>1, WaitListAssumption DEF WInit, SelectedSince
  <2>5. CountIsKept
    BY <2>4, FS_EmptySet DEF CountIsKept
  <2>6. EachTicketOnce
    BY <2>1, <2>2, <2>3, FS_EmptySet, WaitListAssumption DEF EachTicketOnce, WaitTypes
  <2> QED BY <2>1, <2>2, <2>3, <2>5, <2>6 DEF WaitInv, QueueInOrder, NoOvertaking
<1>2. WaitInv /\ [WNext]_wvars => WaitInv'
  <2> SUFFICES ASSUME WaitInv, [WNext]_wvars PROVE WaitInv'
    OBVIOUS
  <2>1. CASE Poll
    BY <2>1, SelectKeepsInv DEF Poll
  <2>2. ASSUME NEW accepts \in Predicates, SelectNext(accepts) PROVE WaitInv'
    BY <2>2, SelectKeepsInv, WaitListAssumption
  <2>3. ASSUME NEW s \in Segments, Reset({s}) PROVE WaitInv'
    <3>1. {s} \in SUBSET Segments
      OBVIOUS
    <3> QED BY <2>3, <3>1, ResetKeepsInv
  <2>4. CASE Reset(Segments)
    BY <2>4, ResetKeepsInv
  <2>5. CASE UNCHANGED wvars
    <3> USE <2>5 DEF wvars
    <3>1. WaitTypes' /\ (Waiting \cap removed = {})' /\ EachTicketOnce'
      BY DEF WaitInv, WaitTypes, Tickets, Waiting, EachTicketOnce, Served
    <3>2. QueueInOrder'
      BY DEF WaitInv, QueueInOrder, Precedes
    <3>3. NoOvertaking'
      <4>1. Waiting' = Waiting /\ \A k, t : MayPass(k, t)' <=> MayPass(k, t)
        BY DEF Waiting, MayPass
      <4> QED BY <4>1 DEF WaitInv, NoOvertaking
    <3>4. CountIsKept'
      BY DEF WaitInv, CountIsKept, SelectedSince
    <3> QED BY <3>1, <3>2, <3>3, <3>4 DEF WaitInv
  <2> QED BY <2>1, <2>2, <2>3, <2>4, <2>5, AddKeepsInv, RemoveKeepsInv DEF WNext
<1> QED BY <1>1, <1>2, PTL DEF WSpec

-----------------------------------------------------------------------------
(* What a waiting list promises *)

\* Everybody who was let in is waiting, was selected or was removed, and is only one of
\* these, however adding, selecting and removing alternate (EachTicketOnce).
THEOREM NobodyIsLost == WSpec => []EachTicketOnce
<1>1. WaitInv => EachTicketOnce
  BY DEF WaitInv
<1> QED BY <1>1, WaitInvariant, PTL

\* Whoever waits was behind everybody selected since his arrival, in the order of the
\* list's policy, or could not be served then (NoOvertaking).
THEOREM NobodyIsOvertaken == WSpec => []NoOvertaking
<1>1. WaitInv => NoOvertaking
  BY DEF WaitInv
<1> QED BY <1>1, WaitInvariant, PTL

\* Between two resets a segment gets no more places than its quota (QuotaKept).
THEOREM QuotasAreKept == WSpec => []QuotaKept
<1>1. WaitInv => QuotaKept
  BY DEF WaitInv, CountIsKept, QuotaKept, SelectedSince
<1> QED BY <1>1, WaitInvariant, PTL
=============================================================================
