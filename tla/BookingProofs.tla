---------------------------- MODULE BookingProofs -----------------------------
(***************************************************************************)
(* The availability of resources, for any set of owners, any pool and any  *)
(* bound, and what is booked with it.  A composite lock stays whole and a  *)
(* failed one leaves nothing behind, for any number of composites,         *)
(* components, owners and requests; a group of slots is blocked and        *)
(* released as a whole, for any number of slots, durations and stays;      *)
(* reservations keep what they locked and leave nothing locked behind, for *)
(* any number of products, instances, resources and owners.                *)
(***************************************************************************)
EXTENDS CompositeAvailability, GroupedAvailability, Reservations, Sums, SequenceTheorems

-----------------------------------------------------------------------------
(* The steps, with the lookups resolved to the availability they return. *)

\* A request of any kind and slot, in the name of an owner.
Asked(req) == req.owner \in Owners /\ req.quantity \in Nat /\ req.duration \in Nat

\* Every step of Next is one of eight elementary steps.
ElementaryStep ==
  \/ \E a \in Availabilities : \E req : Asked(req) /\ Lock(a, req)
  \/ \E a \in Availabilities : Register(a)
  \/ \E a \in Availabilities, o \in Owners, i \in Issued : Unlock(a, o, i)
  \/ ReleaseExpired
  \/ \E a \in Pools, q \in Quantities : Withdraw(a, q)
  \/ \E a \in Pools, q \in Quantities : Replenish(a, q)
  \/ Tick

\* The facade's lookups only choose the availability on which to lock or unlock.
LEMMA NextIsElementary ==
  ASSUME TypeOK, Next
  PROVE  ElementaryStep
<1>0. \A req \in Request : Asked(req)
  BY AvailabilityAssumption DEF Request, Asked
<1>1. Registered \subseteq Availabilities
  BY DEF TypeOK, Registered
<1>2. ASSUME NEW req \in Request, LockFirst(req) PROVE ElementaryStep
  <2>1. PICK a \in FirstOfResource(req.resourceId) : Lock(a, req)
    BY <1>2 DEF LockFirst
  <2>2. a \in Registered
    BY <2>1 DEF FirstOfResource, FirstSuchThat, Registered
  <2> QED BY <1>0, <1>1, <2>1, <2>2 DEF ElementaryStep
<1>3. ASSUME NEW req \in Request, LockSlot(req) PROVE ElementaryStep
  <2>1. PICK a \in FirstOfSlot(req.resourceId, req.slot) : Lock(a, req)
    BY <1>3 DEF LockSlot
  <2>2. a \in Registered
    BY <2>1 DEF FirstOfSlot, FirstSuchThat, Registered
  <2> QED BY <1>0, <1>1, <2>1, <2>2 DEF ElementaryStep
<1>4. ASSUME NEW o \in Owners, NEW i \in Issued, UnlockFound(o, i)
      PROVE  ElementaryStep
  <2>1. PICK a \in FirstWithBlockade(i) : Unlock(a, o, i)
    BY <1>4 DEF UnlockFound
  <2>2. a \in Registered
    BY <2>1 DEF FirstWithBlockade, FirstSuchThat, Registered
  <2> QED BY <1>1, <2>1, <2>2 DEF ElementaryStep
<1> QED
  BY <1>0, <1>2, <1>3, <1>4
  DEF Next, LockStep, OtherStep, ElementaryStep, UnlockAt

-----------------------------------------------------------------------------
(* Type correctness *)

\* An elementary step keeps the types.
LEMMA TypeStep ==
  ASSUME TypeOK, ElementaryStep
  PROVE  TypeOK'
<1>2. ASSUME NEW a \in Availabilities, NEW req, Asked(req), Lock(a, req)
      PROVE  TypeOK'
  <2> DEFINE i == Len(granted) + 1
             b == BlockadeFor(a, req)
  <2>1. b \in Blockade
    BY <1>2 DEF BlockadeFor, Asked, Blockade, TypeOK
  <2>2. granted' = Append(granted, b)
    BY <1>2 DEF Lock
  <2>3. /\ granted' \in Seq(Blockade)
        /\ Len(granted') = i
        /\ granted'[i] = b
        /\ \A j \in Issued : granted'[j] = granted[j]
        /\ Issued' = Issued \cup {i}
        /\ i \in Nat
    BY <2>1, <2>2 DEF TypeOK, Issued
  <2>4. blockades' = [blockades EXCEPT ![a] = BlockadesAfterLock(a, i)]
    BY <1>2 DEF Lock
  <2>5. BlockadesAfterLock(a, i) \subseteq blockades[a] \cup {i}
    BY DEF BlockadesAfterLock
  <2>6. blockades' \in [Availabilities -> SUBSET Issued']
    BY <2>3, <2>4, <2>5 DEF TypeOK
  <2>7. ASSUME NEW c \in Availabilities, NEW j \in blockades'[c]
        PROVE  granted'[j].availability = c
    <3>1. CASE c # a
      BY <3>1, <2>3, <2>4 DEF TypeOK
    <3>2. CASE c = a
      <4>1. j \in blockades[a] \cup {i}
        BY <3>2, <2>4, <2>5 DEF TypeOK
      <4>2. b.availability = a
        BY DEF BlockadeFor
      <4> HIDE DEF b
      <4> QED BY <4>1, <4>2, <3>2, <2>3 DEF TypeOK
    <3> QED BY <3>1, <3>2
  <2> HIDE DEF b, i
  <2> QED BY <1>2, <2>3, <2>6, <2>7 DEF Lock, TypeOK, i
<1>3. ASSUME NEW a \in Availabilities, Register(a) PROVE TypeOK'
  BY <1>3 DEF Register, TypeOK, Issued
<1>4. ASSUME NEW a \in Availabilities, NEW o \in Owners, NEW i \in Issued,
             Unlock(a, o, i)
      PROVE  TypeOK'
  BY <1>4 DEF Unlock, TypeOK, Issued
<1>5. CASE ReleaseExpired
  BY <1>5 DEF ReleaseExpired, ActiveBlockades, TypeOK, Issued
<1>6. ASSUME NEW a \in Pools, NEW q \in Quantities,
             Withdraw(a, q) \/ Replenish(a, q)
      PROVE  TypeOK'
  <2>1. a \in Availabilities /\ q \in Nat
    BY AvailabilityAssumption DEF Pools
  <2>2. withdrawn' \in [Availabilities -> Nat]
    <3>1. CASE Withdraw(a, q)
      BY <2>1, <3>1 DEF Withdraw, TypeOK
    <3>2. CASE Replenish(a, q)
      <4>1. withdrawn[a] - q \in Nat
        BY <2>1, <3>2 DEF Replenish, TypeOK
      <4> QED BY <4>1, <3>2 DEF Replenish, TypeOK
    <3> QED BY <1>6, <3>1, <3>2
  <2>3. UNCHANGED <<repository, blockades, now, granted, held>>
    BY <1>6 DEF Withdraw, Replenish
  <2> QED BY <2>2, <2>3 DEF TypeOK, Issued
<1>7. CASE Tick
  BY <1>7 DEF Tick, TypeOK, Issued
<1> QED
  BY <1>2, <1>3, <1>4, <1>5, <1>6, <1>7 DEF ElementaryStep

\* Types hold in every reachable state, and an availability only ever keeps
\* blockades that it granted itself (TypeOK).
THEOREM TypeCorrect == Spec => []TypeOK
<1>1. Init => TypeOK
  BY AvailabilityAssumption DEF Init, TypeOK, Issued
<1>2. TypeOK /\ [Next]_vars => TypeOK'
  <2>1. UNCHANGED vars /\ TypeOK => TypeOK'
    BY DEF TypeOK, Issued, vars
  <2> QED BY <2>1, NextIsElementary, TypeStep
<1> QED BY <1>1, <1>2, PTL DEF Spec

-----------------------------------------------------------------------------
(* Held blockades *)

\* How one step affects the blockades granted before it: they are not rewritten,
\* and none becomes active again.
LEMMA GrantedIsStable ==
  ASSUME TypeOK, ElementaryStep
  PROVE  /\ Issued \subseteq Issued'
         /\ \A i \in Issued :
              /\ granted'[i] = granted[i]
              /\ BlockadeActive(granted[i], now') => BlockadeActive(granted[i], now)
<1>1. \A i \in Issued : i \in Issued' /\ granted'[i] = granted[i]
  <2>1. CASE granted' = granted
    BY <2>1 DEF Issued
  <2>2. CASE \E a \in Availabilities : \E req : Lock(a, req)
    <3>1. PICK b : granted' = Append(granted, b)
      BY <2>2 DEF Lock
    <3> QED BY <3>1 DEF TypeOK, Issued
  <2>3. ASSUME NEW a, NEW q, Withdraw(a, q) \/ Replenish(a, q) \/ Register(a)
        PROVE  granted' = granted
    BY <2>3 DEF Withdraw, Replenish, Register
  <2>4. ASSUME NEW a, NEW o, NEW i, Unlock(a, o, i) PROVE granted' = granted
    BY <2>4 DEF Unlock
  <2>5. ReleaseExpired \/ Tick => granted' = granted
    BY DEF ReleaseExpired, Tick
  <2> QED
    BY <2>1, <2>2, <2>3, <2>4, <2>5 DEF ElementaryStep
<1>2. now' \in Nat /\ now <= now'
  <2>1. now' = now \/ Tick
    <3>1. ASSUME NEW a, NEW req, Lock(a, req) PROVE now' = now
      BY <3>1 DEF Lock
    <3>2. ASSUME NEW a, NEW o, NEW i, Unlock(a, o, i) PROVE now' = now
      BY <3>2 DEF Unlock
    <3>3. ASSUME NEW a, NEW q, Withdraw(a, q) \/ Replenish(a, q) \/ Register(a)
          PROVE  now' = now
      BY <3>3 DEF Withdraw, Replenish, Register
    <3>4. ReleaseExpired => now' = now
      BY DEF ReleaseExpired
    <3> QED BY <3>1, <3>2, <3>3, <3>4 DEF ElementaryStep
  <2> QED BY <2>1 DEF Tick, TypeOK
<1>3. ASSUME NEW i \in Issued, BlockadeActive(granted[i], now')
      PROVE  BlockadeActive(granted[i], now)
  <2>1. granted[i].blockedAt \in Nat /\ granted[i].duration \in Nat
    <3>1. granted[i] \in Blockade
      BY DEF TypeOK, Issued
    <3> QED BY <3>1 DEF Blockade
  <2> QED BY <1>2, <1>3, <2>1 DEF BlockadeActive, TypeOK
<1> QED BY <1>1, <1>3

\* An elementary step keeps what is held blocked.
LEMMA HeldStep ==
  ASSUME TypeOK, HeldIsBlocked, ElementaryStep
  PROVE  HeldIsBlocked'
<1> SUFFICES ASSUME NEW i \in held', Active(i)'
             PROVE  \/ i \in blockades'[granted'[i].availability]
                    \/ Superseded(i)'
  BY DEF HeldIsBlocked
<1>2. ASSUME i \in held
      PROVE  /\ granted'[i] = granted[i]
             /\ Active(i)
             /\ Superseded(i) => Superseded(i)'
  <2>1. i \in Issued
    BY <1>2 DEF TypeOK
  <2>2. \A j \in Issued : j \in Issued' /\ granted'[j] = granted[j]
    BY GrantedIsStable
  <2>3. Superseded(i) => Superseded(i)'
    BY <2>1, <2>2 DEF Superseded, Exclusive
  <2>4. Active(i)
    BY <2>1, <2>2, GrantedIsStable DEF Active
  <2> QED BY <2>1, <2>2, <2>3, <2>4
<1>3. ASSUME i \in held, ~Superseded(i)
      PROVE  i \in blockades[granted[i].availability]
  BY <1>2, <1>3 DEF HeldIsBlocked
<1>4. ASSUME i \in held
      PROVE  granted[i] \in Blockade /\ granted[i].availability \in Availabilities
  <2>1. granted[i] \in Blockade
    BY <1>4 DEF TypeOK, Issued
  <2> QED BY <2>1 DEF Blockade
<1>5. ASSUME NEW a \in Availabilities, NEW req, Asked(req), Lock(a, req)
      PROVE  i \in blockades'[granted'[i].availability] \/ Superseded(i)'
  <2> DEFINE n == Len(granted) + 1
  <2>1. /\ blockades' = [blockades EXCEPT ![a] = BlockadesAfterLock(a, n)]
        /\ held' = held \cup {n}
        /\ n \in Issued' /\ n \notin Issued
        /\ granted'[n].availability = a
        /\ granted'[n].owner = req.owner
    BY <1>5 DEF Lock, BlockadeFor, TypeOK, Issued
  <2>2. CASE i = n
    BY <2>1, <2>2 DEF BlockadesAfterLock, TypeOK
  <2>3. CASE i \in held /\ ~Superseded(i) /\ granted[i].availability = a
    <3>1. CASE a \in Pools
      BY <3>1, <2>1, <2>3, <1>2, <1>3 DEF BlockadesAfterLock, TypeOK
    <3>2. CASE a \notin Pools
      <4>1. OwnedBy(i, req.owner)
        BY <3>2, <2>3, <1>2, <1>3, <1>5
        DEF Lock, Accepts, IsAvailableFor, Active, Expired, BlockadeExpired
      <4>2. a \in Exclusive
        BY <3>2, AvailabilityAssumption DEF Exclusive, Pools, Kinds
      <4>3. n > i /\ i \in Nat
        BY <2>3 DEF TypeOK, Issued
      <4> QED
        BY <4>1, <4>2, <4>3, <2>1, <2>3, <1>2
        DEF Superseded, OwnedBy, BlockadeOwnedBy
    <3> QED BY <3>1, <3>2
  <2>4. CASE i \in held /\ ~Superseded(i) /\ granted[i].availability # a
    BY <2>1, <2>4, <1>2, <1>3, <1>4 DEF TypeOK
  <2>5. CASE i \in held /\ Superseded(i)
    BY <2>5, <1>2
  <2> QED BY <2>1, <2>2, <2>3, <2>4, <2>5
<1>6. ASSUME NEW a \in Availabilities, NEW o \in Owners, NEW j \in Issued,
             Unlock(a, o, j)
      PROVE  i \in blockades'[granted'[i].availability] \/ Superseded(i)'
  BY <1>6, <1>2, <1>3, <1>4 DEF Unlock, TypeOK
<1>7. CASE ReleaseExpired
  BY <1>7, <1>2, <1>3, <1>4 DEF ReleaseExpired, ActiveBlockades
<1>8. CASE UNCHANGED <<blockades, held>>
  BY <1>8, <1>2, <1>3
<1> QED
  BY <1>5, <1>6, <1>7, <1>8
  DEF ElementaryStep, Register, Withdraw, Replenish, Tick

\* An owner keeps what a lock gave it until it unlocks it, its time is over, or
\* its own next lock replaces it (HeldIsBlocked).
THEOREM HeldStaysBlocked == Spec => []HeldIsBlocked
<1>1. Init => HeldIsBlocked
  BY DEF Init, HeldIsBlocked
<1>2. TypeOK /\ HeldIsBlocked /\ [Next]_vars => HeldIsBlocked'
  <2>1. UNCHANGED vars /\ HeldIsBlocked => HeldIsBlocked'
    BY DEF HeldIsBlocked, Superseded, Issued, Active, vars
  <2> QED BY <2>1, NextIsElementary, HeldStep
<1> QED BY <1>1, <1>2, TypeCorrect, PTL DEF Spec

-----------------------------------------------------------------------------
(* Several blockades granted in one step *)

\* What is granted together gets the next ids, in order.
LEMMA GrantedTogether ==
  ASSUME granted \in Seq(Blockade), NEW bs \in Seq(Blockade), granted' = granted \o bs
  PROVE  /\ granted' \in Seq(Blockade)
         /\ Len(granted) \in Nat /\ Len(bs) \in Nat
         /\ Len(granted') = Len(granted) + Len(bs)
         /\ \A i \in Issued : i \in Nat /\ i \in Issued' /\ granted'[i] = granted[i]
         /\ \A n \in 1..Len(bs) :
              /\ Len(granted) + n \in Issued' /\ Len(granted) + n \notin Issued
              /\ granted'[Len(granted) + n] = bs[n]
  BY DEF Issued

-----------------------------------------------------------------------------
(* One blockade per exclusive availability *)

\* An elementary step leaves one blockade at most on an exclusive availability.
LEMMA SingleStep ==
  ASSUME TypeOK, ExclusiveIsSingle, ElementaryStep
  PROVE  ExclusiveIsSingle'
<1>0. \A a \in Exclusive : a \in Availabilities /\ a \notin Pools
  BY DEF Exclusive, Pools
<1>1. ASSUME \A a \in Exclusive : blockades'[a] \subseteq blockades[a]
      PROVE  ExclusiveIsSingle'
  BY <1>1 DEF ExclusiveIsSingle, Exclusive
<1>2. ASSUME NEW a \in Availabilities, NEW req, Asked(req), Lock(a, req)
      PROVE  ExclusiveIsSingle'
  <2> DEFINE n == Len(granted) + 1
  <2>1. blockades' = [blockades EXCEPT ![a] = BlockadesAfterLock(a, n)]
    BY <1>2 DEF Lock
  <2> HIDE DEF n
  <2>2. \A c \in Exclusive :
          \/ c # a /\ blockades'[c] = blockades[c]
          \/ blockades'[c] = {n}
    BY <2>1, <1>0 DEF BlockadesAfterLock, TypeOK
  <2> QED BY <2>2 DEF ExclusiveIsSingle, Exclusive
<1>3. ASSUME NEW a \in Availabilities, NEW o, NEW i, Unlock(a, o, i)
      PROVE  \A c \in Exclusive : blockades'[c] \subseteq blockades[c]
  BY <1>0, <1>3 DEF Unlock, TypeOK
<1>4. CASE ReleaseExpired
  <2>1. \A c \in Exclusive : blockades'[c] \subseteq blockades[c]
    BY <1>0, <1>4 DEF ReleaseExpired, ActiveBlockades
  <2> QED BY <2>1, <1>1
<1>5. CASE blockades' = blockades
  BY <1>1, <1>5
<1>6. ASSUME NEW a, NEW q, Withdraw(a, q) \/ Replenish(a, q) \/ Register(a)
      PROVE  blockades' = blockades
  BY <1>6 DEF Withdraw, Replenish, Register
<1>7. Tick => blockades' = blockades
  BY DEF Tick
<1> QED BY <1>1, <1>2, <1>3, <1>4, <1>5, <1>6, <1>7 DEF ElementaryStep

\* The individual and temporal kinds never accumulate blockades, although
\* blockades live in one table with those of the pools (ExclusiveIsSingle).
THEOREM ExclusiveStaysSingle == Spec => []ExclusiveIsSingle
<1>1. Init => ExclusiveIsSingle
  BY DEF Init, ExclusiveIsSingle, Exclusive
<1>2. TypeOK /\ ExclusiveIsSingle /\ [Next]_vars => ExclusiveIsSingle'
  <2>1. UNCHANGED vars /\ ExclusiveIsSingle => ExclusiveIsSingle'
    BY DEF ExclusiveIsSingle, Exclusive, vars
  <2> QED BY <2>1, NextIsElementary, SingleStep
<1> QED BY <1>1, <1>2, TypeCorrect, PTL DEF Spec

-----------------------------------------------------------------------------
(* Refinement of the abstract lease *)

\* The holder of an availability depends on its active blockades only.
LEMMA HolderOfActive ==
  ASSUME TypeOK, ExclusiveIsSingle, NEW a \in Exclusive
  PROVE  /\ \A i \in ActiveBlockades(a) : HolderOf(a) = granted[i].owner
         /\ ActiveBlockades(a) = {} => HolderOf(a) = NoOwner
  BY DEF HolderOf, ActiveBlockades, ExclusiveIsSingle

\* A step that only takes active blockades away vacates availabilities.
LEMMA ShrinkVacates ==
  ASSUME TypeOK, ExclusiveIsSingle, TypeOK', ExclusiveIsSingle',
         \A a \in Exclusive : \A i \in ActiveBlockades(a)' :
            i \in ActiveBlockades(a) /\ granted'[i] = granted[i]
  PROVE  L!LeaseNext
<1> DEFINE gone == {a \in Exclusive : ActiveBlockades(a)' = {}}
<1>1. ASSUME NEW a \in Exclusive
      PROVE  HolderOf(a)' = IF a \in gone THEN NoOwner ELSE HolderOf(a)
  <2>1. CASE a \in gone
    BY <2>1 DEF HolderOf
  <2>2. CASE a \notin gone
    <3>1. PICK i : i \in ActiveBlockades(a)'
      BY <2>2
    <3>2. i \in ActiveBlockades(a) /\ granted'[i] = granted[i]
      BY <3>1
    <3>3. \A j \in ActiveBlockades(a)' : j = i
      BY <3>1 DEF ExclusiveIsSingle, ActiveBlockades, Exclusive
    <3>4. HolderOf(a)' = granted'[i].owner
      BY <3>1, <3>3 DEF HolderOf
    <3>5. HolderOf(a) = granted[i].owner
      BY <3>2, HolderOfActive
    <3> QED BY <3>2, <3>4, <3>5, <2>2
  <2> QED BY <2>1, <2>2
<1>2. L!Vacate(gone)
  BY <1>1 DEF L!Vacate, holders, Exclusive
<1> QED BY <1>2 DEF L!LeaseNext

\* Individual and temporal availabilities implement the exclusive lease: a resource
\* never passes directly from one owner to another (LeaseRefined).
THEOREM AvailabilityImplementsLease == Spec => LeaseRefined
<1> USE DEF LeaseRefined
<1>1. Init => L!LeaseInit
  BY DEF Init, L!LeaseInit, holders, HolderOf, ActiveBlockades, Exclusive
<1>2. TypeOK /\ TypeOK' /\ ExclusiveIsSingle /\ ExclusiveIsSingle' /\ [Next]_vars
        => [L!LeaseNext]_holders
  <2> SUFFICES ASSUME TypeOK, TypeOK', ExclusiveIsSingle, ExclusiveIsSingle',
                      [Next]_vars
               PROVE  [L!LeaseNext]_holders
    OBVIOUS
  <2>1. CASE UNCHANGED vars
    BY <2>1 DEF vars, holders, HolderOf, ActiveBlockades, Active, Exclusive
  <2>2. ASSUME NEW a \in Availabilities, NEW req, Asked(req), Lock(a, req)
        PROVE  [L!LeaseNext]_holders
    <3> DEFINE n == Len(granted) + 1
    <3>1. /\ blockades' = [blockades EXCEPT ![a] = BlockadesAfterLock(a, n)]
          /\ now' = now
          /\ n \in Issued'
          /\ granted'[n].owner = req.owner
          /\ \A i \in Issued : granted'[i] = granted[i]
          /\ req.owner \in Owners
      BY <2>2 DEF Lock, BlockadeFor, TypeOK, Issued, Asked
    <3> HIDE DEF n
    <3>2. ASSUME NEW c \in Exclusive, c # a
          PROVE  HolderOf(c)' = HolderOf(c)
      <4>1. blockades'[c] = blockades[c] /\ blockades[c] \subseteq Issued
        BY <3>1, <3>2 DEF Exclusive, TypeOK
      <4>2. ActiveBlockades(c)' = ActiveBlockades(c)
        BY <3>1, <4>1 DEF ActiveBlockades, Active
      <4>3. \A i \in ActiveBlockades(c) : granted'[i] = granted[i]
        BY <3>1, <4>1 DEF ActiveBlockades
      <4>4. \A i \in ActiveBlockades(c)' : HolderOf(c)' = granted'[i].owner
        BY <4>1 DEF HolderOf, ActiveBlockades, ExclusiveIsSingle
      <4> QED BY <4>2, <4>3, <4>4, HolderOfActive DEF HolderOf
    <3>3. CASE a \notin Exclusive
      BY <3>2, <3>3 DEF holders, Exclusive
    <3>4. CASE a \in Exclusive
      <4>1. HolderOf(a) \in {NoOwner, req.owner}
        <5>1. ASSUME NEW i \in ActiveBlockades(a) PROVE granted[i].owner = req.owner
          <6>1. a \notin Pools
            BY <3>4 DEF Exclusive, Pools
          <6> QED
            BY <2>2, <5>1, <6>1
            DEF Lock, Accepts, IsAvailableFor, ActiveBlockades, Active, Expired,
                BlockadeExpired, OwnedBy, BlockadeOwnedBy
        <5> QED BY <3>4, <5>1, HolderOfActive
      <4>2. HolderOf(a)' \in {NoOwner, req.owner}
        <5>1. blockades'[a] = {n}
          BY <3>1, <3>4 DEF BlockadesAfterLock, Exclusive, Pools, TypeOK
        <5> QED BY <3>1, <5>1 DEF HolderOf, ActiveBlockades
      <4>3. CASE HolderOf(a)' = req.owner
        <5>1. L!Take(a, req.owner)
          BY <3>2, <3>4, <4>1, <4>3 DEF L!Take, holders, Exclusive
        <5> QED BY <3>1, <3>4, <5>1 DEF L!LeaseNext
      <4>4. CASE HolderOf(a)' = NoOwner
        <5>1. L!Vacate({a})
          BY <3>2, <3>4, <4>4 DEF L!Vacate, holders, Exclusive
        <5> QED BY <3>4, <5>1 DEF L!LeaseNext
      <4> QED BY <4>2, <4>3, <4>4
    <3> QED BY <3>3, <3>4
  <2>3. ASSUME granted' = granted, now' \in Nat, now <= now',
               \A a \in Exclusive : blockades'[a] \subseteq blockades[a]
        PROVE  [L!LeaseNext]_holders
    <3>1. ASSUME NEW a \in Exclusive, NEW i \in ActiveBlockades(a)'
          PROVE  i \in ActiveBlockades(a) /\ granted'[i] = granted[i]
      <4>1. i \in blockades[a] /\ BlockadeActive(granted[i], now')
        BY <2>3, <3>1 DEF ActiveBlockades, Active
      <4>2. granted[i].blockedAt \in Nat /\ granted[i].duration \in Nat
        <5>1. granted[i] \in Blockade
          BY <4>1 DEF TypeOK, Issued, Exclusive
        <5> QED BY <5>1 DEF Blockade
      <4>3. BlockadeActive(granted[i], now)
        BY <2>3, <4>1, <4>2 DEF BlockadeActive, TypeOK
      <4> QED BY <2>3, <4>1, <4>3 DEF ActiveBlockades, Active
    <3> QED BY <3>1, ShrinkVacates
  <2>4. CASE Next
    <3>1. ElementaryStep
      BY <2>4, NextIsElementary
    <3>2. now \in Nat /\ now <= now
      BY DEF TypeOK
    <3>3. \A a \in Exclusive : a \in Availabilities /\ blockades[a] \subseteq blockades[a]
      BY DEF Exclusive
    <3>4. ASSUME NEW a \in Availabilities, NEW o, NEW i, Unlock(a, o, i)
          PROVE  [L!LeaseNext]_holders
      <4>1. \A c \in Exclusive : blockades'[c] \subseteq blockades[c]
        BY <3>3, <3>4 DEF Unlock, TypeOK
      <4>2. granted' = granted /\ now' = now
        BY <3>4 DEF Unlock
      <4> QED BY <2>3, <3>2, <4>1, <4>2
    <3>5. CASE ReleaseExpired
      <4>1. \A c \in Exclusive : blockades'[c] \subseteq blockades[c]
        BY <3>3, <3>5 DEF ReleaseExpired, ActiveBlockades
      <4>2. granted' = granted /\ now' = now
        BY <3>5 DEF ReleaseExpired
      <4> QED BY <2>3, <3>2, <4>1, <4>2
    <3>6. CASE Tick
      <4>1. granted' = granted /\ blockades' = blockades /\ now' \in Nat /\ now <= now'
        BY <3>2, <3>6 DEF Tick
      <4> QED BY <2>3, <3>3, <4>1
    <3>7. ASSUME NEW a, NEW q, Withdraw(a, q) \/ Replenish(a, q) \/ Register(a)
          PROVE  [L!LeaseNext]_holders
      <4>1. granted' = granted /\ blockades' = blockades /\ now' = now
        BY <3>7 DEF Withdraw, Replenish, Register
      <4> QED BY <2>3, <3>2, <3>3, <4>1
    <3> QED
      BY <2>2, <3>1, <3>4, <3>5, <3>6, <3>7 DEF ElementaryStep
  <2> QED BY <2>1, <2>4
<1> QED
  BY <1>1, <1>2, TypeCorrect, ExclusiveStaysSingle, PTL DEF Spec, L!LeaseSpec

-----------------------------------------------------------------------------
(* Pools.  The quantity of several blockades is the number of units they hold. *)

QuantitiesOf(s) == [i \in s |-> granted[i].quantity]

LEMMA BlockedQuantityCounts ==
  ASSUME TypeOK, NEW a \in Availabilities
  PROVE  BlockedQuantity(a) = Cardinality(Units(QuantitiesOf(ActiveBlockades(a)), ActiveBlockades(a)))
<1> DEFINE S == ActiveBlockades(a)
           q == QuantitiesOf(S)
<1>1. IsFiniteSet(S) /\ S \subseteq Issued
  <2>1. S \in SUBSET Issued
    BY DEF ActiveBlockades, TypeOK
  <2>2. IsFiniteSet(Issued)
    BY FS_Interval DEF TypeOK, Issued
  <2> QED BY <2>1, <2>2, FS_Subset
<1>2. \A i \in S : q[i] \in Nat /\ q[i] = granted[i].quantity
  <2>1. \A i \in Issued : granted[i] \in Blockade
    BY DEF TypeOK, Issued
  <2>2. \A i \in Issued : granted[i].quantity \in Nat
    BY <2>1 DEF Blockade
  <2> HIDE DEF S
  <2> QED BY <1>1, <2>2 DEF QuantitiesOf
<1> DEFINE adds(sum) == sum = [s \in SUBSET S |->
             IF s = {} THEN 0
             ELSE granted[CHOOSE x \in s : TRUE].quantity + sum[s \ {CHOOSE x \in s : TRUE}]]
           total == CHOOSE sum : adds(sum)
<1>3. BlockedQuantity(a) = total[S]
  BY DEF BlockedQuantity, MapThenSumSet, MapThenFoldSet
<1> HIDE DEF S, q
<1>4. PICK sum : AddsUp(sum, q, S)
  BY <1>1, <1>2, SumExists
<1>5. \A s \in SUBSET S : s # {} => q[CHOOSE x \in s : TRUE] = granted[CHOOSE x \in s : TRUE].quantity
  BY <1>2
<1>6. adds(sum)
  BY <1>4, <1>5 DEF AddsUp
<1> HIDE DEF adds
<1>7. adds(total)
  BY <1>6
<1> HIDE DEF total
<1>8. AddsUp(total, q, S)
  <2>1. ASSUME NEW s \in SUBSET S
        PROVE  total[s] = IF s = {} THEN 0 ELSE granted[CHOOSE x \in s : TRUE].quantity
                                                + total[s \ {CHOOSE x \in s : TRUE}]
    BY <1>7 DEF adds
  <2>2. total = [s \in SUBSET S |-> total[s]]
    BY <1>7 DEF adds
  <2>3. \A s \in SUBSET S :
          total[s] = IF s = {} THEN 0
                     ELSE q[CHOOSE x \in s : TRUE] + total[s \ {CHOOSE x \in s : TRUE}]
    BY <1>5, <2>1
  <2> QED BY <2>2, <2>3 DEF AddsUp
<1>9. \A s \in SUBSET S : total[s] = Cardinality(Units(q, s))
  BY <1>1, <1>2, <1>8, SumCountsUnits
<1> QED BY <1>3, <1>9 DEF S, q

LEMMA QuantitiesAreCounted ==
  TypeOK => \A a \in Availabilities :
    /\ IsFiniteSet(ActiveBlockades(a))
    /\ \A i \in ActiveBlockades(a) : i \in Issued /\ granted[i].quantity \in Nat
    /\ IsFiniteSet(Units(QuantitiesOf(ActiveBlockades(a)), ActiveBlockades(a)))
    /\ BlockedQuantity(a) = Cardinality(Units(QuantitiesOf(ActiveBlockades(a)), ActiveBlockades(a)))
<1> SUFFICES ASSUME TypeOK, NEW a \in Availabilities
             PROVE  /\ IsFiniteSet(ActiveBlockades(a))
                    /\ \A i \in ActiveBlockades(a) : i \in Issued /\ granted[i].quantity \in Nat
                    /\ IsFiniteSet(Units(QuantitiesOf(ActiveBlockades(a)), ActiveBlockades(a)))
  BY BlockedQuantityCounts
<1> DEFINE S == ActiveBlockades(a)
<1>1. IsFiniteSet(S) /\ S \subseteq Issued
  <2>1. S \in SUBSET Issued
    BY DEF ActiveBlockades, TypeOK
  <2>2. IsFiniteSet(Issued)
    BY FS_Interval DEF TypeOK, Issued
  <2> QED BY <2>1, <2>2, FS_Subset
<1>2. \A i \in Issued : granted[i].quantity \in Nat
  <2>1. \A i \in Issued : granted[i] \in Blockade
    BY DEF TypeOK, Issued
  <2> QED BY <2>1 DEF Blockade
<1> HIDE DEF S
<1>3. \A i \in S : QuantitiesOf(S)[i] \in Nat
  BY <1>1, <1>2 DEF QuantitiesOf
<1>4. IsFiniteSet(Units(QuantitiesOf(S), S))
  BY <1>1, <1>3, UnitsAreFinite
<1> QED BY <1>1, <1>2, <1>4 DEF S

LEMMA QuantitiesAreCountedNext ==
  TypeOK' => \A a \in Availabilities :
    /\ IsFiniteSet(ActiveBlockades(a)')
    /\ IsFiniteSet(Units(QuantitiesOf(ActiveBlockades(a))', ActiveBlockades(a)'))
    /\ BlockedQuantity(a)' = Cardinality(Units(QuantitiesOf(ActiveBlockades(a))', ActiveBlockades(a)'))
<1> DEFINE Counted == \A a \in Availabilities :
      /\ IsFiniteSet(ActiveBlockades(a))
      /\ IsFiniteSet(Units(QuantitiesOf(ActiveBlockades(a)), ActiveBlockades(a)))
      /\ BlockedQuantity(a) = Cardinality(Units(QuantitiesOf(ActiveBlockades(a)), ActiveBlockades(a)))
<1>1. TypeOK => Counted
  BY QuantitiesAreCounted
<1>2. TypeOK' => Counted'
  BY <1>1, PTL
<1>3. Counted' => \A a \in Availabilities :
    /\ IsFiniteSet(ActiveBlockades(a)')
    /\ IsFiniteSet(Units(QuantitiesOf(ActiveBlockades(a))', ActiveBlockades(a)'))
    /\ BlockedQuantity(a)' = Cardinality(Units(QuantitiesOf(ActiveBlockades(a))', ActiveBlockades(a)'))
  OBVIOUS
<1> QED BY <1>2, <1>3

\* A pool whose active blockades become fewer, or stay, promises no more.
LEMMA BlockedQuantityShrinks ==
  ASSUME TypeOK, TypeOK', NEW a \in Availabilities,
         \A i \in ActiveBlockades(a)' : i \in ActiveBlockades(a) /\ granted'[i] = granted[i]
  PROVE  BlockedQuantity(a)' <= BlockedQuantity(a)
<1>1. Units(QuantitiesOf(ActiveBlockades(a))', ActiveBlockades(a)')
        \subseteq Units(QuantitiesOf(ActiveBlockades(a)), ActiveBlockades(a))
  BY DEF Units, QuantitiesOf
<1>2. IsFiniteSet(Units(QuantitiesOf(ActiveBlockades(a)), ActiveBlockades(a)))
  BY QuantitiesAreCounted
<1>3. Cardinality(Units(QuantitiesOf(ActiveBlockades(a))', ActiveBlockades(a)'))
        <= Cardinality(Units(QuantitiesOf(ActiveBlockades(a)), ActiveBlockades(a)))
  BY <1>1, <1>2, FS_Subset
<1> QED BY <1>3, QuantitiesAreCounted, QuantitiesAreCountedNext

\* What is promised out of a pool never exceeds its capacity (PoolNotOversold).
THEOREM PoolsAreNotOversold == Spec => []PoolNotOversold
<1>1. Init => PoolNotOversold
  <2> SUFFICES ASSUME Init, NEW a \in Pools PROVE BlockedQuantity(a) <= Capacity[a]
    BY DEF PoolNotOversold
  <2>1. TypeOK
    BY AvailabilityAssumption DEF Init, TypeOK, Issued
  <2>2. a \in Availabilities /\ ActiveBlockades(a) = {} /\ Capacity[a] \in Nat
    BY AvailabilityAssumption DEF Init, Pools, ActiveBlockades
  <2>3. BlockedQuantity(a) = Cardinality(Units(QuantitiesOf(ActiveBlockades(a)), ActiveBlockades(a)))
    BY <2>1, <2>2, QuantitiesAreCounted
  <2>4. Units(QuantitiesOf(ActiveBlockades(a)), ActiveBlockades(a)) = {}
    BY <2>2 DEF Units
  <2> QED BY <2>2, <2>3, <2>4, FS_EmptySet
<1>2. TypeOK /\ TypeOK' /\ PoolNotOversold /\ [Next]_vars => PoolNotOversold'
  <2> SUFFICES ASSUME TypeOK, TypeOK', PoolNotOversold, [Next]_vars, NEW p \in Pools
               PROVE  BlockedQuantity(p)' <= Capacity[p]
    BY DEF PoolNotOversold, Pools
  <2>1. /\ p \in Availabilities /\ Capacity[p] \in Nat
        /\ BlockedQuantity(p) <= Capacity[p]
        /\ BlockedQuantity(p) \in Nat /\ BlockedQuantity(p)' \in Nat
    <3>1. p \in Availabilities /\ Capacity[p] \in Nat /\ BlockedQuantity(p) <= Capacity[p]
      BY AvailabilityAssumption DEF Pools, PoolNotOversold
    <3> QED BY <3>1, QuantitiesAreCounted, QuantitiesAreCountedNext, FS_CardinalityType
  <2>2. ASSUME \A i \in ActiveBlockades(p)' : i \in ActiveBlockades(p) /\ granted'[i] = granted[i]
        PROVE  BlockedQuantity(p)' <= Capacity[p]
    <3>1. BlockedQuantity(p)' <= BlockedQuantity(p)
      BY <2>1, <2>2, BlockedQuantityShrinks
    <3> QED BY <2>1, <3>1
  <2>3. CASE UNCHANGED vars
    BY <2>2, <2>3 DEF vars, ActiveBlockades, Active
  <2>4. ASSUME ElementaryStep, blockades'[p] \subseteq blockades[p]
        PROVE  BlockedQuantity(p)' <= Capacity[p]
    <3>1. \A i \in blockades[p] : i \in Issued
      BY <2>1 DEF TypeOK
    <3>2. \A i \in Issued : /\ granted'[i] = granted[i]
                            /\ BlockadeActive(granted[i], now') => BlockadeActive(granted[i], now)
      BY <2>4, GrantedIsStable
    <3>3. ASSUME NEW i \in ActiveBlockades(p)'
          PROVE  i \in ActiveBlockades(p) /\ granted'[i] = granted[i]
      BY <2>4, <3>1, <3>2, <3>3 DEF ActiveBlockades, Active
    <3> QED BY <2>2, <3>3
  <2>5. ASSUME NEW a \in Availabilities, NEW req, Asked(req), Lock(a, req)
        PROVE  BlockedQuantity(p)' <= Capacity[p]
    <3>0. ElementaryStep
      BY <2>5 DEF ElementaryStep
    <3> DEFINE n == Len(granted) + 1
    <3>1. CASE a # p
      <4>1. blockades'[p] = blockades[p]
        BY <2>1, <2>5, <3>1 DEF Lock, TypeOK
      <4> QED BY <2>4, <3>0, <4>1
    <3>2. CASE a = p
      <4> DEFINE S == ActiveBlockades(p)
                 T == ActiveBlockades(p)'
                 q == QuantitiesOf(ActiveBlockades(p))
                 r == QuantitiesOf(ActiveBlockades(p))'
      <4>1. /\ blockades'[p] = blockades[p] \cup {n}
            /\ now' = now
            /\ n \in Nat /\ n \notin Issued /\ blockades[p] \subseteq Issued
            /\ granted'[n].quantity = req.quantity
            /\ \A i \in Issued : granted'[i] = granted[i]
        BY <2>1, <2>5, <3>2 DEF Lock, BlockadesAfterLock, BlockadeFor, TypeOK, Issued
      <4>2. /\ req.quantity \in Nat /\ withdrawn[p] \in Nat
            /\ BlockedQuantity(p) + req.quantity <= Capacity[p]
        <5>1. req.quantity \in Nat /\ withdrawn[p] \in Nat
          BY <2>1, <2>5 DEF Asked, TypeOK
        <5>2. AvailableQuantity(p) >= req.quantity
          BY <2>5, <3>2 DEF Lock, Accepts
        <5> QED BY <2>1, <5>1, <5>2 DEF AvailableQuantity
      <4>3. T \subseteq S \cup {n} /\ \A i \in S : granted'[i] = granted[i]
        BY <4>1 DEF ActiveBlockades, Active
      <4>4. IsFiniteSet(S) /\ \A i \in S : i # n /\ granted[i].quantity \in Nat
        BY <2>1, <4>1, QuantitiesAreCounted
      <4> DEFINE all == [i \in S \cup {n} |-> granted'[i].quantity]
      <4>5. \A i \in S \cup {n} : all[i] \in Nat
        BY <4>1, <4>2, <4>3, <4>4
      <4>6. Units(all, S) = Units(q, S) /\ Units(r, T) \subseteq Units(all, S \cup {n})
        BY <4>3, <4>4 DEF Units, QuantitiesOf
      <4>7. /\ BlockedQuantity(p) = Cardinality(Units(q, S))
            /\ BlockedQuantity(p)' = Cardinality(Units(r, T))
            /\ IsFiniteSet(Units(q, S))
        BY <2>1, QuantitiesAreCounted, QuantitiesAreCountedNext
      <4>8. all[n] = req.quantity
        BY <4>1
      <4> HIDE DEF n, S, T, q, r, all
      <4>9. /\ IsFiniteSet(Units(all, S \cup {n}))
            /\ Cardinality(Units(all, S \cup {n})) = all[n] + Cardinality(Units(all, S))
        BY <4>4, <4>5, <4>6, <4>7, UnitsOfOneMore
      <4>10. Cardinality(Units(r, T)) <= Cardinality(Units(all, S \cup {n}))
        BY <4>6, <4>9, FS_Subset
      <4> QED BY <2>1, <4>2, <4>6, <4>7, <4>8, <4>9, <4>10
    <3> QED BY <3>1, <3>2
  <2>6. CASE Next
    <3>1. ElementaryStep
      BY <2>6, NextIsElementary
    <3>2. ASSUME NEW a \in Availabilities, NEW o \in Owners, NEW i \in Issued, Unlock(a, o, i)
          PROVE  blockades'[p] \subseteq blockades[p]
      BY <2>1, <3>2 DEF Unlock, TypeOK
    <3>3. ReleaseExpired => blockades'[p] \subseteq blockades[p]
      BY <2>1 DEF ReleaseExpired, ActiveBlockades
    <3>4. ASSUME NEW a, NEW q, Withdraw(a, q) \/ Replenish(a, q) \/ Register(a) \/ Tick
          PROVE  blockades'[p] \subseteq blockades[p]
      BY <3>4 DEF Withdraw, Replenish, Register, Tick
    <3> QED BY <2>4, <2>5, <3>1, <3>2, <3>3, <3>4 DEF ElementaryStep
  <2> QED BY <2>3, <2>6
<1> QED BY <1>1, <1>2, TypeCorrect, PTL DEF Spec

-----------------------------------------------------------------------------
(* Callers that name resources *)

\* The first registered availability of a set.
FirstOf(W) ==
  {repository[n] : n \in {m \in 1..Len(repository) :
      repository[m] \in W /\ \A k \in 1..(m - 1) : repository[k] \notin W}}

AtSlot(r, slot) ==
  {b \in Availabilities : ResourceOf[b] = r /\ Kind[b] = "TEMPORAL" /\ SlotOf[b] = slot}

\* What lockIndividual and lockTemporal choose from when they look for a.
Rivals(a) ==
  IF Kind[a] = "TEMPORAL"
  THEN AtSlot(ResourceOf[a], SlotOf[a])
  ELSE {b \in Availabilities : ResourceOf[b] = ResourceOf[a]}

\* Only the first of its rivals is ever locked.
FirstIsLocked == \A a \in Exclusive : blockades[a] # {} => a \in FirstOf(Rivals(a))

\* There is one first at most, and it stays the first when others are registered.
LEMMA FirstIsOne ==
  ASSUME TypeOK, NEW W, NEW a \in FirstOf(W), NEW b \in FirstOf(W)
  PROVE  a = b
<1>1. PICK m \in 1..Len(repository) :
        a = repository[m] /\ a \in W /\ \A k \in 1..(m - 1) : repository[k] \notin W
  BY DEF FirstOf
<1>2. PICK n \in 1..Len(repository) :
        b = repository[n] /\ b \in W /\ \A k \in 1..(n - 1) : repository[k] \notin W
  BY DEF FirstOf
<1>3. m \in Nat /\ n \in Nat /\ m >= 1 /\ n >= 1
  BY DEF TypeOK
<1>4. ~(m < n) /\ ~(n < m)
  BY <1>1, <1>2, <1>3
<1> QED BY <1>1, <1>2, <1>3, <1>4

LEMMA FirstStaysFirst ==
  ASSUME TypeOK, NEW W, NEW a \in FirstOf(W), NEW c \in Availabilities,
         repository' = Append(repository, c)
  PROVE  a \in FirstOf(W)'
<1>1. PICK m \in 1..Len(repository) :
        a = repository[m] /\ a \in W /\ \A k \in 1..(m - 1) : repository[k] \notin W
  BY DEF FirstOf
<1>2. /\ Len(repository') = Len(repository) + 1 /\ Len(repository) \in Nat
      /\ \A k \in 1..Len(repository) : repository'[k] = repository[k]
  BY DEF TypeOK
<1>3. m \in 1..Len(repository') /\ \A k \in 1..(m - 1) : k \in 1..Len(repository)
  BY <1>2
<1> QED BY <1>1, <1>2, <1>3 DEF FirstOf

LEMMA LookupsAreFirst ==
  ASSUME TypeOK, NEW r, NEW slot
  PROVE  /\ FirstOfResource(r) = FirstOf({b \in Availabilities : ResourceOf[b] = r})
         /\ FirstOfSlot(r, slot) = FirstOf(AtSlot(r, slot))
<1>1. \A n \in 1..Len(repository) : repository[n] \in Availabilities
  BY DEF TypeOK
<1>2. \A n \in 1..Len(repository) : \A k \in 1..(n - 1) : k \in 1..Len(repository)
  BY DEF TypeOK
<1> QED BY <1>1, <1>2 DEF FirstOfResource, FirstOfSlot, FirstSuchThat, FirstOf, AtSlot

\* Callers that go through lockIndividual and lockTemporal never hold a resource, or a
\* slot of it, twice, even when it was registered twice (ResourceHeldOnce).
THEOREM ResourcesAreHeldOnce == ResourceSpec => []ResourceHeldOnce
<1>1. [ResourceNext]_vars => [Next]_vars
  BY DEF ResourceNext, Next, LockStep
<1>2. Init => TypeOK /\ FirstIsLocked
  <2>1. Init => TypeOK
    BY AvailabilityAssumption DEF Init, TypeOK, Issued
  <2> QED BY <2>1 DEF Init, FirstIsLocked, Exclusive
<1>3. TypeOK /\ FirstIsLocked /\ [ResourceNext]_vars => FirstIsLocked'
  <2> SUFFICES ASSUME TypeOK, FirstIsLocked, [ResourceNext]_vars, NEW a \in Exclusive,
                      blockades'[a] # {}
               PROVE  a \in FirstOf(Rivals(a))'
    BY DEF FirstIsLocked, Exclusive
  <2>0. a \in Availabilities /\ a \notin Pools /\ Kind[a] \in {"INDIVIDUAL", "TEMPORAL"}
    BY DEF Exclusive, Pools
  <2>1. ASSUME blockades[a] # {}, repository' = repository
        PROVE  a \in FirstOf(Rivals(a))'
    BY <2>1 DEF FirstIsLocked, FirstOf, Rivals, AtSlot
  <2>2. ASSUME NEW req \in Request, NEW c \in Registered, Lock(c, req),
               c = a => a \in FirstOf(Rivals(a))
        PROVE  a \in FirstOf(Rivals(a))'
    <3>1. repository' = repository
      BY <2>2 DEF Lock
    <3>2. CASE c = a
      BY <2>2, <3>1, <3>2 DEF FirstOf, Rivals, AtSlot
    <3>3. CASE c # a
      <4>1. blockades'[a] = blockades[a]
        BY <2>0, <2>2, <3>3 DEF Lock, TypeOK
      <4> QED BY <2>1, <3>1, <4>1
    <3> QED BY <3>2, <3>3
  <2>3. ASSUME NEW req \in Request, LockFirst(req)
        PROVE  a \in FirstOf(Rivals(a))'
    <3>1. PICK c \in FirstOfResource(req.resourceId) : req.type \in {"INDIVIDUAL", "POOL"} /\ Lock(c, req)
      BY <2>3 DEF LockFirst
    <3>2. c \in Registered /\ Kind[c] # "TEMPORAL" /\ ResourceOf[c] = req.resourceId
      BY <3>1 DEF Lock, Accepts
    <3>3. c \in FirstOf(Rivals(c))
      BY <3>1, <3>2, LookupsAreFirst DEF Rivals
    <3> QED BY <2>2, <3>1, <3>2, <3>3
  <2>4. ASSUME NEW req \in Request, LockSlot(req)
        PROVE  a \in FirstOf(Rivals(a))'
    <3>1. PICK c \in FirstOfSlot(req.resourceId, req.slot) : Lock(c, req)
      BY <2>4 DEF LockSlot
    <3>2. c \in Registered
      BY <3>1 DEF Lock
    <3>3. Kind[c] = "TEMPORAL" /\ SlotOf[c] = req.slot /\ ResourceOf[c] = req.resourceId
      BY <3>1 DEF FirstOfSlot, FirstSuchThat
    <3>4. FirstOfSlot(req.resourceId, req.slot) = FirstOf(AtSlot(req.resourceId, req.slot))
      BY LookupsAreFirst
    <3>5. Rivals(c) = AtSlot(req.resourceId, req.slot)
      BY <3>3 DEF Rivals, AtSlot
    <3>6. c \in FirstOf(Rivals(c))
      BY <3>1, <3>4, <3>5
    <3> QED BY <2>2, <3>1, <3>2, <3>6
  <2>5. ASSUME NEW c \in Availabilities, Register(c)
        PROVE  a \in FirstOf(Rivals(a))'
    <3>1. repository' = Append(repository, c) /\ a \in FirstOf(Rivals(a))
      BY <2>5 DEF Register, FirstIsLocked
    <3>2. \A W : a \in FirstOf(W) => a \in FirstOf(W)'
      BY <2>5, <3>1, FirstStaysFirst
    <3> QED BY <3>1, <3>2 DEF Rivals, AtSlot
  <2>6. ASSUME NEW c \in Availabilities, NEW o \in Owners, NEW i, Unlock(c, o, i)
        PROVE  a \in FirstOf(Rivals(a))'
    BY <2>0, <2>1, <2>6 DEF Unlock, TypeOK
  <2>7. CASE ReleaseExpired
    BY <2>0, <2>1, <2>7 DEF ReleaseExpired, ActiveBlockades
  <2>8. ASSUME NEW c, NEW q, Withdraw(c, q) \/ Replenish(c, q) \/ Tick \/ UNCHANGED vars
        PROVE  a \in FirstOf(Rivals(a))'
    BY <2>1, <2>8 DEF Withdraw, Replenish, Tick, vars
  <2>9. ASSUME NEW o \in Owners, NEW i \in Issued, UnlockFound(o, i)
        PROVE  a \in FirstOf(Rivals(a))'
    <3>1. PICK c \in FirstWithBlockade(i) : Unlock(c, o, i)
      BY <2>9 DEF UnlockFound
    <3>2. c \in Availabilities
      BY <3>1 DEF FirstWithBlockade, FirstSuchThat, TypeOK
    <3> QED BY <2>6, <3>1, <3>2
  <2>10. ASSUME NEW c \in Availabilities, NEW o \in Owners, NEW i \in Issued, UnlockAt(c, o, i)
         PROVE  a \in FirstOf(Rivals(a))'
    BY <2>6, <2>10 DEF UnlockAt
  <2> QED
    BY <2>3, <2>4, <2>5, <2>7, <2>8, <2>9, <2>10 DEF ResourceNext, OtherStep
<1>4. TypeOK /\ FirstIsLocked => ResourceHeldOnce
  <2> SUFFICES ASSUME TypeOK, FirstIsLocked, NEW a \in Exclusive, NEW b \in Exclusive,
                      ResourceOf[a] = ResourceOf[b], Kind[a] = Kind[b],
                      Kind[a] = "TEMPORAL" => SlotOf[a] = SlotOf[b],
                      ActiveBlockades(a) # {}, ActiveBlockades(b) # {}
               PROVE  a = b
    BY DEF ResourceHeldOnce
  <2>1. a \in FirstOf(Rivals(a)) /\ b \in FirstOf(Rivals(b))
    BY DEF FirstIsLocked, ActiveBlockades
  <2>2. Rivals(a) = Rivals(b)
    BY DEF Rivals
  <2> QED BY <2>1, <2>2, FirstIsOne
<1>5. ResourceSpec => Spec
  BY <1>1, PTL DEF ResourceSpec, Spec
<1> QED BY <1>2, <1>3, <1>4, <1>5, TypeCorrect, PTL DEF ResourceSpec

-----------------------------------------------------------------------------
(* Composites: the inductive invariant *)

\* Everything that was recorded for a composite and not given back yet
Records == UNION {composites[k] : k \in Composites}

\* A composite blockade maps components to blockades granted on them, which their
\* owner does not know by id.
IsRecord(rec) ==
  /\ DOMAIN rec \subseteq Availabilities
  /\ \A a \in DOMAIN rec : /\ rec[a] \in Issued /\ granted[rec[a]].availability = a
                           /\ rec[a] \notin held
RecordsAreGranted ==
  /\ DOMAIN composites = Composites
  /\ \A rec \in Records : IsRecord(rec)

\* No blockade is a part of two composite blockades.
RecordsAreDisjoint ==
  \A k, m \in Composites : \A rec \in composites[k], other \in composites[m] :
    \A a \in DOMAIN rec, b \in DOMAIN other : rec[a] = other[b] => k = m /\ rec = other

CompositeInv ==
  /\ TypeOK /\ RecordsAreGranted /\ RecordsAreDisjoint
  /\ WholeUntilReleased /\ NothingStranded

\* The parts of rec still run and were not locked anew by their owner.
Valid(rec) == \A a \in DOMAIN rec : Active(rec[a]) /\ ~Superseded(rec[a])
Whole(rec) == \A a \in DOMAIN rec : rec[a] \in blockades[a]

-----------------------------------------------------------------------------
(* Old records *)

\* What a step may do to the records made before it: the blockades of granted stay as
\* they are, time goes on, and no id of theirs becomes known to its owner.
KeepsRecords ==
  /\ \A i \in Issued : i \in Issued' /\ granted'[i] = granted[i]
  /\ \A i \in Issued : BlockadeActive(granted[i], now') => BlockadeActive(granted[i], now)
  /\ held' \cap Issued \subseteq held

LEMMA RecordLasts ==
  ASSUME KeepsRecords, NEW rec, IsRecord(rec)
  PROVE  IsRecord(rec)' /\ (Valid(rec)' => Valid(rec)) /\ (Uniform(rec)' <=> Uniform(rec))
<1>1. \A a \in DOMAIN rec : /\ rec[a] \in Issued /\ rec[a] \in Issued'
                            /\ granted'[rec[a]] = granted[rec[a]]
  BY DEF IsRecord, KeepsRecords
<1>2. IsRecord(rec)'
  BY <1>1 DEF IsRecord, KeepsRecords
<1>3. ASSUME Valid(rec)', NEW a \in DOMAIN rec PROVE Active(rec[a]) /\ ~Superseded(rec[a])
  <2>1. Active(rec[a])' /\ ~Superseded(rec[a])'
    BY <1>3 DEF Valid
  <2>2. Active(rec[a])
    BY <1>1, <2>1 DEF Active, KeepsRecords
  <2>3. Superseded(rec[a]) => Superseded(rec[a])'
    BY <1>1 DEF Superseded, KeepsRecords
  <2> QED BY <2>1, <2>2, <2>3
<1>4. Uniform(rec)' <=> Uniform(rec)
  BY <1>1 DEF Uniform
<1> QED BY <1>2, <1>3, <1>4 DEF Valid

\* A step that keeps the records and takes no part away from a valid one keeps the
\* composite locks whole, as long as it records nothing new.
LEMMA RecordsStayWhole ==
  ASSUME CompositeInv, KeepsRecords,
         DOMAIN composites' = Composites,
         \A k \in Composites : composites'[k] \subseteq composites[k],
         \A k \in Composites : \A rec \in composites'[k] :
            Uniform(rec) /\ Whole(rec) /\ Valid(rec) /\ Valid(rec)' => Whole(rec)'
  PROVE  RecordsAreGranted' /\ RecordsAreDisjoint' /\ WholeUntilReleased'
<1>1. ASSUME NEW k \in Composites, NEW rec \in composites'[k]
      PROVE  rec \in composites[k] /\ IsRecord(rec) /\ IsRecord(rec)'
             /\ (Valid(rec)' => Valid(rec)) /\ (Uniform(rec)' <=> Uniform(rec))
  <2>1. rec \in composites[k] /\ IsRecord(rec)
    BY <1>1 DEF CompositeInv, RecordsAreGranted, Records
  <2> QED BY <2>1, RecordLasts
<1>2. RecordsAreGranted'
  BY <1>1 DEF RecordsAreGranted, Records
<1>3. RecordsAreDisjoint'
  BY <1>1 DEF CompositeInv, RecordsAreDisjoint
<1>4. ASSUME NEW k \in Composites, NEW rec \in composites'[k], Uniform(rec)', Valid(rec)'
      PROVE  Whole(rec)'
  <2>1. Uniform(rec) /\ Valid(rec)
    BY <1>1, <1>4
  <2>2. Whole(rec)
    BY <1>1, <1>4, <2>1 DEF CompositeInv, WholeUntilReleased, Valid, Whole
  <2> QED BY <1>4, <2>1, <2>2
<1>5. WholeUntilReleased'
  BY <1>4 DEF WholeUntilReleased, Valid, Whole
<1> QED BY <1>2, <1>3, <1>5

-----------------------------------------------------------------------------
(* Direct locks and unlocks *)

LEMMA ElementaryKeepsRecords ==
  ASSUME TypeOK, ElementaryStep PROVE KeepsRecords
<1>1. held' \cap Issued \subseteq held
  BY DEF ElementaryStep, Lock, Register, Unlock, ReleaseExpired, Withdraw, Replenish, Tick,
         TypeOK, Issued
<1> QED BY <1>1, GrantedIsStable DEF KeepsRecords

\* An owner's lock takes no part out of a composite blockade that it does not replace.
LEMMA DirectLockKeepsInv ==
  ASSUME CompositeInv, NEW a \in Availabilities, NEW req, Asked(req), Lock(a, req),
         UNCHANGED <<composites, enlisted>>
  PROVE  CompositeInv'
<1>1. ElementaryStep
  BY DEF ElementaryStep
<1>2. TypeOK /\ TypeOK' /\ KeepsRecords
  BY <1>1, TypeStep, ElementaryKeepsRecords DEF CompositeInv
<1> DEFINE n == Len(granted) + 1
<1>3. /\ blockades' = [blockades EXCEPT ![a] = BlockadesAfterLock(a, n)]
      /\ held' = held \cup {n}
      /\ n \in Issued' /\ n \notin Issued /\ \A i \in Issued : n > i
      /\ granted'[n].availability = a
      /\ granted'[n].owner = req.owner
      /\ Accepts(a, req)
  BY <1>2 DEF Lock, BlockadeFor, TypeOK, Issued
<1> HIDE DEF n
<1>4. ASSUME NEW k \in Composites, NEW rec \in composites'[k],
             Whole(rec), Valid(rec), Valid(rec)', NEW b \in DOMAIN rec
      PROVE  rec[b] \in blockades'[b]
  <2>1. /\ rec[b] \in blockades[b] /\ Active(rec[b]) /\ ~Superseded(rec[b])'
        /\ rec[b] \in Issued /\ granted[rec[b]].availability = b /\ b \in Availabilities
    BY <1>4 DEF Whole, Valid, CompositeInv, RecordsAreGranted, Records, IsRecord
  <2>2. CASE b # a
    BY <1>2, <1>3, <2>1, <2>2 DEF TypeOK
  <2>3. CASE b = a /\ a \in Pools
    BY <1>2, <1>3, <2>1, <2>3 DEF TypeOK, BlockadesAfterLock
  <2>4. CASE b = a /\ a \notin Pools
    <3>1. granted[rec[b]].owner = req.owner
      BY <1>3, <2>1, <2>4
      DEF Accepts, IsAvailableFor, Active, Expired, BlockadeExpired, OwnedBy, BlockadeOwnedBy
    <3>2. a \in Exclusive
      BY <2>4, AvailabilityAssumption DEF Exclusive, Pools, Kinds
    <3>3. granted'[rec[b]] = granted[rec[b]]
      BY <1>2, <2>1 DEF KeepsRecords
    <3>4. Superseded(rec[b])'
      BY <1>3, <2>1, <2>4, <3>1, <3>2, <3>3 DEF Superseded
    <3> QED BY <2>1, <3>4
  <2> QED BY <2>2, <2>3, <2>4
<1>5. RecordsAreGranted' /\ RecordsAreDisjoint' /\ WholeUntilReleased'
  <2>1. DOMAIN composites' = Composites /\ composites' = composites
    BY DEF CompositeInv, RecordsAreGranted
  <2>2. \A k \in Composites : \A rec \in composites'[k] :
            Uniform(rec) /\ Whole(rec) /\ Valid(rec) /\ Valid(rec)' => Whole(rec)'
    BY <1>4 DEF Whole
  <2> QED BY <1>2, <2>1, <2>2, RecordsStayWhole
<1>6. NothingStranded'
  <2> SUFFICES ASSUME NEW c \in Availabilities, NEW i \in blockades'[c],
                      granted'[i].owner \in OwnName
               PROVE  i \in held' \cup Recorded'
    BY DEF NothingStranded, OwnName
  <2>1. CASE i = n
    BY <1>3, <2>1
  <2>2. CASE i # n
    <3>1. i \in blockades[c] /\ i \in Issued
      BY <1>2, <1>3, <2>2 DEF BlockadesAfterLock, TypeOK
    <3>2. granted'[i] = granted[i]
      BY <1>2, <3>1 DEF KeepsRecords
    <3>3. i \in held \cup Recorded
      BY <3>1, <3>2 DEF CompositeInv, NothingStranded
    <3> QED BY <1>3, <3>3 DEF Recorded
  <2> QED BY <2>1, <2>2
<1> QED BY <1>2, <1>5, <1>6 DEF CompositeInv

\* Owners unlock what their own locks returned, never a part of a composite blockade.
LEMMA DirectUnlockKeepsInv ==
  ASSUME CompositeInv, NEW a \in Availabilities, NEW o \in Owners, NEW i \in held,
         Unlock(a, o, i), UNCHANGED <<composites, enlisted>>
  PROVE  CompositeInv'
<1>1. TypeOK /\ TypeOK' /\ KeepsRecords
  <2>1. TypeOK /\ i \in Issued
    BY DEF CompositeInv, TypeOK
  <2>2. ElementaryStep
    BY <2>1 DEF ElementaryStep
  <2> QED BY <2>1, <2>2, TypeStep, ElementaryKeepsRecords
<1>2. /\ i \in blockades[a]
      /\ blockades' = [blockades EXCEPT ![a] = @ \ {i}] /\ held' = held \ {i}
      /\ UNCHANGED <<granted, now>>
  BY DEF Unlock
<1>3. ASSUME NEW k \in Composites, NEW rec \in composites'[k], Whole(rec) PROVE Whole(rec)'
  <2>1. IsRecord(rec)
    BY DEF CompositeInv, RecordsAreGranted, Records
  <2> QED BY <1>1, <1>2, <1>3, <2>1 DEF Whole, IsRecord, TypeOK
<1>4. RecordsAreGranted' /\ RecordsAreDisjoint' /\ WholeUntilReleased'
  <2>1. DOMAIN composites' = Composites /\ composites' = composites
    BY DEF CompositeInv, RecordsAreGranted
  <2> QED BY <1>1, <1>3, <2>1, RecordsStayWhole
<1>5. NothingStranded'
  <2> SUFFICES ASSUME NEW c \in Availabilities, NEW j \in blockades'[c],
                      granted'[j].owner \in OwnName
               PROVE  j \in held' \cup Recorded'
    BY DEF NothingStranded, OwnName
  <2>1. j \in blockades[c] /\ j # i
    <3>1. blockades' = [blockades EXCEPT ![a] = blockades[a] \ {i}]
      BY <1>2
    <3>2. CASE c = a
      BY <1>1, <3>1, <3>2 DEF TypeOK
    <3>3. CASE c # a
      <4>1. j \in blockades[c]
        BY <1>1, <3>1, <3>3 DEF TypeOK
      <4>2. granted[j].availability = c /\ granted[i].availability = a
        BY <1>1, <1>2, <4>1 DEF TypeOK
      <4> QED BY <3>3, <4>1, <4>2
    <3> QED BY <3>2, <3>3
  <2>2. j \in held \cup Recorded
    BY <1>2, <2>1 DEF CompositeInv, NothingStranded
  <2> QED BY <1>2, <2>1, <2>2 DEF Recorded
<1> QED BY <1>1, <1>4, <1>5 DEF CompositeInv

\* Steps that change neither the blockades nor who knows them
LEMMA QuietStepKeepsInv ==
  ASSUME CompositeInv, TypeOK', KeepsRecords,
         UNCHANGED <<blockades, granted, held, composites>>
  PROVE  CompositeInv'
<1>1. \A k \in Composites : \A rec \in composites'[k] : Whole(rec) => Whole(rec)'
  BY DEF Whole
<1>2. RecordsAreGranted' /\ RecordsAreDisjoint' /\ WholeUntilReleased'
  <2>1. DOMAIN composites' = Composites /\ composites' = composites
    BY DEF CompositeInv, RecordsAreGranted
  <2> QED BY <1>1, <2>1, RecordsStayWhole
<1>3. NothingStranded'
  BY DEF CompositeInv, NothingStranded, Recorded, OwnName
<1> QED BY <1>2, <1>3 DEF CompositeInv
-----------------------------------------------------------------------------
(* Composite locks *)

PartsBatch(cs, r) == [n \in 1..Len(cs) |-> BlockadeFor(cs[n], r.parts[cs[n]])]
Among(a, cs) == \E n \in 1..Len(cs) : cs[n] = a

LEMMA ComponentsAreAvailabilities ==
  ASSUME NEW k \in Composites
  PROVE  ComponentSet(k) \subseteq Availabilities /\ IsFiniteSet(ComponentSet(k))
         /\ ComponentsOf[k] \in Seq(ComponentSet(k))
         /\ \A a : Among(a, ComponentsOf[k]) <=> a \in ComponentSet(k)
<1> DEFINE cs == ComponentsOf[k]
<1>1. cs \in Seq(Availabilities)
  BY CompositeAssumption
<1>2. ComponentSet(k) = {cs[n] : n \in 1..Len(cs)}
  BY DEF ComponentSet
<1> HIDE DEF cs
<1>3. cs \in [1..Len(cs) -> ComponentSet(k)] /\ Len(cs) \in Nat
  BY <1>1, <1>2
<1>4. cs \in Surjection(1..Len(cs), ComponentSet(k))
  BY <1>2, <1>3 DEF Surjection
<1>5. IsFiniteSet(ComponentSet(k))
  <2>1. IsFiniteSet(1..Len(cs))
    BY <1>3, FS_Interval
  <2> QED BY <1>4, <2>1, FS_Surjection
<1>6. cs \in Seq(ComponentSet(k))
  <2> DEFINE T == ComponentSet(k)
             len == Len(cs)
  <2>1. cs \in [1..len -> T] /\ len \in Nat
    BY <1>3
  <2> HIDE DEF T, len
  <2>2. cs \in Seq(T)
    BY <2>1
  <2> QED BY <2>2 DEF T
<1>7. ComponentSet(k) \subseteq Availabilities
  BY <1>1, <1>2
<1>8. \A a : Among(a, cs) <=> a \in ComponentSet(k)
  BY <1>2 DEF Among
<1> QED BY <1>5, <1>6, <1>7, <1>8 DEF cs

\* Each part that is locked is granted a new blockade of its own.
LEMMA PartsAreGranted ==
  ASSUME TypeOK, NEW k \in Composites, NEW r \in CompositeRequests, Attempts(k, r),
         NEW cs \in Seq(ComponentSet(k)), GrantAll(cs, r)
  PROVE  /\ granted' \in Seq(Blockade)
         /\ \A i \in Issued : i \in Issued' /\ granted'[i] = granted[i]
         /\ \A a : Among(a, cs) =>
              /\ GrantedTo(cs, a) \in Issued' /\ GrantedTo(cs, a) \notin Issued
              /\ granted'[GrantedTo(cs, a)].availability = a
              /\ granted'[GrantedTo(cs, a)].owner = r.parts[a].owner
<1> DEFINE bs == PartsBatch(cs, r)
<1>1. granted' = granted \o bs /\ granted \in Seq(Blockade) /\ now \in Nat
  BY DEF GrantAll, PartsBatch, TypeOK
<1>2. ASSUME NEW n \in 1..Len(cs)
      PROVE  bs[n] = BlockadeFor(cs[n], r.parts[cs[n]]) /\ bs[n] \in Blockade
  <2>1. cs[n] \in ComponentSet(k)
    OBVIOUS
  <2>2. cs[n] \in Availabilities /\ cs[n] \in DOMAIN r.parts
    BY <2>1, ComponentsAreAvailabilities DEF Attempts
  <2>3. /\ r.parts[cs[n]].owner \in Owners /\ r.parts[cs[n]].quantity \in Nat
        /\ r.parts[cs[n]].duration \in Nat
    BY <2>2, CompositeAssumption
  <2>4. bs[n] = BlockadeFor(cs[n], r.parts[cs[n]])
    BY DEF PartsBatch
  <2> HIDE DEF bs
  <2>5. BlockadeFor(cs[n], r.parts[cs[n]]) \in Blockade
    BY <1>1, <2>2, <2>3 DEF BlockadeFor, Blockade
  <2> QED BY <2>4, <2>5
<1>3. bs \in Seq(Blockade) /\ Len(bs) = Len(cs)
  <2> DEFINE len == Len(cs)
  <2>1. len \in Nat /\ DOMAIN bs = 1..len /\ bs = [n \in 1..len |-> bs[n]]
    BY DEF PartsBatch
  <2>2. \A n \in 1..len : bs[n] \in Blockade
    BY <1>2
  <2> HIDE DEF bs, len
  <2>3. bs \in Seq(Blockade) /\ Len(bs) = len
    BY <2>1, <2>2
  <2> QED BY <2>3 DEF len
<1> HIDE DEF bs
<1>4. /\ granted' \in Seq(Blockade)
      /\ \A i \in Issued : i \in Issued' /\ granted'[i] = granted[i]
      /\ \A n \in 1..Len(bs) :
           /\ Len(granted) + n \in Issued' /\ Len(granted) + n \notin Issued
           /\ granted'[Len(granted) + n] = bs[n]
  BY <1>1, <1>3, GrantedTogether
<1>5. ASSUME NEW a, Among(a, cs)
      PROVE  /\ GrantedTo(cs, a) \in Issued' /\ GrantedTo(cs, a) \notin Issued
             /\ granted'[GrantedTo(cs, a)].availability = a
             /\ granted'[GrantedTo(cs, a)].owner = r.parts[a].owner
  <2>1. PICK n : n \in 1..Len(cs) /\ cs[n] = a /\ GrantedTo(cs, a) = Len(granted) + n
    <3> DEFINE m == CHOOSE n \in 1..Len(cs) : cs[n] = a
    <3>1. m \in 1..Len(cs) /\ cs[m] = a
      BY <1>5 DEF Among
    <3>2. GrantedTo(cs, a) = Len(granted) + m
      BY DEF GrantedTo
    <3> HIDE DEF m
    <3> QED BY <3>1, <3>2
  <2>2. granted'[GrantedTo(cs, a)] = BlockadeFor(a, r.parts[a])
    BY <1>2, <1>3, <1>4, <2>1
  <2>3. BlockadeFor(a, r.parts[a]).availability = a
        /\ BlockadeFor(a, r.parts[a]).owner = r.parts[a].owner
    BY DEF BlockadeFor
  <2> QED BY <1>3, <1>4, <2>1, <2>2, <2>3
<1> QED BY <1>4, <1>5

\* An attempt that locks the components cs and drops no blockade that still runs.
IsAttempt(k, r, cs) ==
  /\ Attempts(k, r) /\ cs \in Seq(ComponentSet(k)) /\ GrantAll(cs, r)
  /\ UNCHANGED <<repository, withdrawn, now, held>>
  /\ blockades' = [a \in Availabilities |-> blockades'[a]]
  /\ \A a \in Availabilities :
       /\ \A i \in blockades[a] : Active(i) => i \in blockades'[a]
       /\ \A i \in blockades'[a] :
            i \in blockades[a] \/ (Among(a, cs) /\ i = GrantedTo(cs, a))

LEMMA AttemptKeepsOld ==
  ASSUME CompositeInv, NEW k \in Composites, NEW r \in CompositeRequests, NEW cs,
         IsAttempt(k, r, cs)
  PROVE  /\ TypeOK' /\ KeepsRecords
         /\ \A rec \in Records : Whole(rec) /\ Valid(rec) => Whole(rec)'
<1>0. /\ TypeOK /\ cs \in Seq(ComponentSet(k)) /\ Attempts(k, r) /\ GrantAll(cs, r)
      /\ UNCHANGED <<repository, withdrawn, now, held>>
  BY DEF CompositeInv, IsAttempt
<1>1. /\ granted' \in Seq(Blockade)
      /\ \A i \in Issued : i \in Issued' /\ granted'[i] = granted[i]
      /\ \A a : Among(a, cs) =>
           /\ GrantedTo(cs, a) \in Issued' /\ GrantedTo(cs, a) \notin Issued
           /\ granted'[GrantedTo(cs, a)].availability = a
           /\ granted'[GrantedTo(cs, a)].owner = r.parts[a].owner
  BY <1>0, PartsAreGranted
<1>2. ASSUME NEW a \in Availabilities, NEW i \in blockades'[a]
      PROVE  i \in Issued' /\ granted'[i].availability = a
  <2>1. CASE i \in blockades[a]
    BY <1>0, <1>1, <2>1 DEF TypeOK
  <2>2. CASE Among(a, cs) /\ i = GrantedTo(cs, a)
    BY <1>1, <2>2
  <2> QED BY <2>1, <2>2 DEF IsAttempt
<1>3. blockades' \in [Availabilities -> SUBSET Issued']
  <2>1. \A a \in Availabilities : blockades'[a] \subseteq Issued'
    BY <1>2
  <2>2. blockades' = [a \in Availabilities |-> blockades'[a]]
    BY DEF IsAttempt
  <2> QED BY <2>1, <2>2
<1>4. TypeOK'
  BY <1>0, <1>1, <1>2, <1>3 DEF TypeOK
<1>5. KeepsRecords
  BY <1>0, <1>1 DEF KeepsRecords
<1>6. ASSUME NEW rec \in Records, Whole(rec), Valid(rec), NEW a \in DOMAIN rec
      PROVE  rec[a] \in blockades'[a]
  <2>1. a \in Availabilities
    BY DEF CompositeInv, RecordsAreGranted, IsRecord
  <2> QED BY <1>6, <2>1 DEF IsAttempt, Whole, Valid
<1> QED BY <1>4, <1>5, <1>6 DEF Whole

LEMMA FreeComponents ==
  ASSUME NEW k \in Composites, NEW r \in CompositeRequests, Attempts(k, r),
         NEW a \in ComponentSet(k), a \notin Pools
  PROVE  \A i \in blockades[a] : ~Active(i)
BY DEF Attempts, IsAvailable, ActiveBlockades

\* A lock that every component accepts is recorded with the blockades it was granted.
LEMMA LockKeepsInv ==
  ASSUME CompositeInv, NEW k \in Composites, NEW r \in CompositeRequests, CompositeLocks(k, r)
  PROVE  CompositeInv'
<1> DEFINE cs == ComponentsOf[k]
<1>0. PICK new : new = [a \in ComponentSet(k) |-> GrantedTo(cs, a)]
  OBVIOUS
<1>1. /\ Attempts(k, r) /\ GrantAll(cs, r)
      /\ blockades' = [a \in Availabilities |->
           IF a \in ComponentSet(k) THEN BlockadesAfterLock(a, GrantedTo(cs, a)) ELSE blockades[a]]
      /\ composites' = [composites EXCEPT ![k] = composites[k] \cup {new}]
      /\ UNCHANGED <<repository, withdrawn, now, held>>
  BY <1>0 DEF CompositeLocks
<1>2. /\ cs \in Seq(ComponentSet(k)) /\ ComponentSet(k) \subseteq Availabilities
      /\ \A a : Among(a, cs) <=> a \in ComponentSet(k)
  BY ComponentsAreAvailabilities
<1>3. DOMAIN new = ComponentSet(k) /\ \A a \in ComponentSet(k) : new[a] = GrantedTo(cs, a)
  BY <1>0
<1> HIDE DEF cs
<1>4. TypeOK /\ RecordsAreGranted /\ RecordsAreDisjoint
  BY DEF CompositeInv
<1>5. IsAttempt(k, r, cs)
  <2>1. blockades' = [a \in Availabilities |-> blockades'[a]]
    BY <1>1
  <2>2. ASSUME NEW a \in Availabilities, NEW i \in blockades[a], Active(i)
        PROVE  i \in blockades'[a]
    BY <1>1, <2>2, FreeComponents DEF BlockadesAfterLock
  <2>3. ASSUME NEW a \in Availabilities, NEW i \in blockades'[a]
        PROVE  i \in blockades[a] \/ (Among(a, cs) /\ i = GrantedTo(cs, a))
    BY <1>1, <1>2, <2>3 DEF BlockadesAfterLock
  <2> QED BY <1>1, <1>2, <2>1, <2>2, <2>3 DEF IsAttempt
<1>6. /\ TypeOK' /\ KeepsRecords
      /\ \A rec \in Records : Whole(rec) /\ Valid(rec) => Whole(rec)'
  BY <1>5, AttemptKeepsOld
<1>7. \A a \in ComponentSet(k) :
        /\ new[a] \in Issued' /\ new[a] \notin Issued /\ granted'[new[a]].availability = a
  BY <1>1, <1>2, <1>3, <1>4, PartsAreGranted
<1>8. /\ DOMAIN composites' = Composites
      /\ composites'[k] = composites[k] \cup {new}
      /\ \A m \in Composites \ {k} : composites'[m] = composites[m]
  BY <1>1, <1>4 DEF RecordsAreGranted
<1>9. \A rec \in Records : IsRecord(rec) /\ IsRecord(rec)' /\ (Valid(rec)' => Valid(rec))
                            /\ (Uniform(rec)' <=> Uniform(rec))
  <2>1. \A rec \in Records : IsRecord(rec)
    BY <1>4 DEF RecordsAreGranted
  <2> QED BY <1>6, <2>1, RecordLasts
<1>10. IsRecord(new)'
  <2>1. held' = held /\ held \subseteq Issued
    BY <1>1, <1>4 DEF TypeOK
  <2> QED BY <1>2, <1>3, <1>7, <2>1 DEF IsRecord
<1>11. RecordsAreGranted'
  <2>1. \A rec \in Records' : rec = new \/ rec \in Records
    BY <1>8 DEF Records
  <2> QED BY <1>8, <1>9, <1>10, <2>1 DEF RecordsAreGranted
<1>12. RecordsAreDisjoint'
  <2> SUFFICES ASSUME NEW m \in Composites, NEW l \in Composites,
                      NEW rec \in composites'[m], NEW other \in composites'[l],
                      NEW a \in DOMAIN rec, NEW b \in DOMAIN other, rec[a] = other[b]
               PROVE  m = l /\ rec = other
    BY DEF RecordsAreDisjoint
  <2>1. rec \in composites[m] \/ (m = k /\ rec = new)
    BY <1>8
  <2>2. other \in composites[l] \/ (l = k /\ other = new)
    BY <1>8
  <2>3. rec \in composites[m] => rec[a] \in Issued
    BY <1>9 DEF Records, IsRecord
  <2>4. other \in composites[l] => other[b] \in Issued
    BY <1>9 DEF Records, IsRecord
  <2>5. CASE rec \in composites[m] /\ other \in composites[l]
    BY <1>4, <2>5 DEF RecordsAreDisjoint
  <2> QED BY <1>3, <1>7, <2>1, <2>2, <2>3, <2>4, <2>5
<1>13. WholeUntilReleased'
  <2> SUFFICES ASSUME NEW m \in Composites, NEW rec \in composites'[m],
                      Uniform(rec)', Valid(rec)'
               PROVE  Whole(rec)'
    BY DEF WholeUntilReleased, Valid, Whole
  <2>1. CASE rec = new
    <3>1. \A a \in ComponentSet(k) : new[a] \in blockades'[a]
      BY <1>1, <1>2, <1>3 DEF BlockadesAfterLock
    <3> QED BY <1>3, <2>1, <3>1 DEF Whole
  <2>2. CASE rec \in composites[m]
    <3>1. rec \in Records
      BY <2>2 DEF Records
    <3>2. Uniform(rec) /\ Valid(rec)
      BY <1>9, <3>1
    <3>3. Whole(rec)
      BY <2>2, <3>2 DEF CompositeInv, WholeUntilReleased, Valid, Whole
    <3> QED BY <1>6, <3>1, <3>2, <3>3
  <2> QED BY <1>8, <2>1, <2>2
<1>14. NothingStranded'
  <2> SUFFICES ASSUME NEW a \in Availabilities, NEW i \in blockades'[a],
                      granted'[i].owner \in OwnName
               PROVE  i \in held' \cup Recorded'
    BY DEF NothingStranded, OwnName
  <2>1. CASE i \in blockades[a]
    <3>1. granted'[i] = granted[i]
      BY <1>4, <1>6, <2>1 DEF KeepsRecords, TypeOK
    <3>2. i \in held \cup Recorded
      BY <2>1, <3>1 DEF CompositeInv, NothingStranded
    <3>3. Recorded \subseteq Recorded'
      BY <1>8 DEF Recorded
    <3> QED BY <1>1, <3>2, <3>3
  <2>2. CASE Among(a, cs) /\ i = GrantedTo(cs, a)
    <3>1. a \in DOMAIN new /\ i = new[a] /\ new \in composites'[k]
      BY <1>2, <1>3, <1>8, <2>2
    <3> QED BY <3>1 DEF Recorded
  <2> QED BY <1>5, <2>1, <2>2 DEF IsAttempt
<1> QED BY <1>6, <1>11, <1>12, <1>13, <1>14 DEF CompositeInv

\* A refused lock is rolled back; what the rollback cannot unlock was asked for in the
\* name of somebody else.
LEMMA RollbackKeepsInv ==
  ASSUME CompositeInv, NEW k \in Composites, NEW r \in CompositeRequests,
         CompositeRollsBack(k, r)
  PROVE  CompositeInv'
<1> DEFINE locked == LockedParts(k, r)
           stuck == {a \in locked : r.parts[a].owner # r.owner}
<1>1. PICK cs \in InOrder(k, stuck) :
        /\ Attempts(k, r) /\ GrantAll(cs, r)
        /\ blockades' = [a \in Availabilities |->
             CASE a \in stuck -> BlockadesAfterLock(a, GrantedTo(cs, a))
               [] a \in locked \ stuck -> IF a \in Pools THEN blockades[a] ELSE {}
               [] OTHER -> blockades[a]]
        /\ UNCHANGED <<repository, withdrawn, now, held, composites>>
  BY DEF CompositeRollsBack
<1>2. /\ stuck \subseteq ComponentSet(k) /\ locked \subseteq ComponentSet(k)
      /\ \A a \in stuck : r.parts[a].owner # r.owner
  BY DEF LockedParts
<1>9. stuck \subseteq locked
  OBVIOUS
<1> HIDE DEF locked, stuck
<1>3. cs \in Seq(ComponentSet(k)) /\ \A a : Among(a, cs) <=> a \in stuck
  <2> DEFINE len == Cardinality(stuck)
             T == ComponentSet(k)
  <2>1. len \in Nat
    <3>1. IsFiniteSet(stuck)
      BY <1>2, ComponentsAreAvailabilities, FS_Subset
    <3> QED BY <3>1, FS_CardinalityType
  <2>2. cs \in [1..len -> stuck] /\ {cs[n] : n \in DOMAIN cs} = stuck
    BY <1>1 DEF InOrder, Range
  <2>3. cs \in [1..len -> T]
    BY <1>2, <2>2
  <2> HIDE DEF len, T
  <2>4. cs \in Seq(T) /\ Len(cs) = len
    BY <2>1, <2>3
  <2> QED BY <2>2, <2>4 DEF T, Among
<1>4. TypeOK /\ RecordsAreGranted
  BY DEF CompositeInv
<1>5. IsAttempt(k, r, cs)
  <2>1. blockades' = [a \in Availabilities |-> blockades'[a]]
    BY <1>1
  <2>2. ASSUME NEW a \in Availabilities, NEW i \in blockades[a], Active(i)
        PROVE  i \in blockades'[a]
    <3>1. a \in locked => a \in Pools
      BY <1>1, <1>2, <2>2, FreeComponents
    <3>2. CASE a \in stuck
      BY <1>1, <1>9, <2>2, <3>1, <3>2 DEF BlockadesAfterLock
    <3>3. CASE a \in locked \ stuck
      BY <1>1, <2>2, <3>1, <3>3
    <3>4. CASE a \notin stuck /\ a \notin locked
      BY <1>1, <2>2, <3>4
    <3> QED BY <3>2, <3>3, <3>4
  <2>3. ASSUME NEW a \in Availabilities, NEW i \in blockades'[a]
        PROVE  i \in blockades[a] \/ (Among(a, cs) /\ i = GrantedTo(cs, a))
    BY <1>1, <1>3, <2>3 DEF BlockadesAfterLock
  <2> QED BY <1>1, <1>3, <2>1, <2>2, <2>3 DEF IsAttempt
<1>6. /\ TypeOK' /\ KeepsRecords
      /\ \A rec \in Records : Whole(rec) /\ Valid(rec) => Whole(rec)'
  BY <1>5, AttemptKeepsOld
<1>7. RecordsAreGranted' /\ RecordsAreDisjoint' /\ WholeUntilReleased'
  <2>1. DOMAIN composites' = Composites /\ composites' = composites
    BY <1>1, <1>4 DEF RecordsAreGranted
  <2>2. \A m \in Composites : composites'[m] \subseteq Records
    BY <2>1 DEF Records
  <2> QED BY <1>6, <2>1, <2>2, RecordsStayWhole
<1>8. NothingStranded'
  <2> SUFFICES ASSUME NEW a \in Availabilities, NEW i \in blockades'[a],
                      granted'[i].owner \in OwnName
               PROVE  i \in held' \cup Recorded'
    BY DEF NothingStranded, OwnName
  <2>1. CASE i \in blockades[a]
    <3>1. granted'[i] = granted[i]
      BY <1>4, <1>6, <2>1 DEF KeepsRecords, TypeOK
    <3>2. i \in held \cup Recorded
      BY <2>1, <3>1 DEF CompositeInv, NothingStranded
    <3> QED BY <1>1, <3>2 DEF Recorded
  <2>2. CASE Among(a, cs) /\ i = GrantedTo(cs, a)
    <3>1. granted'[i].owner = r.parts[a].owner
      BY <1>1, <1>3, <1>4, <2>2, PartsAreGranted
    <3>2. a \in DOMAIN r.parts /\ r.parts[a].owner # r.owner
      BY <1>1, <1>2, <1>3, <2>2 DEF Attempts
    <3> QED BY <3>1, <3>2 DEF OwnName
  <2> QED BY <1>5, <2>1, <2>2 DEF IsAttempt
<1> QED BY <1>6, <1>7, <1>8 DEF CompositeInv

-----------------------------------------------------------------------------
(* Unlocking and sweeping *)

\* A composite unlock by the owner frees every part that is left; by somebody else, none
\* of a uniform record.
LEMMA UnlockKeepsInv ==
  ASSUME CompositeInv, NEW k \in Composites, NEW o \in Owners, NEW gone \in composites[k],
         CompositeUnlock(k, o, gone)
  PROVE  CompositeInv'
<1> DEFINE freed == {a \in DOMAIN gone : gone[a] \in blockades[a] /\ OwnedBy(gone[a], o)}
<1>1. /\ blockades' = [a \in Availabilities |->
           IF a \in freed THEN blockades[a] \ {gone[a]} ELSE blockades[a]]
      /\ composites' = IF freed = DOMAIN gone
                         THEN [composites EXCEPT ![k] = composites[k] \ {gone}] ELSE composites
      /\ UNCHANGED <<repository, withdrawn, now, granted, held>>
  BY DEF CompositeUnlock
<1>2. /\ TypeOK /\ RecordsAreGranted /\ RecordsAreDisjoint /\ DOMAIN composites = Composites
      /\ IsRecord(gone)
  BY DEF CompositeInv, RecordsAreGranted, Records
<1>3. TypeOK'
  BY <1>1, <1>2 DEF TypeOK, Issued
<1>4. KeepsRecords
  BY <1>1 DEF KeepsRecords, Issued
<1>5. \A m \in Composites : \A rec \in composites'[m] : rec \in composites[m]
  BY <1>1, <1>2
<1>6. DOMAIN composites' = Composites
  BY <1>1, <1>2
<1>7. ASSUME NEW m \in Composites, NEW rec \in composites'[m],
             Uniform(rec), Whole(rec), NEW a \in DOMAIN rec
      PROVE  rec[a] \in blockades'[a]
  <2>1. /\ rec \in composites[m] /\ IsRecord(rec) /\ rec[a] \in blockades[a]
        /\ a \in Availabilities
    BY <1>2, <1>5, <1>7 DEF RecordsAreGranted, Records, Whole, IsRecord
  <2>2. ASSUME a \in freed, rec[a] = gone[a] PROVE FALSE
    <3>1. m = k /\ rec = gone
      BY <1>2, <2>1, <2>2 DEF RecordsAreDisjoint
    <3>2. \A b \in DOMAIN rec : rec[b] \in blockades[b] /\ OwnedBy(rec[b], o)
      BY <1>7, <2>2, <3>1 DEF Uniform, Whole, OwnedBy, BlockadeOwnedBy
    <3>3. freed = DOMAIN gone
      BY <3>1, <3>2
    <3> HIDE DEF freed
    <3>4. gone \notin composites'[k]
      BY <1>1, <1>2, <3>3
    <3> QED BY <1>7, <3>1, <3>4
  <2> HIDE DEF freed
  <2> QED BY <1>1, <2>1, <2>2
<1>8. RecordsAreGranted' /\ RecordsAreDisjoint' /\ WholeUntilReleased'
  BY <1>4, <1>5, <1>6, <1>7, RecordsStayWhole DEF Whole
<1>9. NothingStranded'
  <2> SUFFICES ASSUME NEW a \in Availabilities, NEW i \in blockades'[a],
                      granted'[i].owner \in OwnName
               PROVE  i \in held' \cup Recorded'
    BY DEF NothingStranded, OwnName
  <2>1. i \in blockades[a] /\ (a \in freed => i # gone[a])
    BY <1>1
  <2>2. i \in held \cup Recorded
    BY <1>1, <2>1 DEF CompositeInv, NothingStranded
  <2>3. ASSUME NEW m \in Composites, NEW rec \in composites[m], NEW b \in DOMAIN rec, i = rec[b]
        PROVE  i \in Recorded'
    <3>1. b = a
      BY <1>2, <2>1, <2>3 DEF TypeOK, RecordsAreGranted, Records, IsRecord
    <3>2. rec \in composites'[m]
      <4>1. CASE freed = DOMAIN gone
        <5>1. rec # gone
          BY <2>1, <2>3, <3>1, <4>1
        <5> HIDE DEF freed
        <5> QED BY <1>1, <1>2, <4>1, <5>1
      <4>2. CASE freed # DOMAIN gone
        <5> HIDE DEF freed
        <5> QED BY <1>1, <4>2
      <4> QED BY <4>1, <4>2
    <3> QED BY <2>3, <3>2 DEF Recorded
  <2>4. CASE i \in Recorded
    <3>1. PICK m \in Composites : \E rec \in composites[m] : \E b \in DOMAIN rec : i = rec[b]
      BY <2>4 DEF Recorded
    <3> QED BY <2>3, <3>1
  <2> HIDE DEF freed
  <2> QED BY <1>1, <2>2, <2>4
<1> QED BY <1>3, <1>8, <1>9 DEF CompositeInv

\* The sweeper drops expired blockades only.
LEMMA SweepKeepsInv ==
  ASSUME CompositeInv, Sweep PROVE CompositeInv'
<1>1. /\ \A a \in Availabilities :
           /\ blockades'[a] \subseteq blockades[a]
           /\ \A i \in blockades[a] : Active(i) => i \in blockades'[a]
      /\ blockades' \in [Availabilities -> SUBSET Issued]
      /\ UNCHANGED <<repository, withdrawn, now, granted, held, composites>>
  BY DEF Sweep, ActiveBlockades, CompositeInv, TypeOK
<1>2. TypeOK' /\ KeepsRecords
  BY <1>1 DEF CompositeInv, TypeOK, Issued, KeepsRecords
<1>3. ASSUME NEW k \in Composites, NEW rec \in composites'[k], Whole(rec), Valid(rec)
      PROVE  Whole(rec)'
  <2>1. IsRecord(rec)
    BY <1>1 DEF CompositeInv, RecordsAreGranted, Records
  <2> QED BY <1>1, <1>3, <2>1 DEF Whole, Valid, IsRecord
<1>4. RecordsAreGranted' /\ RecordsAreDisjoint' /\ WholeUntilReleased'
  <2>1. DOMAIN composites' = Composites /\ composites' = composites
    BY <1>1 DEF CompositeInv, RecordsAreGranted
  <2> QED BY <1>2, <1>3, <2>1, RecordsStayWhole
<1>5. NothingStranded'
  BY <1>1 DEF CompositeInv, NothingStranded, Recorded, OwnName
<1> QED BY <1>2, <1>4, <1>5 DEF CompositeInv

-----------------------------------------------------------------------------
(* The theorems *)

LEMMA CompositeInvariant == CSpec => []CompositeInv
<1>1. CInit => CompositeInv
  <2>1. CInit => TypeOK
    BY AvailabilityAssumption DEF CInit, Init, TypeOK, Issued
  <2> QED
    BY <2>1
    DEF CInit, Init, CompositeInv, RecordsAreGranted, Records, RecordsAreDisjoint,
        WholeUntilReleased, NothingStranded
<1>2. CompositeInv /\ [CNext]_cvars => CompositeInv'
  <2> SUFFICES ASSUME CompositeInv, [CNext]_cvars PROVE CompositeInv'
    OBVIOUS
  <2>0. TypeOK
    BY DEF CompositeInv
  <2>1. CASE UNCHANGED cvars
    <3>1. TypeOK' /\ KeepsRecords
      BY <2>0, <2>1 DEF cvars, vars, TypeOK, Issued, KeepsRecords
    <3> QED BY <2>1, <3>1, QuietStepKeepsInv DEF cvars, vars
  <2>2. ASSUME NEW k \in Composites, RegisterComposite(k) PROVE CompositeInv'
    <3>1. TypeOK' /\ KeepsRecords
      BY <2>0, <2>2 DEF RegisterComposite, vars, TypeOK, Issued, KeepsRecords
    <3> QED BY <2>2, <3>1, QuietStepKeepsInv DEF RegisterComposite, vars
  <2>3. ASSUME NEW a \in Availabilities, Register(a), UNCHANGED <<composites, enlisted>>
        PROVE  CompositeInv'
    <3>1. ElementaryStep
      BY <2>3 DEF ElementaryStep
    <3>2. TypeOK' /\ KeepsRecords
      BY <2>0, <3>1, TypeStep, ElementaryKeepsRecords
    <3> QED BY <2>3, <3>2, QuietStepKeepsInv DEF Register
  <2>4. ASSUME Tick, UNCHANGED <<composites, enlisted>> PROVE CompositeInv'
    <3>1. ElementaryStep
      BY <2>4 DEF ElementaryStep
    <3>2. TypeOK' /\ KeepsRecords
      BY <2>0, <3>1, TypeStep, ElementaryKeepsRecords
    <3> QED BY <2>4, <3>2, QuietStepKeepsInv DEF Tick
  <2>5. ASSUME NEW o \in Owners, NEW i \in held, UnlockFound(o, i),
               UNCHANGED <<composites, enlisted>>
        PROVE  CompositeInv'
    <3>1. PICK a \in FirstWithBlockade(i) : Unlock(a, o, i)
      BY <2>5 DEF UnlockFound
    <3>2. a \in Availabilities
      BY <2>0, <3>1 DEF FirstWithBlockade, FirstSuchThat, TypeOK
    <3> QED BY <2>5, <3>1, <3>2, DirectUnlockKeepsInv
  <2>6. ASSUME NEW a \in Availabilities, NEW req \in Request, Lock(a, req),
               UNCHANGED <<composites, enlisted>>
        PROVE  CompositeInv'
    <3>1. Asked(req)
      BY AvailabilityAssumption DEF Request, Asked
    <3> QED BY <2>6, <3>1, DirectLockKeepsInv
  <2>7. CASE DirectStep
    BY <2>3, <2>4, <2>5, <2>6, <2>7 DEF DirectStep
  <2>8. ASSUME NEW k \in Composites, NEW r \in CompositeRequests,
               CompositeLocks(k, r) \/ CompositeRollsBack(k, r)
        PROVE  CompositeInv'
    BY <2>8, LockKeepsInv, RollbackKeepsInv
  <2>9. ASSUME NEW k \in Composites, NEW o \in Owners, NEW rec \in composites[k],
               CompositeUnlock(k, o, rec)
        PROVE  CompositeInv'
    BY <2>9, UnlockKeepsInv
  <2> QED BY <2>1, <2>2, <2>7, <2>8, <2>9, SweepKeepsInv DEF CNext
<1> QED BY <1>1, <1>2, PTL DEF CSpec

\* While the parts of a composite lock run, no other owner, sweep or failed attempt takes
\* one of them out of it (WholeUntilReleased).
THEOREM CompositesStayWhole == CSpec => []WholeUntilReleased
<1>1. CompositeInv => WholeUntilReleased
  BY DEF CompositeInv
<1> QED BY <1>1, CompositeInvariant, PTL

\* Every blockade in an owner's own name can be given back by somebody: a refused composite
\* lock leaves none behind (NothingStranded).
THEOREM NothingIsStranded == CSpec => []NothingStranded
<1>1. CompositeInv => NothingStranded
  BY DEF CompositeInv
<1> QED BY <1>1, CompositeInvariant, PTL

-----------------------------------------------------------------------------
(* A group of slots *)

N == Len(Grouped)

\* The lock requests of block, the blockades it creates, and how many slots accept.
Ask(n, o, d) == RequestFor(Grouped[n], o, d)
Batch(o, d) == [n \in DOMAIN Grouped |-> BlockadeFor(Grouped[n], Ask(n, o, d))]
Taken(o, d) == Leading(LAMBDA n : Accepts(Grouped[n], RequestFor(Grouped[n], o, d)))
Stay(o) == [owner |-> o, ids |-> [n \in DOMAIN Grouped |-> Len(granted) + n]]

-----------------------------------------------------------------------------
(* Groups: the inductive invariant *)

\* A stay is a run of blockades of one owner, one per slot, that end together.
IsStay(s) ==
  /\ s.ids \in Seq(Nat) /\ Len(s.ids) = N
  /\ \A n \in 1..N :
       /\ s.ids[n] \in Issued /\ s.ids[n] = s.ids[1] + (n - 1)
       /\ granted[s.ids[n]].availability = Grouped[n]
       /\ granted[s.ids[n]].owner = s.owner
       /\ granted[s.ids[n]].blockedAt = granted[s.ids[1]].blockedAt
       /\ granted[s.ids[n]].duration = granted[s.ids[1]].duration
StaysAreGranted == \A s \in stays : IsStay(s)

\* Once the group was blocked, no slot can refuse a free group.
SlotsAccept == stays # {} => \A n \in 1..N : SlotsOverlap(SlotOf[Grouped[n]], SlotOf[Grouped[n]])

\* Used as a group only, the slots keep the blockades of one stay or none at all.
OneStayOrNone ==
  ~singly =>
    \/ \A n \in 1..N : blockades[Grouped[n]] = {}
    \/ \E s \in stays : \A n \in 1..N : blockades[Grouped[n]] = {s.ids[n]}

GroupInv ==
  /\ repository = Grouped
  /\ TypeOK /\ HeldIsBlocked /\ ExclusiveIsSingle
  /\ StaysAreGranted /\ SlotsAccept /\ OneStayOrNone

-----------------------------------------------------------------------------
(* The group *)

LEMMA GroupFacts ==
  /\ N \in Nat /\ N > 0 /\ DOMAIN Grouped = 1..N
  /\ \A n \in 1..N :
       /\ Grouped[n] \in Availabilities /\ Grouped[n] \in Exclusive /\ Grouped[n] \notin Pools
       /\ Kind[Grouped[n]] = "TEMPORAL"
       /\ InGroup(Grouped[n]) /\ PlaceOf(Grouped[n]) = n
  /\ \A a : InGroup(a) => PlaceOf(a) \in 1..N /\ Grouped[PlaceOf(a)] = a
<1>1. N \in Nat /\ N > 0 /\ DOMAIN Grouped = 1..N
  BY GroupedAssumption DEF N
<1>2. ASSUME NEW n \in 1..N
      PROVE  /\ Grouped[n] \in Availabilities /\ Grouped[n] \in Exclusive /\ Grouped[n] \notin Pools
             /\ Kind[Grouped[n]] = "TEMPORAL"
  BY <1>1, GroupedAssumption DEF N, Exclusive, Pools
<1>3. ASSUME NEW a, InGroup(a) PROVE PlaceOf(a) \in 1..N /\ Grouped[PlaceOf(a)] = a
  BY <1>1, <1>3 DEF InGroup, PlaceOf
<1>4. ASSUME NEW n \in 1..N PROVE InGroup(Grouped[n]) /\ PlaceOf(Grouped[n]) = n
  <2>1. InGroup(Grouped[n])
    BY <1>1 DEF InGroup
  <2>2. PlaceOf(Grouped[n]) \in 1..N /\ Grouped[PlaceOf(Grouped[n])] = Grouped[n]
    BY <1>3, <2>1
  <2> QED BY <1>1, <2>1, <2>2, GroupedAssumption
<1> QED BY <1>1, <1>2, <1>3, <1>4

\* block locks the slots before the first that refuses.
LEMMA TakenIsLeading ==
  ASSUME NEW o, NEW d
  PROVE  /\ Taken(o, d) \in 0..N
         /\ \A n \in 1..Taken(o, d) : Accepts(Grouped[n], Ask(n, o, d))
         /\ (\A n \in 1..N : Accepts(Grouped[n], Ask(n, o, d))) => Taken(o, d) = N
<1> DEFINE S == {k \in 0..N : \A n \in 1..k : Accepts(Grouped[n], Ask(n, o, d))}
<1>1. Taken(o, d) = Max(S)
  BY DEF Taken, Leading, Ask, N
<1>2. 0 \in S
  BY GroupFacts
<1>3. Max(S) \in S /\ \A k \in S : k <= Max(S)
  BY <1>2, GroupFacts, GreatestExists
<1>4. (\A n \in 1..N : Accepts(Grouped[n], Ask(n, o, d))) => N \in S
  BY GroupFacts
<1> QED BY <1>1, <1>3, <1>4, GroupFacts

\* release unlocks the slots before the first that refuses.
LEMMA FreedIsLeading ==
  ASSUME NEW o, NEW ids
  PROVE  /\ Freed(o, ids) \in 0..N
         /\ \A n \in 1..Freed(o, ids) :
              n \in DOMAIN ids /\ ids[n] \in blockades[Grouped[n]] /\ OwnedBy(ids[n], o)
         /\ (\A n \in 1..N :
               n \in DOMAIN ids /\ ids[n] \in blockades[Grouped[n]] /\ OwnedBy(ids[n], o))
              => Freed(o, ids) = N
<1> DEFINE P(n) == n \in DOMAIN ids /\ ids[n] \in blockades[Grouped[n]] /\ OwnedBy(ids[n], o)
           S == {k \in 0..N : \A n \in 1..k : P(n)}
<1>1. Freed(o, ids) = Max(S)
  BY DEF Freed, Leading, N
<1>2. 0 \in S
  BY GroupFacts
<1>3. Max(S) \in S /\ \A k \in S : k <= Max(S)
  BY <1>2, GroupFacts, GreatestExists
<1>4. (\A n \in 1..N : P(n)) => N \in S
  BY GroupFacts
<1> QED BY <1>1, <1>3, <1>4, GroupFacts

\* No slot of a free group keeps a blockade that still runs; one that refuses is
\* refused for its time slot.
LEMMA FreeGroup ==
  ASSUME TypeOK, IsEntirelyAvailable, NEW n \in 1..N
  PROVE  /\ ActiveBlockades(Grouped[n]) = {}
         /\ \A o, d : Accepts(Grouped[n], Ask(n, o, d))
                        <=> SlotsOverlap(SlotOf[Grouped[n]], SlotOf[Grouped[n]])
<1>1. ActiveBlockades(Grouped[n]) = {}
  BY GroupFacts DEF IsEntirelyAvailable, IsAvailable
<1>2. \A i \in blockades[Grouped[n]] : Expired(i)
  BY <1>1 DEF ActiveBlockades, Active, Expired, BlockadeExpired
<1> QED BY <1>1, <1>2, GroupFacts DEF Accepts, IsAvailableFor, Ask, RequestFor
-----------------------------------------------------------------------------
(* What block and release do *)

\* block either blocks every slot or leaves none of those it touched blocked.
LEMMA BlockGroupEffect ==
  ASSUME TypeOK, NEW o \in Owners, NEW d \in Durations, BlockGroup(o, d)
  PROVE  /\ IsEntirelyAvailable
         /\ UNCHANGED <<repository, withdrawn, now, singly>>
         /\ \A a \in Availabilities : ~InGroup(a) => blockades'[a] = blockades[a]
         /\ blockades' \in [Availabilities -> SUBSET Nat]
         /\ \/ /\ granted' = granted \o Batch(o, d)
               /\ \A n \in 1..N : Accepts(Grouped[n], Ask(n, o, d))
               /\ \A n \in 1..N : blockades'[Grouped[n]] = {Len(granted) + n}
               /\ held' = held \cup {Len(granted) + n : n \in 1..N}
               /\ stays' = stays \cup {Stay(o)}
            \/ /\ UNCHANGED <<granted, held, stays>>
               /\ \E n \in 1..N : ~Accepts(Grouped[n], Ask(n, o, d))
               /\ \A a \in Availabilities : blockades'[a] \in {blockades[a], {}}
<1>1. /\ IsEntirelyAvailable
      /\ UNCHANGED <<repository, withdrawn, now, singly>>
      /\ granted' = IF Taken(o, d) = N THEN granted \o Batch(o, d) ELSE granted
      /\ held' = IF Taken(o, d) = N THEN held \cup {Len(granted) + n : n \in DOMAIN Grouped} ELSE held
      /\ stays' = IF Taken(o, d) = N THEN stays \cup {Stay(o)} ELSE stays
      /\ blockades' = [a \in Availabilities |->
           IF ~InGroup(a) \/ PlaceOf(a) > Taken(o, d) THEN blockades[a]
           ELSE IF Taken(o, d) = N THEN BlockadesAfterLock(a, Len(granted) + PlaceOf(a)) ELSE {}]
  BY DEF BlockGroup, Taken, Batch, Ask, Stay, N
<1>2. Len(granted) \in Nat /\ \A a \in Availabilities : blockades[a] \subseteq Nat
  BY DEF TypeOK, Issued
<1>3. \A a \in Availabilities : ~InGroup(a) => blockades'[a] = blockades[a]
  BY <1>1
<1>4. CASE Taken(o, d) = N
  <2>1. \A n \in 1..N : Accepts(Grouped[n], Ask(n, o, d))
    BY <1>4, TakenIsLeading
  <2>2. ASSUME NEW n \in 1..N PROVE blockades'[Grouped[n]] = {Len(granted) + n}
    <3> DEFINE a == Grouped[n]
    <3>1. a \in Availabilities /\ a \notin Pools /\ InGroup(a) /\ PlaceOf(a) = n
      BY GroupFacts
    <3>2. ~(PlaceOf(a) > Taken(o, d))
      BY <1>4, <3>1, GroupFacts
    <3> HIDE DEF a
    <3>3. blockades'[a] = BlockadesAfterLock(a, Len(granted) + PlaceOf(a))
      BY <1>1, <1>4, <3>1, <3>2
    <3>4. blockades'[a] = {Len(granted) + n}
      BY <3>1, <3>3 DEF BlockadesAfterLock
    <3> QED BY <3>4 DEF a
  <2>3. ASSUME NEW a \in Availabilities PROVE blockades'[a] \in SUBSET Nat
    BY <1>2, <1>3, <2>2, GroupFacts
  <2>4. blockades' \in [Availabilities -> SUBSET Nat]
    BY <1>1, <2>3
  <2> QED BY <1>1, <1>3, <1>4, <2>1, <2>2, <2>4, GroupFacts
<1>5. CASE Taken(o, d) # N
  <2>1. \A a \in Availabilities : blockades'[a] \in {blockades[a], {}}
    BY <1>1, <1>5
  <2>2. blockades' \in [Availabilities -> SUBSET Nat]
    BY <1>1, <1>2, <2>1
  <2> QED BY <1>1, <1>3, <1>5, <2>1, <2>2, TakenIsLeading
<1> QED BY <1>4, <1>5

\* The blockades of a batch
LEMMA BatchFacts ==
  ASSUME TypeOK, NEW o \in Owners, NEW d \in Durations
  PROVE  /\ Batch(o, d) \in Seq(Blockade) /\ Len(Batch(o, d)) = N
         /\ \A n \in 1..N :
              /\ Batch(o, d)[n].availability = Grouped[n] /\ Batch(o, d)[n].owner = o
              /\ Batch(o, d)[n].blockedAt = now /\ Batch(o, d)[n].duration = d
<1>1. ASSUME NEW n \in 1..N PROVE BlockadeFor(Grouped[n], Ask(n, o, d)) \in Blockade
  <2>1. now \in Nat /\ d \in Nat
    BY AvailabilityAssumption DEF TypeOK
  <2> QED BY <2>1, GroupFacts DEF BlockadeFor, Ask, RequestFor, Blockade
<1>2. Batch(o, d) \in [1..N -> Blockade]
  BY <1>1, GroupFacts DEF Batch
<1>3. Batch(o, d) \in Seq(Blockade) /\ Len(Batch(o, d)) = N
  BY <1>2, GroupFacts
<1>4. ASSUME NEW n \in 1..N
      PROVE  /\ Batch(o, d)[n].availability = Grouped[n] /\ Batch(o, d)[n].owner = o
             /\ Batch(o, d)[n].blockedAt = now /\ Batch(o, d)[n].duration = d
  BY GroupFacts DEF Batch, BlockadeFor, Ask, RequestFor
<1> QED BY <1>3, <1>4

LEMMA BatchGranted ==
  ASSUME TypeOK, NEW o \in Owners, NEW d \in Durations, granted' = granted \o Batch(o, d)
  PROVE  /\ granted' \in Seq(Blockade) /\ Len(granted) \in Nat
         /\ Len(granted') = Len(granted) + N
         /\ \A i \in Issued : i \in Issued' /\ granted'[i] = granted[i]
         /\ \A n \in 1..N :
              /\ Len(granted) + n \in Issued' /\ Len(granted) + n \notin Issued
              /\ granted'[Len(granted) + n].availability = Grouped[n]
              /\ granted'[Len(granted) + n].owner = o
              /\ granted'[Len(granted) + n].blockedAt = now
              /\ granted'[Len(granted) + n].duration = d
<1> DEFINE bs == Batch(o, d)
<1>1. /\ bs \in Seq(Blockade) /\ Len(bs) = N
      /\ \A n \in 1..N : /\ bs[n].availability = Grouped[n] /\ bs[n].owner = o
                          /\ bs[n].blockedAt = now /\ bs[n].duration = d
  BY BatchFacts
<1>2. granted \in Seq(Blockade) /\ granted' = granted \o bs
  BY DEF TypeOK
<1> HIDE DEF bs
<1>3. /\ granted' \in Seq(Blockade) /\ Len(granted) \in Nat
      /\ Len(granted') = Len(granted) + N
      /\ \A i \in Issued : i \in Issued' /\ granted'[i] = granted[i]
      /\ \A n \in 1..N : /\ Len(granted) + n \in Issued' /\ Len(granted) + n \notin Issued
                          /\ granted'[Len(granted) + n] = bs[n]
  BY <1>1, <1>2, GrantedTogether
<1> QED BY <1>1, <1>3, ZenonT(60)

\* Blocking the whole group or rolling back keeps the types.
LEMMA BlockGroupTypes ==
  ASSUME TypeOK, NEW o \in Owners, NEW d \in Durations, BlockGroup(o, d)
  PROVE  TypeOK'
<1>1. /\ repository' \in Seq(Availabilities) /\ withdrawn' \in [Availabilities -> Nat] /\ now' \in Nat
  BY BlockGroupEffect DEF TypeOK
<1>2. CASE granted' = granted \o Batch(o, d)
  <2>1. /\ granted' \in Seq(Blockade) /\ Len(granted') = Len(granted) + N
        /\ \A i \in Issued : i \in Issued' /\ granted'[i] = granted[i]
        /\ \A n \in 1..N : /\ Len(granted) + n \in Issued'
                            /\ granted'[Len(granted) + n].availability = Grouped[n]
    BY <1>2, BatchGranted
  <2>2. /\ \A n \in 1..N : blockades'[Grouped[n]] = {Len(granted) + n}
        /\ held' = held \cup {Len(granted) + n : n \in 1..N}
    <3>1. granted' # granted
      BY <2>1, GroupFacts DEF TypeOK
    <3> QED BY <3>1, BlockGroupEffect
  <2>3. held' \subseteq Issued'
    BY <2>1, <2>2 DEF TypeOK
  <2>4. ASSUME NEW a \in Availabilities, NEW i \in blockades'[a]
        PROVE  i \in Issued' /\ granted'[i].availability = a
    <3>1. CASE InGroup(a)
      BY <2>1, <2>2, <2>4, <3>1, GroupFacts
    <3>2. CASE ~InGroup(a)
      <4>1. i \in blockades[a]
        BY <2>4, <3>2, BlockGroupEffect
      <4> QED BY <2>1, <4>1 DEF TypeOK
    <3> QED BY <3>1, <3>2
  <2>5. blockades' \in [Availabilities -> SUBSET Issued']
    BY <2>4, BlockGroupEffect
  <2> QED BY <1>1, <2>1, <2>3, <2>4, <2>5 DEF TypeOK
<1>3. CASE granted' = granted
  <2>1. /\ \A a \in Availabilities : blockades'[a] \in {blockades[a], {}}
        /\ held' = held
    <3>1. granted' # granted \o Batch(o, d)
      BY <1>3, BatchFacts, GroupFacts DEF TypeOK
    <3> QED BY <3>1, BlockGroupEffect
  <2>2. blockades' \in [Availabilities -> SUBSET Issued']
    BY <1>3, <2>1, BlockGroupEffect DEF TypeOK, Issued
  <2> QED BY <1>1, <1>3, <2>1, <2>2 DEF TypeOK, Issued
<1> QED BY <1>2, <1>3, BlockGroupEffect

-----------------------------------------------------------------------------
(* Every step keeps the invariant *)

\* block only takes slots that are free, so nothing held is lost.
LEMMA BlockGroupKeepsHeld ==
  ASSUME TypeOK, HeldIsBlocked, NEW o \in Owners, NEW d \in Durations, BlockGroup(o, d)
  PROVE  HeldIsBlocked'
<1> SUFFICES ASSUME NEW i \in held', Active(i)', ~Superseded(i)'
             PROVE  i \in blockades'[granted'[i].availability]
  BY DEF HeldIsBlocked
<1>1. /\ now' = now
      /\ \A j \in Issued : j \in Issued' /\ granted'[j] = granted[j]
  <2>1. granted' = granted => \A j \in Issued : j \in Issued' /\ granted'[j] = granted[j]
    BY DEF Issued
  <2> QED BY <2>1, BatchGranted, BlockGroupEffect
<1>2. ASSUME i \in held
      PROVE  i \in blockades'[granted'[i].availability]
  <2>1. i \in Issued /\ granted'[i] = granted[i]
    BY <1>1, <1>2 DEF TypeOK
  <2>2. ~Superseded(i)
    BY <1>1, <2>1 DEF Superseded
  <2>3. Active(i)
    BY <1>1, <2>1 DEF Active
  <2>4. i \in blockades[granted[i].availability] /\ granted[i].availability \in Availabilities
    <3>1. granted[i] \in Blockade
      BY <2>1 DEF TypeOK, Issued
    <3> QED BY <1>2, <2>2, <2>3, <3>1 DEF HeldIsBlocked, Blockade
  <2>5. ~InGroup(granted[i].availability)
    <3>1. ASSUME InGroup(granted[i].availability) PROVE FALSE
      <4>1. ActiveBlockades(granted[i].availability) = {}
        BY <3>1, GroupFacts, BlockGroupEffect, FreeGroup
      <4> QED BY <2>3, <2>4, <4>1 DEF ActiveBlockades
    <3> QED BY <3>1
  <2> QED BY <2>1, <2>4, <2>5, BlockGroupEffect
<1>3. ASSUME i \notin held
      PROVE  i \in blockades'[granted'[i].availability]
  <2>1. PICK n \in 1..N : i = Len(granted) + n
    BY <1>3, BlockGroupEffect
  <2>2. granted' = granted \o Batch(o, d) /\ blockades'[Grouped[n]] = {i}
    BY <1>3, <2>1, BlockGroupEffect
  <2>3. granted'[i].availability = Grouped[n]
    BY <2>1, <2>2, BatchGranted
  <2> QED BY <2>2, <2>3
<1> QED BY <1>2, <1>3

\* A stay stays one when more is granted.
LEMMA StaysLast ==
  ASSUME NEW s, IsStay(s), \A i \in Issued : i \in Issued' /\ granted'[i] = granted[i]
  PROVE  IsStay(s)'
<1>1. 1 \in 1..N
  BY GroupFacts
<1>2. ASSUME NEW n \in 1..N
      PROVE  /\ s.ids[n] \in Issued' /\ s.ids[n] = s.ids[1] + (n - 1)
             /\ granted'[s.ids[n]] = granted[s.ids[n]] /\ granted'[s.ids[1]] = granted[s.ids[1]]
  BY <1>1 DEF IsStay
<1> QED BY <1>2, ZenonT(60) DEF IsStay, N

LEMMA BlockGroupKeepsStays ==
  ASSUME GroupInv, NEW o \in Owners, NEW d \in Durations, BlockGroup(o, d)
  PROVE  StaysAreGranted' /\ SlotsAccept' /\ OneStayOrNone'
<1>0. TypeOK /\ IsEntirelyAvailable /\ singly' = singly
  BY BlockGroupEffect DEF GroupInv
<1>1. CASE /\ granted' = granted \o Batch(o, d)
           /\ \A n \in 1..N : Accepts(Grouped[n], Ask(n, o, d))
           /\ \A n \in 1..N : blockades'[Grouped[n]] = {Len(granted) + n}
           /\ stays' = stays \cup {Stay(o)}
  <2>1. /\ Len(granted) \in Nat
        /\ \A i \in Issued : i \in Issued' /\ granted'[i] = granted[i]
        /\ \A n \in 1..N :
             /\ Len(granted) + n \in Issued'
             /\ granted'[Len(granted) + n].availability = Grouped[n]
             /\ granted'[Len(granted) + n].owner = o
             /\ granted'[Len(granted) + n].blockedAt = now
             /\ granted'[Len(granted) + n].duration = d
    <3>1. TypeOK /\ granted' = granted \o Batch(o, d)
      BY <1>0, <1>1
    <3>2. /\ granted' \in Seq(Blockade) /\ Len(granted) \in Nat
          /\ Len(granted') = Len(granted) + N
          /\ \A i \in Issued : i \in Issued' /\ granted'[i] = granted[i]
          /\ \A n \in 1..N :
               /\ Len(granted) + n \in Issued' /\ Len(granted) + n \notin Issued
               /\ granted'[Len(granted) + n].availability = Grouped[n]
               /\ granted'[Len(granted) + n].owner = o
               /\ granted'[Len(granted) + n].blockedAt = now
               /\ granted'[Len(granted) + n].duration = d
      BY <3>1, BatchGranted
    <3> QED BY <3>2
  <2>2. /\ Stay(o).owner = o /\ Stay(o).ids \in Seq(Nat) /\ Len(Stay(o).ids) = N
        /\ \A n \in 1..N : Stay(o).ids[n] = Len(granted) + n
    <3>1. Stay(o).ids \in [1..N -> Nat]
      BY <2>1, GroupFacts DEF Stay
    <3> QED BY <3>1, GroupFacts DEF Stay
  <2>3. ASSUME NEW s, s = Stay(o) PROVE IsStay(s)'
    <3>1. 1 \in 1..N
      BY GroupFacts
    <3>2. /\ s.owner = o /\ s.ids \in Seq(Nat) /\ Len(s.ids) = N
          /\ \A n \in 1..N : s.ids[n] = Len(granted) + n
      BY <2>2, <2>3
    <3>3. ASSUME NEW n \in 1..N
          PROVE  /\ s.ids[n] \in Issued' /\ s.ids[n] = s.ids[1] + (n - 1)
                 /\ granted'[s.ids[n]].availability = Grouped[n]
                 /\ granted'[s.ids[n]].owner = s.owner
                 /\ granted'[s.ids[n]].blockedAt = granted'[s.ids[1]].blockedAt
                 /\ granted'[s.ids[n]].duration = granted'[s.ids[1]].duration
      <4>1. s.ids[n] = Len(granted) + n /\ s.ids[1] = Len(granted) + 1
        BY <3>1, <3>2
      <4>2. granted'[Len(granted) + 1].blockedAt = now /\ granted'[Len(granted) + 1].duration = d
        BY <2>1, <3>1
      <4>3. /\ Len(granted) + n \in Issued'
            /\ granted'[Len(granted) + n].availability = Grouped[n]
            /\ granted'[Len(granted) + n].owner = o
            /\ granted'[Len(granted) + n].blockedAt = now
            /\ granted'[Len(granted) + n].duration = d
        BY <2>1
      <4>4. s.ids[n] = s.ids[1] + (n - 1)
        BY <2>1, <4>1, GroupFacts
      <4> QED BY <3>2, <4>1, <4>2, <4>3, <4>4
    <3> QED BY <3>2, <3>3 DEF IsStay, N
  <2>6. StaysAreGranted'
    <3>1. \A s \in stays : IsStay(s)'
      BY <2>1, StaysLast DEF GroupInv, StaysAreGranted
    <3> QED BY <1>1, <2>3, <3>1 DEF StaysAreGranted
  <2>4. SlotsAccept'
    BY <1>0, <1>1, FreeGroup DEF SlotsAccept, N
  <2>5. OneStayOrNone'
    <3>1. Stay(o) \in stays' /\ \A n \in 1..N : blockades'[Grouped[n]] = {Stay(o).ids[n]}
      BY <1>1, <2>2
    <3> QED BY <3>1 DEF OneStayOrNone, N
  <2> QED BY <2>4, <2>5, <2>6
<1>2. CASE /\ UNCHANGED <<granted, held, stays>>
           /\ \E n \in 1..N : ~Accepts(Grouped[n], Ask(n, o, d))
           /\ \A a \in Availabilities : blockades'[a] \in {blockades[a], {}}
  <2>1. StaysAreGranted' /\ SlotsAccept'
    <3>1. \A i \in Issued : i \in Issued' /\ granted'[i] = granted[i]
      BY <1>2 DEF Issued
    <3>2. \A s \in stays : IsStay(s)'
      BY <3>1, StaysLast DEF GroupInv, StaysAreGranted
    <3> QED BY <1>2, <3>2 DEF GroupInv, StaysAreGranted, SlotsAccept, N
  <2>2. stays = {}
    BY <1>0, <1>2, FreeGroup DEF GroupInv, SlotsAccept
  <2>3. OneStayOrNone'
    BY <1>0, <1>2, <2>2, GroupFacts DEF GroupInv, OneStayOrNone, N
  <2> QED BY <2>1, <2>3
<1> QED BY <1>0, <1>1, <1>2, BlockGroupEffect

LEMMA BlockGroupKeepsInv ==
  ASSUME GroupInv, NEW o \in Owners, NEW d \in Durations, BlockGroup(o, d)
  PROVE  GroupInv'
<1>1. TypeOK' /\ HeldIsBlocked'
  BY BlockGroupTypes, BlockGroupKeepsHeld DEF GroupInv
<1>2. ExclusiveIsSingle'
  <2> SUFFICES ASSUME NEW a \in Exclusive, NEW i \in blockades'[a], NEW j \in blockades'[a]
               PROVE  i = j
    BY DEF ExclusiveIsSingle, Exclusive
  <2>1. a \in Availabilities /\ TypeOK /\ \A x, y \in blockades[a] : x = y
    BY DEF GroupInv, ExclusiveIsSingle, Exclusive
  <2>2. blockades'[a] = blockades[a] \/ blockades'[a] = {}
          \/ \E n \in 1..N : blockades'[a] = {Len(granted) + n}
    <3>1. CASE ~InGroup(a)
      BY <2>1, <3>1, BlockGroupEffect
    <3>2. CASE InGroup(a)
      <4>1. PICK n \in 1..N : a = Grouped[n]
        BY <3>2, GroupFacts
      <4> QED BY <2>1, <4>1, BlockGroupEffect
    <3> QED BY <3>1, <3>2
  <2> QED BY <2>1, <2>2
<1> QED BY <1>1, <1>2, BlockGroupKeepsStays, BlockGroupEffect DEF GroupInv

\* release stops at the first slot that refuses, but nothing that is held stays
\* behind without its blockade.
LEMMA ReleaseGroupEffect ==
  ASSUME TypeOK, ExclusiveIsSingle, NEW o, NEW ids, ReleaseGroup(o, ids)
  PROVE  /\ UNCHANGED <<repository, withdrawn, now, granted, stays, singly>>
         /\ blockades' \in [Availabilities -> SUBSET Issued]
         /\ \A a \in Availabilities : blockades'[a] \subseteq blockades[a]
         /\ held' \subseteq held
         /\ \A a \in Availabilities : \A i \in blockades[a] \cap held' : i \in blockades'[a]
<1>1. /\ UNCHANGED <<repository, withdrawn, now, granted, stays, singly>>
      /\ held' = held \ {ids[n] : n \in 1..Freed(o, ids)}
      /\ blockades' = [a \in Availabilities |->
           IF InGroup(a) /\ PlaceOf(a) <= Freed(o, ids) THEN {} ELSE blockades[a]]
  BY DEF ReleaseGroup
<1>2. \A a \in Availabilities : blockades'[a] \in {{}, blockades[a]}
  BY <1>1
<1>3. blockades' \in [Availabilities -> SUBSET Issued]
  BY <1>1, <1>2 DEF TypeOK
<1>4. ASSUME NEW a \in Availabilities, NEW i \in blockades[a] \cap held' PROVE i \in blockades'[a]
  <2>1. CASE InGroup(a) /\ PlaceOf(a) <= Freed(o, ids)
    <3>1. PlaceOf(a) \in 1..N /\ Grouped[PlaceOf(a)] = a /\ a \in Exclusive
      BY <2>1, GroupFacts
    <3>2. PlaceOf(a) \in 1..Freed(o, ids)
      BY <2>1, <3>1, FreedIsLeading
    <3>3. ids[PlaceOf(a)] \in blockades[a]
      BY <3>1, <3>2, FreedIsLeading
    <3>4. ids[PlaceOf(a)] = i
      BY <3>1, <3>3 DEF ExclusiveIsSingle
    <3> QED BY <1>1, <3>2, <3>4
  <2>2. CASE ~(InGroup(a) /\ PlaceOf(a) <= Freed(o, ids))
    BY <1>1, <2>2
  <2> QED BY <2>1, <2>2
<1> QED BY <1>1, <1>2, <1>3, <1>4

\* What callers hand back
IsPartOf(ids, s, k) == ids = SubSeq(s.ids, 1, k)

\* The part of a stay that ReleaseGroup accepts is the whole of it.
LEMMA ReleaseIsWhole ==
  ASSUME StaysAreGranted, NEW o, NEW s \in stays, NEW k \in DOMAIN s.ids,
         NEW ids, IsPartOf(ids, s, k), ReleaseGroup(o, ids)
  PROVE  DOMAIN ids = 1..N /\ \A n \in 1..N : ids[n] = s.ids[n]
<1>1. s.ids \in Seq(Nat) /\ Len(s.ids) = N /\ k \in 1..N
  BY DEF StaysAreGranted, IsStay
<1>2. Len(ids) = N
  BY DEF ReleaseGroup, N
<1> QED BY <1>1, <1>2 DEF IsPartOf

\* The owner of the stay that the slots keep, and nobody else, releases all of it.
LEMMA ReleaseKeepsOneStay ==
  ASSUME TypeOK, ExclusiveIsSingle, StaysAreGranted, OneStayOrNone,
         NEW o, NEW s \in stays, NEW k \in DOMAIN s.ids,
         NEW ids, IsPartOf(ids, s, k), ReleaseGroup(o, ids)
  PROVE  OneStayOrNone'
<1>1. /\ UNCHANGED <<stays, singly>>
      /\ \A a \in Availabilities : blockades'[a] \subseteq blockades[a]
  BY ReleaseGroupEffect
<1>2. DOMAIN ids = 1..N /\ \A n \in 1..N : ids[n] = s.ids[n]
  BY ReleaseIsWhole
<1>3. /\ Freed(o, ids) \in 1..N
      /\ \A n \in 1..Freed(o, ids) :
           n \in DOMAIN ids /\ ids[n] \in blockades[Grouped[n]] /\ OwnedBy(ids[n], o)
      /\ (\A n \in 1..N :
            n \in DOMAIN ids /\ ids[n] \in blockades[Grouped[n]] /\ OwnedBy(ids[n], o))
           => Freed(o, ids) = N
  <2>1. Freed(o, ids) > 0
    BY DEF ReleaseGroup
  <2> QED BY <2>1, FreedIsLeading, GroupFacts
<1>4. 1 \in 1..N /\ 1 \in 1..Freed(o, ids)
  BY <1>3, GroupFacts
<1>5. s.ids[1] \in blockades[Grouped[1]] /\ OwnedBy(s.ids[1], o)
  BY <1>2, <1>3, <1>4
<1>6. CASE singly
  BY <1>1, <1>6 DEF OneStayOrNone
<1>7. CASE \A n \in 1..N : blockades[Grouped[n]] = {}
  BY <1>4, <1>5, <1>7
<1>8. ASSUME NEW t \in stays, \A n \in 1..N : blockades[Grouped[n]] = {t.ids[n]}
      PROVE  OneStayOrNone'
  <2>1. s.ids[1] = t.ids[1]
    BY <1>4, <1>5, <1>8
  <2>2. ASSUME NEW n \in 1..N PROVE s.ids[n] = t.ids[n] /\ OwnedBy(s.ids[n], o)
    <3>1. s.ids[n] = s.ids[1] + (n - 1) /\ t.ids[n] = t.ids[1] + (n - 1)
      BY DEF StaysAreGranted, IsStay
    <3>2. granted[s.ids[n]].owner = s.owner /\ granted[s.ids[1]].owner = s.owner
      BY <1>4 DEF StaysAreGranted, IsStay
    <3> QED BY <1>5, <2>1, <3>1, <3>2 DEF OwnedBy, BlockadeOwnedBy
  <2>3. \A n \in 1..N :
          n \in DOMAIN ids /\ ids[n] \in blockades[Grouped[n]] /\ OwnedBy(ids[n], o)
    BY <1>2, <1>8, <2>2
  <2>4. Freed(o, ids) = N
    BY <1>3, <2>3
  <2>5. \A n \in 1..N : blockades'[Grouped[n]] = {}
    BY <2>4, GroupFacts DEF ReleaseGroup
  <2> QED BY <2>5 DEF OneStayOrNone, N
<1> QED BY <1>6, <1>7, <1>8 DEF OneStayOrNone

LEMMA ReleaseGroupKeepsInv ==
  ASSUME GroupInv, NEW o, NEW s \in stays, NEW k \in DOMAIN s.ids,
         NEW ids, IsPartOf(ids, s, k), ReleaseGroup(o, ids)
  PROVE  GroupInv'
<1> USE DEF GroupInv
<1>1. /\ UNCHANGED <<repository, withdrawn, now, granted, stays, singly>>
      /\ blockades' \in [Availabilities -> SUBSET Issued]
      /\ \A a \in Availabilities : blockades'[a] \subseteq blockades[a]
      /\ held' \subseteq held
      /\ \A a \in Availabilities : \A i \in blockades[a] \cap held' : i \in blockades'[a]
  BY ReleaseGroupEffect
<1>2. TypeOK'
  BY <1>1 DEF TypeOK, Issued
<1>3. HeldIsBlocked'
  <2> SUFFICES ASSUME NEW i \in held', Active(i)', ~Superseded(i)'
               PROVE  i \in blockades'[granted'[i].availability]
    BY DEF HeldIsBlocked
  <2>1. i \in held /\ Active(i) /\ ~Superseded(i)
    BY <1>1 DEF Active, Superseded, Issued
  <2>2. granted[i] \in Blockade
    BY <2>1 DEF TypeOK, Issued
  <2> QED BY <1>1, <2>1, <2>2 DEF HeldIsBlocked, Blockade
<1>4. ExclusiveIsSingle'
  BY <1>1 DEF ExclusiveIsSingle, Exclusive
<1>5. StaysAreGranted' /\ SlotsAccept'
  BY <1>1 DEF StaysAreGranted, IsStay, SlotsAccept, Issued, N
<1>6. OneStayOrNone'
  BY ReleaseKeepsOneStay
<1> QED BY <1>1, <1>2, <1>3, <1>4, <1>5, <1>6

\* Steps on single slots, sweeps and the clock
LEMMA ElementaryKeepsInv ==
  ASSUME GroupInv, ElementaryStep, UNCHANGED <<repository, stays>>,
         \/ singly' = TRUE
         \/ UNCHANGED singly /\ (ReleaseExpired \/ Tick)
  PROVE  GroupInv'
<1> USE DEF GroupInv
<1>1. TypeOK' /\ HeldIsBlocked' /\ ExclusiveIsSingle'
  BY TypeStep, HeldStep, SingleStep
<1>2. StaysAreGranted' /\ SlotsAccept'
  <2>1. \A i \in Issued : i \in Issued' /\ granted'[i] = granted[i]
    BY GrantedIsStable
  <2>2. \A s \in stays : IsStay(s)'
    BY <2>1, StaysLast DEF StaysAreGranted
  <2> QED BY <2>2 DEF StaysAreGranted, SlotsAccept, N
<1>3. OneStayOrNone'
  <2>1. CASE singly' = TRUE
    BY <2>1 DEF OneStayOrNone
  <2>2. CASE UNCHANGED singly /\ Tick
    BY <2>2 DEF OneStayOrNone, Tick, N
  <2>3. CASE UNCHANGED singly /\ ReleaseExpired
    <3>1. ASSUME NEW n \in 1..N PROVE blockades'[Grouped[n]] = ActiveBlockades(Grouped[n])
      BY <2>3, GroupFacts DEF ReleaseExpired, Registered, N
    <3>2. CASE \A n \in 1..N : blockades[Grouped[n]] = {}
      BY <3>1, <3>2 DEF OneStayOrNone, ActiveBlockades, N
    <3>3. ASSUME NEW s \in stays, \A n \in 1..N : blockades[Grouped[n]] = {s.ids[n]}
          PROVE  OneStayOrNone'
      <4>1. \A n \in 1..N : Active(s.ids[n]) <=> Active(s.ids[1])
        BY DEF StaysAreGranted, IsStay, Active, BlockadeActive
      <4>2. CASE Active(s.ids[1])
        BY <3>1, <3>3, <4>1, <4>2 DEF OneStayOrNone, ActiveBlockades, N
      <4>3. CASE ~Active(s.ids[1])
        BY <3>1, <3>3, <4>1, <4>3, SMTT(60) DEF OneStayOrNone, ActiveBlockades, N
      <4> QED BY <4>2, <4>3
    <3> QED BY <2>3, <3>2, <3>3 DEF OneStayOrNone, N
  <2> QED BY <2>1, <2>2, <2>3
<1> QED BY <1>1, <1>2, <1>3

-----------------------------------------------------------------------------
(* Stays are whole *)

LEMMA GroupNextKeepsInv ==
  ASSUME GroupInv, TNext
  PROVE  GroupInv'
<1>1. ASSUME NEW n \in DOMAIN Grouped, NEW o \in Owners, NEW d \in Durations,
             Lock(Grouped[n], Ask(n, o, d))
      PROVE  ElementaryStep /\ repository' = repository
  <2>1. Asked(Ask(n, o, d))
    BY AvailabilityAssumption DEF Asked, Ask, RequestFor
  <2> QED BY <1>1, <2>1, GroupFacts DEF ElementaryStep, Lock
<1>2. ASSUME NEW o \in Owners, NEW i \in held, UnlockFound(o, i)
      PROVE  ElementaryStep /\ repository' = repository
  <2>1. PICK a \in FirstWithBlockade(i) : Unlock(a, o, i)
    BY <1>2 DEF UnlockFound
  <2>2. a \in Availabilities /\ i \in Issued
    BY <2>1 DEF FirstWithBlockade, FirstSuchThat, GroupInv, TypeOK
  <2> QED BY <2>1, <2>2 DEF ElementaryStep, Unlock
<1>3. CASE SingleSlot
  <2>1. ElementaryStep /\ repository' = repository /\ stays' = stays /\ singly' = TRUE
    BY <1>1, <1>2, <1>3 DEF SingleSlot, Ask
  <2> QED BY <2>1, ElementaryKeepsInv
<1>4. CASE (ReleaseExpired \/ Tick) /\ UNCHANGED <<stays, singly>>
  <2>1. ElementaryStep /\ repository' = repository
    BY <1>4 DEF ElementaryStep, ReleaseExpired, Tick
  <2> QED BY <1>4, <2>1, ElementaryKeepsInv
<1>5. ASSUME NEW o \in Owners, NEW s \in stays, NEW n \in DOMAIN s.ids,
             ReleaseGroup(o, SubSeq(s.ids, 1, n))
      PROVE  GroupInv'
  <2>1. PICK ids : IsPartOf(ids, s, n) /\ ReleaseGroup(o, ids)
    BY <1>5 DEF IsPartOf
  <2> QED BY <2>1, ReleaseGroupKeepsInv
<1> QED BY <1>3, <1>4, <1>5, BlockGroupKeepsInv DEF TNext

\* A stay whose owner gave nothing back keeps all of its slots while it runs, and as
\* long as callers use the group alone its slots have one holder or none, although
\* release stops in the middle when a slot refuses (StaysAreWhole).
THEOREM StaysRemainWhole == TSpec => []StaysAreWhole
<1>1. TInit => GroupInv
  <2> SUFFICES ASSUME TInit PROVE GroupInv
    OBVIOUS
  <2>1. TypeOK
    BY GroupedAssumption DEF TInit, TypeOK, Issued
  <2> QED
    BY <2>1, GroupFacts
    DEF TInit, GroupInv, HeldIsBlocked, ExclusiveIsSingle, Exclusive, StaysAreGranted,
        SlotsAccept, OneStayOrNone
<1>2. GroupInv /\ [TNext]_tvars => GroupInv'
  <2>1. ASSUME GroupInv, UNCHANGED tvars PROVE GroupInv'
    <3>1. UNCHANGED <<repository, blockades, withdrawn, now, granted, held, stays, singly>>
      BY <2>1 DEF tvars, vars
    <3>2. TypeOK' /\ HeldIsBlocked' /\ ExclusiveIsSingle'
      BY <2>1, <3>1 DEF GroupInv, TypeOK, Issued, HeldIsBlocked, Superseded, Active,
                        ExclusiveIsSingle, Exclusive
    <3>3. StaysAreGranted' /\ SlotsAccept' /\ OneStayOrNone'
      BY <2>1, <3>1 DEF GroupInv, StaysAreGranted, IsStay, Issued, SlotsAccept, OneStayOrNone, N
    <3> QED BY <2>1, <3>1, <3>2, <3>3 DEF GroupInv
  <2> QED BY <2>1, GroupNextKeepsInv
<1>3. GroupInv => StaysAreWhole
  <2> SUFFICES ASSUME GroupInv PROVE StaysAreWhole
    OBVIOUS
  <2> USE DEF GroupInv
  <2>1. ASSUME NEW s \in stays,
               \A n \in DOMAIN s.ids : s.ids[n] \in held /\ Active(s.ids[n]) /\ ~Superseded(s.ids[n])
        PROVE  BlockedEntirelyBy(s.owner) /\ ~IsEntirelyAvailable
    <3>1. DOMAIN s.ids = 1..N
      BY DEF StaysAreGranted, IsStay
    <3>2. ASSUME NEW n \in 1..N
          PROVE  blockades[Grouped[n]] = {s.ids[n]} /\ granted[s.ids[n]].owner = s.owner
      <4>1. s.ids[n] \in blockades[Grouped[n]] /\ granted[s.ids[n]].owner = s.owner
        BY <2>1, <3>1 DEF HeldIsBlocked, StaysAreGranted, IsStay
      <4> QED BY <4>1, GroupFacts DEF ExclusiveIsSingle
    <3>3. BlockedEntirelyBy(s.owner)
      BY <3>2, GroupFacts DEF BlockedEntirelyBy, BlockedBy
    <3>4. 1 \in 1..N /\ s.ids[1] \in ActiveBlockades(Grouped[1])
      BY <2>1, <3>1, <3>2, GroupFacts DEF ActiveBlockades
    <3> QED BY <3>3, <3>4, FreeGroup
  <2>2. ASSUME ~singly, NEW m \in DOMAIN Grouped, NEW n \in DOMAIN Grouped
        PROVE  BlockedBy(Grouped[m]) = BlockedBy(Grouped[n])
    <3>1. m \in 1..N /\ n \in 1..N
      BY GroupFacts
    <3>2. CASE \A k \in 1..N : blockades[Grouped[k]] = {}
      BY <3>1, <3>2 DEF BlockedBy
    <3>3. ASSUME NEW s \in stays, \A k \in 1..N : blockades[Grouped[k]] = {s.ids[k]}
          PROVE  BlockedBy(Grouped[m]) = BlockedBy(Grouped[n])
      <4>1. \A k \in 1..N : granted[s.ids[k]].owner = s.owner
        BY DEF StaysAreGranted, IsStay
      <4> QED BY <3>1, <3>3, <4>1 DEF BlockedBy
    <3> QED BY <2>2, <3>2, <3>3 DEF OneStayOrNone
  <2> QED BY <2>1, <2>2 DEF StaysAreWhole
<1> QED BY <1>1, <1>2, <1>3, PTL DEF TSpec

-----------------------------------------------------------------------------
(* Reservations: the inductive invariant *)

ReservationType ==
  [owner : Owners, status : {"CONFIRMED", "CANCELLED"}, blockadeIds : SUBSET Nat]

\* The blockades of a reservation were granted to its owner and never run out.
BlockadesGranted ==
  \A n \in ReservationIds : \A i \in reservations[n].blockadeIds :
    /\ i \in Issued
    /\ granted[i].owner = reservations[n].owner
    /\ granted[i].duration = Indefinite

\* No two reservations share a blockade.
ReservationsDisjoint ==
  \A m, n \in ReservationIds : \A i \in reservations[m].blockadeIds :
    i \in reservations[n].blockadeIds => m = n

OnlyRegisteredBlocked == \A a \in Availabilities : blockades[a] # {} => a \in Registered

ReservationInv ==
  /\ TypeOK
  /\ reservations \in Seq(ReservationType)
  /\ OnlyRegisteredBlocked /\ BlockadesGranted /\ ReservationsDisjoint
  /\ ConfirmedKeepsItsBlockades /\ NoStrandedBlockade

-----------------------------------------------------------------------------
(* The requests that a booking makes *)

\* All are in the name of the customer and indefinite, and several of them are about
\* temporal availabilities.
IsAsking(asks, req) ==
  /\ Len(asks) \in Nat
  /\ \A n \in 1..Len(asks) :
       /\ asks[n].owner = req.owner /\ asks[n].quantity \in Nat
       /\ asks[n].duration = Indefinite
  /\ Len(asks) = 1 \/ \A n \in 1..Len(asks) : asks[n].type = "TEMPORAL"

LEMMA RequestsAreAsked ==
  ASSUME NEW req \in ReserveRequests, NEW r
  PROVE  IsAsking(LockRequests(req, r), req)
<1> DEFINE any == CHOOSE s \in Slots : TRUE
           asked(type, slot) ==
             [type |-> type, resourceId |-> r, slot |-> slot, owner |-> req.owner,
              quantity |-> req.quantity, duration |-> Indefinite]
<1>1. /\ req.type \in {"TEMPORAL", "INDIVIDUAL", "QUANTITY"}
      /\ req.slots \in Seq(Slots) /\ req.quantity \in Nat
  BY ReservationAssumption
<1>2. CASE req.type = "TEMPORAL"
  <2> DEFINE k == Len(req.slots)
             asks == [n \in 1..k |-> asked("TEMPORAL", req.slots[n])]
  <2>1. LockRequests(req, r) = asks
    BY <1>2 DEF LockRequests
  <2>2. k \in Nat
    BY <1>1
  <2>3. Len(asks) = k
    <3> DEFINE S == {asked("TEMPORAL", req.slots[n]) : n \in 1..k}
    <3>1. asks \in [1..k -> S]
      OBVIOUS
    <3> HIDE DEF asks, S, k
    <3> QED BY <2>2, <3>1
  <2>4. \A n \in 1..k : asks[n] = asked("TEMPORAL", req.slots[n])
    OBVIOUS
  <2> HIDE DEF k, asks
  <2> QED BY <1>1, <2>1, <2>2, <2>3, <2>4 DEF IsAsking
<1>3. ASSUME NEW type, LockRequests(req, r) = <<asked(type, any)>>
      PROVE  IsAsking(LockRequests(req, r), req)
  <2> DEFINE x == asked(type, any)
  <2>1. x.owner = req.owner /\ x.quantity = req.quantity /\ x.duration = Indefinite
    OBVIOUS
  <2> HIDE DEF x
  <2>2. Len(<<x>>) = 1 /\ \A n \in 1..1 : <<x>>[n] = x
    OBVIOUS
  <2>3. LockRequests(req, r) = <<x>>
    BY <1>3 DEF x
  <2> QED BY <1>1, <2>1, <2>2, <2>3 DEF IsAsking
<1>4. CASE req.type = "INDIVIDUAL"
  <2>1. LockRequests(req, r) = <<asked("INDIVIDUAL", any)>>
    BY <1>4 DEF LockRequests
  <2> QED BY <1>3, <2>1
<1>5. CASE req.type = "QUANTITY"
  <2>1. LockRequests(req, r) = <<asked("POOL", any)>>
    BY <1>5 DEF LockRequests
  <2> QED BY <1>3, <2>1
<1> QED BY <1>1, <1>2, <1>4, <1>5

\* lockTemporal, lockIndividual and lockPool find one availability at most, so the
\* one that accepts is the one that is locked.
LEMMA TargetAccepts ==
  ASSUME TypeOK, NEW ask, Obtainable(ask)
  PROVE  /\ TargetOf(ask) \in Registered /\ TargetOf(ask) \in Availabilities
         /\ Accepts(TargetOf(ask), ask)
<1>1. PICK W : TargetsOf(ask) = FirstOf(W)
  <2>1. CASE ask.type = "TEMPORAL"
    <3>1. FirstOfSlot(ask.resourceId, ask.slot) = FirstOf(AtSlot(ask.resourceId, ask.slot))
      BY LookupsAreFirst
    <3> QED BY <2>1, <3>1 DEF TargetsOf
  <2>2. CASE ask.type # "TEMPORAL"
    BY <2>2, LookupsAreFirst DEF TargetsOf
  <2> QED BY <2>1, <2>2
<1>2. PICK a \in TargetsOf(ask) : Accepts(a, ask)
  BY DEF Obtainable
<1>3. TargetOf(ask) \in TargetsOf(ask)
  BY <1>2 DEF TargetOf
<1>4. TargetOf(ask) = a
  BY <1>1, <1>2, <1>3, FirstIsOne
<1>5. a \in Registered
  BY <1>1, <1>2 DEF FirstOf, Registered
<1>6. Registered \subseteq Availabilities
  BY DEF TypeOK, Registered
<1> QED BY <1>2, <1>4, <1>5, <1>6

\* What the first m requests obtain
LEMMA LeadingObtain ==
  ASSUME NEW asks, Len(asks) \in Nat
  PROVE  /\ LockedInTurn(asks) \in 0..Len(asks)
         /\ \A n \in 1..LockedInTurn(asks) : Obtainable(asks[n])
<1> DEFINE S == {m \in 0..Len(asks) : \A n \in 1..m : Obtainable(asks[n])}
<1>1. LockedInTurn(asks) = Max(S)
  BY DEF LockedInTurn
<1>2. 0 \in S
  OBVIOUS
<1>3. Max(S) \in S
  BY <1>2, GreatestExists
<1> QED BY <1>1, <1>3

\* The blockades granted to a booking, those rolled back included
Booked(asks, m) == [n \in 1..m |-> BlockadeFor(TargetOf(asks[n]), asks[n])]
Obtained(asks, m) == m \in 0..Len(asks) /\ \A n \in 1..m : Obtainable(asks[n])

LEMMA BookingGrants ==
  ASSUME TypeOK, NEW req \in ReserveRequests, NEW asks, IsAsking(asks, req),
         NEW m, Obtained(asks, m), GrantUpTo(asks, m)
  PROVE  /\ m \in Nat /\ Len(granted) \in Nat
         /\ granted' \in Seq(Blockade) /\ Len(granted') = Len(granted) + m
         /\ \A i \in Issued : i \in Issued' /\ granted'[i] = granted[i]
         /\ \A n \in 1..m :
              /\ Len(granted) + n \in Issued' /\ Len(granted) + n \notin Issued
              /\ granted'[Len(granted) + n].availability = TargetOf(asks[n])
              /\ granted'[Len(granted) + n].owner = req.owner
              /\ granted'[Len(granted) + n].duration = Indefinite
<1> DEFINE bs == Booked(asks, m)
<1>1. m \in Nat /\ \A n \in 1..m : n \in 1..Len(asks) /\ Obtainable(asks[n])
  BY DEF Obtained, IsAsking
<1>2. ASSUME NEW n \in 1..m
      PROVE  /\ bs[n] \in Blockade
             /\ bs[n].availability = TargetOf(asks[n]) /\ bs[n].owner = req.owner
             /\ bs[n].duration = Indefinite
  <2>1. /\ asks[n].owner = req.owner /\ asks[n].quantity \in Nat
        /\ asks[n].duration = Indefinite
    BY <1>1 DEF IsAsking
  <2>2. req.owner \in Owners /\ Indefinite \in Nat /\ now \in Nat
    BY ReservationAssumption DEF Indefinite, TypeOK
  <2>3. TargetOf(asks[n]) \in Availabilities
    BY <1>1, TargetAccepts
  <2>4. bs[n] = BlockadeFor(TargetOf(asks[n]), asks[n])
    BY DEF Booked
  <2> HIDE DEF bs
  <2> QED BY <2>1, <2>2, <2>3, <2>4 DEF BlockadeFor, Blockade
<1>3. bs \in Seq(Blockade) /\ Len(bs) = m
  <2>1. bs \in [1..m -> Blockade]
    BY <1>2 DEF Booked
  <2> HIDE DEF bs
  <2> QED BY <1>1, <2>1
<1>4. granted \in Seq(Blockade) /\ granted' = granted \o bs
  BY DEF TypeOK, GrantUpTo, Booked
<1> HIDE DEF bs
<1>5. /\ granted' \in Seq(Blockade)
      /\ Len(granted) \in Nat /\ Len(bs) \in Nat
      /\ Len(granted') = Len(granted) + Len(bs)
      /\ \A i \in Issued : i \in Nat /\ i \in Issued' /\ granted'[i] = granted[i]
      /\ \A n \in 1..Len(bs) :
           /\ Len(granted) + n \in Issued' /\ Len(granted) + n \notin Issued
           /\ granted'[Len(granted) + n] = bs[n]
  BY <1>3, <1>4, GrantedTogether
<1> QED BY <1>1, <1>2, <1>3, <1>5

\* A booking is accepted on an exclusive availability only if its own customer holds it.
LEMMA BookedByTheSame ==
  ASSUME ReservationInv, NEW ask, Obtainable(ask), TargetOf(ask) \notin Pools,
         NEW i \in blockades[TargetOf(ask)]
  PROVE  granted[i].owner = ask.owner
<1>1. TypeOK
  BY DEF ReservationInv
<1>2. TargetOf(ask) \in Availabilities /\ Accepts(TargetOf(ask), ask)
  BY <1>1, TargetAccepts
<1>3. granted[i].duration = Indefinite
  BY <1>2 DEF ReservationInv, NoStrandedBlockade, Confirmed, BlockadesGranted
<1>4. ~Expired(i)
  BY <1>3 DEF Expired, BlockadeExpired, BlockadeActive
<1> QED BY <1>2, <1>4 DEF Accepts, IsAvailableFor, OwnedBy, BlockadeOwnedBy

\* Several requests are about exclusive availabilities.
LEMMA SeveralAreExclusive ==
  ASSUME TypeOK, NEW req, NEW asks, IsAsking(asks, req), Len(asks) # 1,
         NEW n \in 1..Len(asks), Obtainable(asks[n])
  PROVE  TargetOf(asks[n]) \in Exclusive /\ TargetOf(asks[n]) \notin Pools
<1>1. asks[n].type = "TEMPORAL" /\ TargetOf(asks[n]) \in Availabilities
      /\ asks[n].type = Kind[TargetOf(asks[n])]
  BY TargetAccepts DEF IsAsking, Accepts
<1> QED BY <1>1 DEF Exclusive, Pools

LEMMA SupersededLasts ==
  ASSUME \A i \in Issued : i \in Issued' /\ granted'[i] = granted[i],
         NEW i \in Issued, Superseded(i)
  PROVE  Superseded(i)'
  BY DEF Superseded, Exclusive

\* A booking on an exclusive availability supersedes what its customer has there.
LEMMA BookingSupersedes ==
  ASSUME ReservationInv, NEW req \in ReserveRequests, NEW asks, IsAsking(asks, req),
         NEW m, Obtained(asks, m), GrantUpTo(asks, m),
         NEW n \in 1..m, TargetOf(asks[n]) \notin Pools, NEW i \in blockades[TargetOf(asks[n])]
  PROVE  Superseded(i)'
<1> DEFINE j == Len(granted) + n
<1>1. TypeOK
  BY DEF ReservationInv
<1>2. /\ \A k \in Issued : k \in Issued' /\ granted'[k] = granted[k]
      /\ j \in Issued' /\ Len(granted) \in Nat
      /\ granted'[j].availability = TargetOf(asks[n]) /\ granted'[j].owner = req.owner
  BY <1>1, BookingGrants
<1>3. n \in 1..Len(asks) /\ Obtainable(asks[n])
  BY DEF Obtained, IsAsking
<1>4. granted[i].owner = req.owner
  BY <1>3, BookedByTheSame DEF IsAsking
<1>5. TargetOf(asks[n]) \in Availabilities
  BY <1>1, <1>3, TargetAccepts
<1>6. i \in Issued /\ granted[i].availability = TargetOf(asks[n])
  BY <1>1, <1>5 DEF TypeOK
<1>7. TargetOf(asks[n]) \in Exclusive
  BY <1>5, AvailabilityAssumption DEF Exclusive, Pools, Kinds
<1>8. j > i
  BY <1>2, <1>6 DEF Issued
<1> HIDE DEF j
<1> QED BY <1>2, <1>4, <1>6, <1>7, <1>8 DEF Superseded, Exclusive

-----------------------------------------------------------------------------
(* Reserving *)

\* The last request of a booking for an availability
LastFor(asks, a) == Max({n \in 1..Len(asks) : TargetOf(asks[n]) = a})

LEMMA LastForIsLast ==
  ASSUME NEW asks, Len(asks) \in Nat, NEW a \in TargetsUpTo(asks, Len(asks))
  PROVE  /\ LastFor(asks, a) \in 1..Len(asks) /\ TargetOf(asks[LastFor(asks, a)]) = a
         /\ \A n \in 1..Len(asks) : TargetOf(asks[n]) = a => n <= LastFor(asks, a)
<1> DEFINE S == {n \in 1..Len(asks) : TargetOf(asks[n]) = a}
<1>1. S \subseteq 0..Len(asks) /\ S # {}
  BY DEF TargetsUpTo
<1>2. Max(S) \in S /\ \A n \in S : n <= Max(S)
  <2> HIDE DEF S
  <2> QED BY <1>1, GreatestExists
<1> QED BY <1>2 DEF LastFor

\* What a booking does to the availabilities and to the reservations
Booking(asks, req) ==
  /\ IsAsking(asks, req) /\ Obtained(asks, Len(asks)) /\ GrantUpTo(asks, Len(asks))
  /\ blockades' = [a \in Availabilities |->
       IF a \in TargetsUpTo(asks, Len(asks))
         THEN BlockadesAfterLock(a, Len(granted) + LastFor(asks, a)) ELSE blockades[a]]
  /\ reservations' = Append(reservations,
       [owner |-> req.owner, status |-> "CONFIRMED",
        blockadeIds |-> (Len(granted) + 1)..(Len(granted) + Len(asks))])
  /\ UNCHANGED <<repository, withdrawn, now, held>>

LEMMA ReserveIsBooking ==
  ASSUME NEW req \in ReserveRequests, Reserve(req)
  PROVE  \E asks : Booking(asks, req)
<1>1. PICK r \in ResourcesFor(req) :
        /\ LockedInTurn(LockRequests(req, r)) = Len(LockRequests(req, r))
        /\ GrantUpTo(LockRequests(req, r), Len(LockRequests(req, r)))
        /\ blockades' = [a \in Availabilities |->
             IF a \in TargetsUpTo(LockRequests(req, r), Len(LockRequests(req, r)))
               THEN BlockadesAfterLock(a, Len(granted) + LastFor(LockRequests(req, r), a))
               ELSE blockades[a]]
        /\ reservations' = Append(reservations,
             [owner |-> req.owner, status |-> "CONFIRMED",
              blockadeIds |-> (Len(granted) + 1)..(Len(granted) + Len(LockRequests(req, r)))])
  BY DEF Reserve, LastFor
<1>2. UNCHANGED <<repository, withdrawn, now, held>>
  BY DEF Reserve
<1>3. PICK asks : asks = LockRequests(req, r)
  OBVIOUS
<1>4. IsAsking(asks, req)
  BY <1>3, RequestsAreAsked
<1>5. Obtained(asks, Len(asks))
  BY <1>1, <1>3, <1>4, LeadingObtain DEF IsAsking, Obtained
<1> QED BY <1>1, <1>2, <1>3, <1>4, <1>5 DEF Booking

\* What an availability keeps after a booking
LEMMA BookingBlocks ==
  ASSUME ReservationInv, NEW req \in ReserveRequests, NEW asks, Booking(asks, req)
  PROVE  /\ Len(asks) \in Nat
         /\ \A n \in 1..Len(asks) :
              /\ TargetOf(asks[n]) \in Availabilities /\ TargetOf(asks[n]) \in Registered
              /\ Len(asks) # 1 => TargetOf(asks[n]) \in Exclusive
         /\ \A a \in Availabilities :
              \/ a \notin TargetsUpTo(asks, Len(asks)) /\ blockades'[a] = blockades[a]
              \/ /\ a \in TargetsUpTo(asks, Len(asks))
                 /\ blockades'[a] = BlockadesAfterLock(a, Len(granted) + LastFor(asks, a))
<1>1. Len(asks) \in Nat
  BY DEF Booking, IsAsking
<1>2. ASSUME NEW n \in 1..Len(asks)
      PROVE  /\ TargetOf(asks[n]) \in Availabilities /\ TargetOf(asks[n]) \in Registered
             /\ Len(asks) # 1 => TargetOf(asks[n]) \in Exclusive
  <2>1. TypeOK /\ Obtainable(asks[n]) /\ IsAsking(asks, req)
    BY <1>1 DEF ReservationInv, Booking, Obtained
  <2> QED BY <2>1, TargetAccepts, SeveralAreExclusive
<1>3. \A a \in Availabilities :
        \/ a \notin TargetsUpTo(asks, Len(asks)) /\ blockades'[a] = blockades[a]
        \/ /\ a \in TargetsUpTo(asks, Len(asks))
           /\ blockades'[a] = BlockadesAfterLock(a, Len(granted) + LastFor(asks, a))
  BY DEF Booking
<1> QED BY <1>1, <1>2, <1>3

LEMMA BookingGranted ==
  ASSUME ReservationInv, NEW req \in ReserveRequests, NEW asks, Booking(asks, req)
  PROVE  /\ Len(granted) \in Nat /\ granted' \in Seq(Blockade)
         /\ Len(granted') = Len(granted) + Len(asks)
         /\ \A i \in Issued : i \in Issued' /\ granted'[i] = granted[i]
         /\ \A n \in 1..Len(asks) :
              /\ Len(granted) + n \in Issued' /\ Len(granted) + n \notin Issued
              /\ granted'[Len(granted) + n].availability = TargetOf(asks[n])
              /\ granted'[Len(granted) + n].owner = req.owner
              /\ granted'[Len(granted) + n].duration = Indefinite
<1>1. TypeOK /\ IsAsking(asks, req) /\ Obtained(asks, Len(asks)) /\ GrantUpTo(asks, Len(asks))
  BY DEF ReservationInv, Booking
<1>2. PICK m : m = Len(asks)
  OBVIOUS
<1>3. Obtained(asks, m) /\ GrantUpTo(asks, m)
  BY <1>1, <1>2
<1> QED BY <1>1, <1>2, <1>3, BookingGrants

LEMMA BookingKeepsTypes ==
  ASSUME ReservationInv, NEW req \in ReserveRequests, NEW asks, Booking(asks, req)
  PROVE  TypeOK' /\ OnlyRegisteredBlocked'
<1>1. TypeOK
  BY DEF ReservationInv
<1>2. UNCHANGED <<repository, withdrawn, now, held>>
  BY DEF Booking
<1>3. ASSUME NEW a \in Availabilities, NEW i \in blockades'[a]
      PROVE  i \in Issued' /\ granted'[i].availability = a
  <2>1. CASE i \in blockades[a]
    BY <1>1, <2>1, BookingGranted DEF TypeOK
  <2>2. CASE i \notin blockades[a]
    <3>1. a \in TargetsUpTo(asks, Len(asks)) /\ i = Len(granted) + LastFor(asks, a)
      <4>1. /\ a \in TargetsUpTo(asks, Len(asks))
            /\ blockades'[a] = BlockadesAfterLock(a, Len(granted) + LastFor(asks, a))
        BY <1>3, <2>2, BookingBlocks
      <4> QED BY <1>3, <2>2, <4>1 DEF BlockadesAfterLock
    <3>2. LastFor(asks, a) \in 1..Len(asks) /\ TargetOf(asks[LastFor(asks, a)]) = a
      BY <3>1, BookingBlocks, LastForIsLast
    <3> QED BY <3>1, <3>2, BookingGranted
  <2> QED BY <2>1, <2>2
<1>4. blockades' \in [Availabilities -> SUBSET Issued']
  BY <1>3 DEF Booking
<1>5. held' \subseteq Issued'
  BY <1>1, <1>2, BookingGranted DEF TypeOK
<1>6. TypeOK'
  BY <1>1, <1>2, <1>3, <1>4, <1>5, BookingGranted DEF TypeOK
<1>7. OnlyRegisteredBlocked'
  <2> SUFFICES ASSUME NEW a \in Availabilities, blockades'[a] # {} PROVE a \in Registered
    BY <1>2 DEF OnlyRegisteredBlocked, Registered
  <2>1. CASE blockades'[a] = blockades[a]
    BY <2>1 DEF ReservationInv, OnlyRegisteredBlocked
  <2>2. CASE a \in TargetsUpTo(asks, Len(asks))
    BY <2>2, BookingBlocks DEF TargetsUpTo
  <2> QED BY <2>1, <2>2, BookingBlocks
<1> QED BY <1>6, <1>7

\* The reservation that a booking adds
LEMMA BookingReserves ==
  ASSUME ReservationInv, NEW req \in ReserveRequests, NEW asks, Booking(asks, req)
  PROVE  /\ Len(reservations) \in Nat /\ reservations' \in Seq(ReservationType)
         /\ ReservationIds' = ReservationIds \cup {Len(reservations) + 1}
         /\ Len(reservations) + 1 \notin ReservationIds
         /\ \A n \in ReservationIds : reservations'[n] = reservations[n]
         /\ reservations'[Len(reservations) + 1].owner = req.owner
         /\ reservations'[Len(reservations) + 1].status = "CONFIRMED"
         /\ reservations'[Len(reservations) + 1].blockadeIds =
              (Len(granted) + 1)..(Len(granted) + Len(asks))
<1> DEFINE ids == (Len(granted) + 1)..(Len(granted) + Len(asks))
           x == [owner |-> req.owner, status |-> "CONFIRMED", blockadeIds |-> ids]
<1>1. ids \subseteq Nat
  BY BookingGranted, BookingBlocks
<1>2. x \in ReservationType
  BY <1>1, ReservationAssumption DEF ReservationType
<1>3. x.owner = req.owner /\ x.status = "CONFIRMED" /\ x.blockadeIds = ids
  OBVIOUS
<1>4. reservations' = Append(reservations, x) /\ reservations \in Seq(ReservationType)
  BY DEF Booking, ReservationInv
<1> HIDE DEF x, ids
<1>5. /\ Len(reservations) \in Nat /\ reservations' \in Seq(ReservationType)
      /\ Len(reservations') = Len(reservations) + 1
      /\ reservations'[Len(reservations) + 1] = x
      /\ \A n \in 1..Len(reservations) : reservations'[n] = reservations[n]
  BY <1>2, <1>4
<1> QED BY <1>3, <1>5 DEF ReservationIds, ids

LEMMA IdsOfBooking ==
  ASSUME NEW g \in Nat, NEW m \in Nat, NEW i \in (g + 1)..(g + m)
  PROVE  \E k \in 1..m : i = g + k
<1>1. i - g \in 1..m /\ i = g + (i - g)
  OBVIOUS
<1> QED BY <1>1

LEMMA BookingKeepsPromises ==
  ASSUME ReservationInv, NEW req \in ReserveRequests, NEW asks, Booking(asks, req)
  PROVE  ConfirmedKeepsItsBlockades'
<1> DEFINE new == Len(reservations) + 1
<1> SUFFICES ASSUME NEW n \in Confirmed', NEW i \in reservations'[n].blockadeIds, ~Superseded(i)'
             PROVE  i \in blockades'[granted'[i].availability]
  BY DEF ConfirmedKeepsItsBlockades
<1>1. n \in ReservationIds \/ n = new
  BY BookingReserves DEF Confirmed
<1>2. CASE n \in ReservationIds
  <2>1. n \in Confirmed /\ i \in reservations[n].blockadeIds
    BY <1>2, BookingReserves DEF Confirmed
  <2>2. i \in Issued /\ granted'[i] = granted[i] /\ granted[i].availability \in Availabilities
    <3>1. i \in Issued
      BY <1>2, <2>1 DEF ReservationInv, BlockadesGranted
    <3>2. granted[i] \in Blockade
      BY <3>1 DEF ReservationInv, TypeOK, Issued
    <3> QED BY <3>1, <3>2, BookingGranted DEF Blockade
  <2>3. ~Superseded(i)
    BY <2>2, BookingGranted, SupersededLasts
  <2>4. i \in blockades[granted[i].availability]
    BY <2>1, <2>3 DEF ReservationInv, ConfirmedKeepsItsBlockades
  <2> DEFINE a == granted[i].availability
  <2>5. CASE blockades'[a] = blockades[a]
    BY <2>2, <2>4, <2>5
  <2>6. CASE a \in Pools
    <3>1. \/ blockades'[a] = blockades[a]
          \/ blockades'[a] = BlockadesAfterLock(a, Len(granted) + LastFor(asks, a))
      BY <2>2, BookingBlocks
    <3> QED BY <2>2, <2>4, <2>6, <3>1 DEF BlockadesAfterLock
  <2>7. CASE a \notin Pools /\ a \in TargetsUpTo(asks, Len(asks))
    <3>1. PICK k \in 1..Len(asks) : a = TargetOf(asks[k])
      BY <2>7 DEF TargetsUpTo
    <3>2. PICK m : m = Len(asks)
      OBVIOUS
    <3>3. IsAsking(asks, req) /\ Obtained(asks, m) /\ GrantUpTo(asks, m) /\ k \in 1..m
      BY <3>2 DEF Booking
    <3>4. TargetOf(asks[k]) \notin Pools /\ i \in blockades[TargetOf(asks[k])]
      BY <2>4, <2>7, <3>1
    <3>5. Superseded(i)'
      BY <3>3, <3>4, BookingSupersedes
    <3> QED BY <3>5
  <2> QED BY <2>2, <2>5, <2>6, <2>7, BookingBlocks
<1>3. CASE n = new
  <2>1. PICK k \in 1..Len(asks) : i = Len(granted) + k
    <3>1. i \in (Len(granted) + 1)..(Len(granted) + Len(asks))
      BY <1>3, BookingReserves
    <3>2. Len(granted) \in Nat /\ Len(asks) \in Nat
      BY BookingGranted, BookingBlocks
    <3> QED BY <3>1, <3>2, IdsOfBooking
  <2> DEFINE a == TargetOf(asks[k])
             l == LastFor(asks, a)
  <2>2. /\ a \in Availabilities /\ granted'[i].availability = a
        /\ a \in TargetsUpTo(asks, Len(asks))
    BY <2>1, BookingGranted, BookingBlocks DEF TargetsUpTo
  <2>3. l \in 1..Len(asks) /\ TargetOf(asks[l]) = a /\ k <= l
    BY <2>2, BookingBlocks, LastForIsLast
  <2>4. blockades'[a] = BlockadesAfterLock(a, Len(granted) + l)
    BY <2>2, BookingBlocks
  <2>5. CASE k = l
    <3> HIDE DEF l, a
    <3> QED BY <2>1, <2>2, <2>4, <2>5 DEF BlockadesAfterLock
  <2>6. CASE k # l
    <3>1. Len(asks) # 1
      BY <2>3, <2>6
    <3>2. a \in Exclusive
      BY <3>1, BookingBlocks
    <3>3. /\ Len(granted) + l \in Issued'
          /\ granted'[Len(granted) + l].availability = TargetOf(asks[l])
          /\ granted'[Len(granted) + l].owner = req.owner
          /\ granted'[Len(granted) + k].owner = req.owner
      BY <2>3, BookingGranted
    <3>4. Len(granted) + l > i
      <4>1. k \in Nat /\ l \in Nat /\ Len(granted) \in Nat
        BY <2>3, BookingBlocks, BookingGranted
      <4> QED BY <2>1, <2>3, <2>6, <4>1
    <3> HIDE DEF l, a
    <3> QED BY <2>1, <2>2, <2>3, <3>2, <3>3, <3>4 DEF Superseded, Exclusive
  <2> QED BY <2>5, <2>6
<1> QED BY <1>1, <1>2, <1>3

LEMMA BookingKeepsInv ==
  ASSUME ReservationInv, NEW req \in ReserveRequests, NEW asks, Booking(asks, req)
  PROVE  ReservationInv'
<1> DEFINE new == Len(reservations) + 1
<1>1. BlockadesGranted'
  <2> SUFFICES ASSUME NEW n \in ReservationIds', NEW i \in reservations'[n].blockadeIds
               PROVE  /\ i \in Issued' /\ granted'[i].owner = reservations'[n].owner
                      /\ granted'[i].duration = Indefinite
    BY DEF BlockadesGranted
  <2>1. CASE n \in ReservationIds
    <3>1. /\ i \in Issued /\ granted[i].owner = reservations[n].owner
          /\ granted[i].duration = Indefinite /\ reservations'[n] = reservations[n]
      BY <2>1, BookingReserves DEF ReservationInv, BlockadesGranted
    <3> QED BY <3>1, BookingGranted
  <2>2. CASE n = new
    <3>1. PICK k \in 1..Len(asks) : i = Len(granted) + k
      <4>1. i \in (Len(granted) + 1)..(Len(granted) + Len(asks))
        BY <2>2, BookingReserves
      <4>2. Len(granted) \in Nat /\ Len(asks) \in Nat
        BY BookingGranted, BookingBlocks
      <4> QED BY <4>1, <4>2, IdsOfBooking
    <3>2. reservations'[n].owner = req.owner
      BY <2>2, BookingReserves
    <3> QED BY <3>1, <3>2, BookingGranted
  <2> QED BY <2>1, <2>2, BookingReserves
<1>2. ReservationsDisjoint'
  <2>1. \A n \in ReservationIds : /\ reservations'[n] = reservations[n]
                                   /\ reservations[n].blockadeIds \subseteq Issued
    BY BookingReserves DEF ReservationInv, BlockadesGranted
  <2>2. \A i \in reservations'[new].blockadeIds : i \notin Issued
    BY BookingReserves, BookingGranted, BookingBlocks DEF Issued
  <2>3. ReservationIds' = ReservationIds \cup {new}
    BY BookingReserves
  <2> HIDE DEF new
  <2> QED BY <2>1, <2>2, <2>3 DEF ReservationInv, ReservationsDisjoint
<1>3. NoStrandedBlockade'
  <2> SUFFICES ASSUME NEW a \in Availabilities, NEW i \in blockades'[a]
               PROVE  \E n \in Confirmed' : i \in reservations'[n].blockadeIds
    BY DEF NoStrandedBlockade
  <2>1. CASE i \in blockades[a]
    <3>1. PICK n \in Confirmed : i \in reservations[n].blockadeIds
      BY <2>1 DEF ReservationInv, NoStrandedBlockade
    <3>2. n \in Confirmed' /\ reservations'[n] = reservations[n]
      BY <3>1, BookingReserves DEF Confirmed
    <3> QED BY <3>1, <3>2
  <2>2. CASE i \notin blockades[a]
    <3>1. /\ a \in TargetsUpTo(asks, Len(asks))
          /\ blockades'[a] = BlockadesAfterLock(a, Len(granted) + LastFor(asks, a))
      BY <2>2, BookingBlocks
    <3>2. i = Len(granted) + LastFor(asks, a)
      BY <2>2, <3>1 DEF BlockadesAfterLock
    <3>3. LastFor(asks, a) \in 1..Len(asks)
      BY <3>1, BookingBlocks, LastForIsLast
    <3>4. i \in (Len(granted) + 1)..(Len(granted) + Len(asks))
      BY <3>2, <3>3, BookingGranted, BookingBlocks
    <3>5. new \in Confirmed' /\ i \in reservations'[new].blockadeIds
      BY <3>4, BookingReserves DEF Confirmed
    <3> QED BY <3>5
  <2> QED BY <2>1, <2>2
<1> QED BY <1>1, <1>2, <1>3, BookingKeepsTypes, BookingKeepsPromises, BookingReserves DEF ReservationInv

-----------------------------------------------------------------------------
(* Failing, cancelling and everything else *)

\* A booking that fails midway has locked slots of temporal availabilities only.
LEMMA FailureEffect ==
  ASSUME ReservationInv, NEW req \in ReserveRequests, ReserveFails(req)
  PROVE  \E asks, m :
           /\ IsAsking(asks, req) /\ Obtained(asks, m) /\ GrantUpTo(asks, m)
           /\ blockades' = [a \in Availabilities |->
                IF a \in TargetsUpTo(asks, m) THEN {} ELSE blockades[a]]
           /\ \A n \in 1..m : TargetOf(asks[n]) \notin Pools
           /\ UNCHANGED <<repository, withdrawn, now, held, reservations>>
<1>1. PICK r : LET asks == LockRequests(req, r)
                   m == LockedInTurn(asks)
               IN  /\ m \in 1..(Len(asks) - 1)
                   /\ GrantUpTo(asks, m)
                   /\ blockades' = [a \in Availabilities |->
                        IF a \in TargetsUpTo(asks, m) THEN {} ELSE blockades[a]]
  BY DEF ReserveFails
<1>2. PICK asks : asks = LockRequests(req, r)
  OBVIOUS
<1>3. PICK m : m = LockedInTurn(asks)
  OBVIOUS
<1>4. /\ m \in 1..(Len(asks) - 1) /\ GrantUpTo(asks, m)
      /\ blockades' = [a \in Availabilities |->
           IF a \in TargetsUpTo(asks, m) THEN {} ELSE blockades[a]]
  BY <1>1, <1>2, <1>3
<1>5. IsAsking(asks, req)
  BY <1>2, RequestsAreAsked
<1>6. Obtained(asks, m)
  BY <1>3, <1>5, LeadingObtain DEF IsAsking, Obtained
<1>7. ASSUME NEW n \in 1..m PROVE TargetOf(asks[n]) \notin Pools
  <2>1. Len(asks) \in Nat
    BY <1>5 DEF IsAsking
  <2>2. n \in 1..Len(asks) /\ Len(asks) # 1
    <3>1. m \in 1..(Len(asks) - 1)
      BY <1>4
    <3> QED BY <2>1, <3>1
  <2>3. Obtainable(asks[n]) /\ TypeOK
    BY <1>6 DEF Obtained, ReservationInv
  <2> QED BY <1>5, <2>2, <2>3, SeveralAreExclusive
<1>8. UNCHANGED <<repository, withdrawn, now, held, reservations>>
  BY DEF ReserveFails
<1> QED BY <1>4, <1>5, <1>6, <1>7, <1>8

LEMMA FailureKeepsInv ==
  ASSUME ReservationInv, NEW req \in ReserveRequests, ReserveFails(req)
  PROVE  ReservationInv'
<1>1. PICK asks, m :
        /\ IsAsking(asks, req) /\ Obtained(asks, m) /\ GrantUpTo(asks, m)
        /\ blockades' = [a \in Availabilities |->
             IF a \in TargetsUpTo(asks, m) THEN {} ELSE blockades[a]]
        /\ \A n \in 1..m : TargetOf(asks[n]) \notin Pools
        /\ UNCHANGED <<repository, withdrawn, now, held, reservations>>
  BY FailureEffect
<1>2. TypeOK
  BY DEF ReservationInv
<1>3. /\ granted' \in Seq(Blockade)
      /\ \A i \in Issued : i \in Issued' /\ granted'[i] = granted[i]
  BY <1>1, <1>2, BookingGrants
<1>4. /\ \A a \in Availabilities : blockades'[a] \in {{}, blockades[a]}
      /\ \A a \in Availabilities : a \notin TargetsUpTo(asks, m) => blockades'[a] = blockades[a]
  BY <1>1
<1>5. TypeOK'
  <2>1. blockades' \in [Availabilities -> SUBSET Issued']
    BY <1>1, <1>2, <1>3, <1>4 DEF TypeOK
  <2>2. \A a \in Availabilities : \A i \in blockades'[a] : granted'[i].availability = a
    BY <1>2, <1>3, <1>4 DEF TypeOK
  <2>3. held' \subseteq Issued'
    BY <1>1, <1>2, <1>3 DEF TypeOK
  <2> QED BY <1>1, <1>2, <1>3, <2>1, <2>2, <2>3 DEF TypeOK
<1>6. OnlyRegisteredBlocked' /\ NoStrandedBlockade'
  BY <1>1, <1>4
  DEF ReservationInv, OnlyRegisteredBlocked, Registered, NoStrandedBlockade, Confirmed, ReservationIds
<1>7. BlockadesGranted' /\ ReservationsDisjoint'
  BY <1>1, <1>3 DEF ReservationInv, BlockadesGranted, ReservationsDisjoint, ReservationIds
<1>8. ConfirmedKeepsItsBlockades'
  <2> SUFFICES ASSUME NEW n \in Confirmed', NEW i \in reservations'[n].blockadeIds, ~Superseded(i)'
               PROVE  i \in blockades'[granted'[i].availability]
    BY DEF ConfirmedKeepsItsBlockades
  <2>1. n \in Confirmed /\ i \in reservations[n].blockadeIds /\ i \in Issued
    BY <1>1 DEF Confirmed, ReservationIds, ReservationInv, BlockadesGranted
  <2>2. granted'[i] = granted[i] /\ granted[i].availability \in Availabilities
    <3>1. granted[i] \in Blockade
      BY <1>2, <2>1 DEF TypeOK, Issued
    <3> QED BY <1>3, <2>1, <3>1 DEF Blockade
  <2>3. ~Superseded(i)
    BY <1>3, <2>1, SupersededLasts
  <2>4. i \in blockades[granted[i].availability]
    BY <2>1, <2>3 DEF ReservationInv, ConfirmedKeepsItsBlockades
  <2>5. granted[i].availability \notin TargetsUpTo(asks, m)
    <3>1. ASSUME NEW k \in 1..m, granted[i].availability = TargetOf(asks[k]) PROVE FALSE
      <4>1. TargetOf(asks[k]) \notin Pools /\ i \in blockades[TargetOf(asks[k])]
        BY <1>1, <2>4, <3>1
      <4>2. IsAsking(asks, req) /\ Obtained(asks, m) /\ GrantUpTo(asks, m)
        BY <1>1
      <4>3. Superseded(i)'
        BY <4>1, <4>2, BookingSupersedes
      <4> QED BY <4>3
    <3> QED BY <3>1 DEF TargetsUpTo
  <2> QED BY <1>4, <2>2, <2>4, <2>5
<1> QED BY <1>1, <1>5, <1>6, <1>7, <1>8 DEF ReservationInv

\* findByBlockadeId finds a blockade that a registered availability keeps.
LEMMA BlockadeIsFound ==
  ASSUME TypeOK, NEW i, NEW a \in Registered, i \in blockades[a]
  PROVE  FirstWithBlockade(i) # {}
<1> DEFINE L0 == Len(repository)
           S == {m \in 1..L0 : i \in blockades[repository[m]]}
           T == {x \in 0..L0 : L0 - x \in S}
<1>1. L0 \in Nat
  BY DEF TypeOK
<1>2. PICK p \in S : TRUE
  BY DEF Registered
<1>3. L0 - p \in T
  <2>1. p \in 1..L0 /\ L0 - p \in 0..L0 /\ L0 - (L0 - p) = p
    BY <1>1, <1>2
  <2> QED BY <1>2, <2>1
<1>4. Max(T) \in T /\ \A x \in T : x <= Max(T)
  <2>1. T \subseteq 0..L0 /\ T # {}
    BY <1>3
  <2> HIDE DEF T, L0
  <2> QED BY <1>1, <2>1, GreatestExists
<1> DEFINE m == L0 - Max(T)
<1>5. m \in S /\ m \in 1..L0 /\ Max(T) \in 0..L0
  BY <1>4
<1>6. ASSUME NEW k \in 1..(m - 1), i \in blockades[repository[k]] PROVE FALSE
  <2>1. k \in Nat /\ k >= 1 /\ k < m /\ m <= L0 /\ Max(T) \in Nat /\ m \in Nat
    BY <1>1, <1>5
  <2> HIDE DEF T
  <2>2. L0 - k \in 0..L0 /\ L0 - (L0 - k) = k /\ k \in 1..L0
    BY <1>1, <2>1
  <2>3. k \in S
    BY <1>6, <2>2
  <2>4. L0 - k \in T
    BY <2>2, <2>3 DEF T
  <2>5. L0 - k <= Max(T)
    BY <1>4, <2>4
  <2> QED BY <1>1, <2>1, <2>5
<1> HIDE DEF m
<1>7. repository[m] \in FirstWithBlockade(i)
  BY <1>5, <1>6 DEF FirstWithBlockade, FirstSuchThat
<1> QED BY <1>7

\* Cancelling unlocks all that the reservation still has and nothing else.
LEMMA CancelKeepsInv ==
  ASSUME ReservationInv, NEW n \in ReservationIds, NEW o, Cancel(n, o)
  PROVE  ReservationInv'
<1> DEFINE gone == Unlockable(reservations[n].blockadeIds, o)
<1>1. /\ TypeOK /\ reservations \in Seq(ReservationType)
      /\ n \in 1..Len(reservations)
  BY DEF ReservationInv, ReservationIds
<1>2. /\ UNCHANGED <<repository, withdrawn, now, granted, held>>
      /\ blockades' = [a \in Availabilities |-> blockades[a] \ gone]
      /\ reservations' = [reservations EXCEPT ![n].status = "CANCELLED"]
      /\ reservations[n].owner = o /\ reservations[n].status = "CONFIRMED"
  BY DEF Cancel
<1>3. gone \subseteq reservations[n].blockadeIds
  BY DEF Unlockable
<1> HIDE DEF gone
<1>4. /\ reservations' \in Seq(ReservationType)
      /\ ReservationIds' = ReservationIds
      /\ reservations'[n].status = "CANCELLED"
  <2>1. reservations[n] \in ReservationType
    BY <1>1
  <2> DEFINE x == [reservations[n] EXCEPT !.status = "CANCELLED"]
  <2>2. x \in ReservationType /\ x.status = "CANCELLED"
    BY <2>1 DEF ReservationType
  <2>3. reservations' = [reservations EXCEPT ![n] = x]
    BY <1>2
  <2> HIDE DEF x
  <2> QED BY <1>1, <2>2, <2>3 DEF ReservationIds
<1>11. ASSUME NEW m \in ReservationIds, m # n
       PROVE  reservations'[m] = reservations[m]
  BY <1>1, <1>2, <1>11 DEF ReservationIds
<1>12. ASSUME NEW m \in ReservationIds
       PROVE  /\ reservations'[m].owner = reservations[m].owner
              /\ reservations'[m].blockadeIds = reservations[m].blockadeIds
  <2>1. CASE m = n
    <3>1. reservations[n] \in ReservationType
      BY <1>1
    <3> QED BY <1>1, <1>2, <2>1, <3>1 DEF ReservationType, ReservationIds
  <2>2. CASE m # n
    BY <1>11, <2>2
  <2> QED BY <2>1, <2>2
<1>5. Confirmed' = Confirmed \ {n}
  <2>1. ASSUME NEW k \in ReservationIds
        PROVE  reservations'[k].status = "CONFIRMED" <=> reservations[k].status = "CONFIRMED" /\ k # n
    BY <1>4, <1>11
  <2>2. ReservationIds' = ReservationIds
    BY <1>4
  <2> QED BY <2>1, <2>2 DEF Confirmed
<1>6. TypeOK'
  BY <1>1, <1>2 DEF TypeOK, Issued
<1>7. OnlyRegisteredBlocked'
  BY <1>2 DEF ReservationInv, OnlyRegisteredBlocked, Registered
<1>8. BlockadesGranted' /\ ReservationsDisjoint'
  BY <1>2, <1>4, <1>12 DEF ReservationInv, BlockadesGranted, ReservationsDisjoint, Issued
<1>9. ConfirmedKeepsItsBlockades'
  <2> SUFFICES ASSUME NEW k \in Confirmed', NEW i \in reservations'[k].blockadeIds
               PROVE  i \in blockades'[granted'[i].availability] \/ Superseded(i)'
    BY DEF ConfirmedKeepsItsBlockades
  <2>1. k \in Confirmed /\ k # n /\ i \in reservations[k].blockadeIds /\ k \in ReservationIds
    <3>1. k \in Confirmed /\ k # n
      BY <1>5
    <3>2. k \in ReservationIds
      BY <3>1 DEF Confirmed
    <3> QED BY <1>12, <3>1, <3>2
  <2>2. i \in Issued /\ i \notin gone
    BY <1>3, <2>1 DEF ReservationInv, BlockadesGranted, ReservationsDisjoint
  <2>3. granted[i].availability \in Availabilities
    <3>1. granted[i] \in Blockade
      BY <1>1, <2>2 DEF TypeOK, Issued
    <3> QED BY <3>1 DEF Blockade
  <2>4. i \in blockades[granted[i].availability] \/ Superseded(i)
    BY <2>1 DEF ReservationInv, ConfirmedKeepsItsBlockades
  <2> QED BY <1>2, <2>2, <2>3, <2>4 DEF Superseded, Issued
<1>10. NoStrandedBlockade'
  <2> SUFFICES ASSUME NEW a \in Availabilities, NEW i \in blockades'[a]
               PROVE  \E k \in Confirmed' : i \in reservations'[k].blockadeIds
    BY DEF NoStrandedBlockade
  <2>1. i \in blockades[a] /\ i \notin gone
    BY <1>2
  <2>2. PICK k \in Confirmed : i \in reservations[k].blockadeIds
    BY <2>1 DEF ReservationInv, NoStrandedBlockade
  <2>3. k # n
    <3>1. ASSUME k = n PROVE FALSE
      <4>1. OwnedBy(i, o)
        BY <1>2, <2>2, <3>1 DEF ReservationInv, BlockadesGranted, OwnedBy, BlockadeOwnedBy
      <4>2. a \in Registered
        BY <2>1 DEF ReservationInv, OnlyRegisteredBlocked
      <4>3. FirstWithBlockade(i) # {}
        BY <1>1, <2>1, <4>2, BlockadeIsFound
      <4> QED BY <2>1, <2>2, <3>1, <4>1, <4>3 DEF gone, Unlockable
    <3> QED BY <3>1
  <2>4. k \in Confirmed'
    BY <1>5, <2>2, <2>3
  <2>5. k \in ReservationIds
    BY <2>2 DEF Confirmed
  <2> QED BY <1>12, <2>2, <2>4, <2>5
<1> QED BY <1>4, <1>6, <1>7, <1>8, <1>9, <1>10 DEF ReservationInv

-----------------------------------------------------------------------------
(* The theorems *)

LEMMA ReservationInvariant == RSpec => []ReservationInv
<1>1. RInit => ReservationInv
  <2>1. RInit => TypeOK
    BY AvailabilityAssumption DEF RInit, Init, TypeOK, Issued
  <2>2. RInit => reservations \in Seq(ReservationType) /\ ReservationIds = {}
    BY DEF RInit, ReservationIds
  <2> QED
    BY <2>1, <2>2
    DEF RInit, Init, ReservationInv, OnlyRegisteredBlocked, BlockadesGranted,
        ReservationsDisjoint, ConfirmedKeepsItsBlockades, NoStrandedBlockade, Confirmed
<1>2. ReservationInv /\ [RNext]_rvars => ReservationInv'
  <2> SUFFICES ASSUME ReservationInv, [RNext]_rvars PROVE ReservationInv'
    OBVIOUS
  <2>1. ASSUME UNCHANGED <<blockades, withdrawn, now, granted, held, reservations>>,
               \/ repository' = repository
               \/ \E a \in Availabilities : repository' = Append(repository, a)
        PROVE  ReservationInv'
    <3>1. repository' \in Seq(Availabilities) /\ Registered \subseteq Registered'
      <4>1. repository \in Seq(Availabilities)
        BY DEF ReservationInv, TypeOK
      <4>2. ASSUME NEW a \in Availabilities, repository' = Append(repository, a)
            PROVE  /\ repository' \in Seq(Availabilities) /\ Len(repository') = Len(repository) + 1
                   /\ \A k \in 1..Len(repository) : k \in 1..Len(repository') /\ repository'[k] = repository[k]
        BY <4>1, <4>2
      <4> QED BY <2>1, <4>1, <4>2 DEF Registered
    <3>2. TypeOK' /\ OnlyRegisteredBlocked'
      BY <2>1, <3>1 DEF ReservationInv, TypeOK, OnlyRegisteredBlocked, Issued
    <3> QED
      BY <2>1, <3>2
      DEF ReservationInv, BlockadesGranted, ReservationsDisjoint, ConfirmedKeepsItsBlockades,
          NoStrandedBlockade, Confirmed, ReservationIds, Issued, Superseded
  <2>2. ASSUME NEW req \in ReserveRequests, Reserve(req) PROVE ReservationInv'
    BY <2>2, ReserveIsBooking, BookingKeepsInv
  <2>3. ASSUME NEW p, NEW i, NEW r,
               \/ CreateEntry(p) \/ CreateInstance(p, i)
               \/ RemoveInstance(p, i) \/ MapInstance(p, i, r)
        PROVE  ReservationInv'
    BY <2>1, <2>3 DEF CreateEntry, CreateInstance, RemoveInstance, MapInstance, vars
  <2>4. ASSUME NEW a \in Availabilities, Register(a),
               UNCHANGED <<entries, instances, mapping, reservations>>
        PROVE  ReservationInv'
    BY <2>1, <2>4 DEF Register
  <2>5. CASE UNCHANGED rvars
    BY <2>1, <2>5 DEF rvars, vars
  <2>6. ASSUME NEW n \in 1..Len(reservations), NEW o, Cancel(n, o) PROVE ReservationInv'
    BY <2>6, CancelKeepsInv DEF ReservationIds
  <2> QED BY <2>2, <2>3, <2>4, <2>5, <2>6, FailureKeepsInv DEF RNext
<1> QED BY <1>1, <1>2, PTL DEF RSpec

\* A confirmed reservation keeps what it locked, whatever other customers reserve, fail
\* to reserve or cancel and however instances are mapped and removed meanwhile
\* (ConfirmedKeepsItsBlockades).
THEOREM ReservationsAreKept == RSpec => []ConfirmedKeepsItsBlockades
<1>1. ReservationInv => ConfirmedKeepsItsBlockades
  BY DEF ReservationInv
<1> QED BY <1>1, ReservationInvariant, PTL

\* Neither a booking that fails midway nor a cancellation leaves a blockade behind that
\* belongs to no confirmed reservation (NoStrandedBlockade).
THEOREM NothingIsLeftLocked == RSpec => []NoStrandedBlockade
<1>1. ReservationInv => NoStrandedBlockade
  BY DEF ReservationInv
<1> QED BY <1>1, ReservationInvariant, PTL
=============================================================================
