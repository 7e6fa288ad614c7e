---------------------------- MODULE Availability ----------------------------
(***************************************************************************)
(* The availability package of inventory/: the individual, temporal and    *)
(* pool resource availabilities, their in-memory repository and the        *)
(* AvailabilityFacade through which owners lock, unlock and sweep them.    *)
(*                                                                         *)
(* Every call is synchronous, so a call is one step.  The steps of several *)
(* owners and the clock interleave between calls.                          *)
(***************************************************************************)
EXTENDS Blockades, Sequences, FiniteSetsExt

CONSTANTS
  Availabilities, \* ids of the availability objects that may be registered
  Resources,      \* ResourceIds
  Owners,         \* OwnerIds
  Kind,           \* class of each availability object
  ResourceOf,     \* the resource an availability object is about
  SlotOf,         \* the slot of a temporal availability
  Capacity,       \* totalCapacity of a pool
  Slots,          \* slots callers may ask for
  Durations,      \* lock durations callers may ask for
  Quantities,     \* pool quantities callers may ask for
  MaxBlockades,   \* bound on the blockades granted in a behaviour
  MaxTime,        \* bound on the clock
  NoOwner         \* what an observer reads when nobody holds an availability

Kinds == {"INDIVIDUAL", "TEMPORAL", "POOL"}

ASSUME AvailabilityAssumption ==
  /\ Kind \in [Availabilities -> Kinds]
  /\ ResourceOf \in [Availabilities -> Resources]
  /\ Capacity \in [Availabilities -> Nat]
  /\ Durations \subseteq Nat
  /\ Quantities \subseteq Nat
  /\ MaxBlockades \in Nat
  /\ MaxTime \in Nat
  /\ NoOwner \notin Owners

VARIABLES
  repository, \* registered availabilities, in insertion order
  blockades,  \* ids of the blockades each availability keeps
  withdrawn,  \* quantity withdrawn from each pool
  now,        \* the clock all availabilities are created with
  granted,    \* every blockade ever created, by id
  held        \* ids returned to their owner by a lock and not unlocked by it yet

vars == <<repository, blockades, withdrawn, now, granted, held>>

Exclusive == {a \in Availabilities : Kind[a] \in {"INDIVIDUAL", "TEMPORAL"}}
Pools == {a \in Availabilities : Kind[a] = "POOL"}
Registered == {repository[n] : n \in 1..Len(repository)}
Issued == 1..Len(granted)

Blockade ==
  [availability : Availabilities, owner : Owners, quantity : Nat,
   blockedAt : Nat, duration : Nat]

Request ==
  [type : Kinds, resourceId : Resources, slot : Slots, owner : Owners,
   quantity : Quantities, duration : Durations]

Init ==
  /\ repository = <<>>
  /\ blockades = [a \in Availabilities |-> {}]
  /\ withdrawn = [a \in Availabilities |-> 0]
  /\ now = 0
  /\ granted = <<>>
  /\ held = {}

-----------------------------------------------------------------------------
(* Queries *)

Active(i) == BlockadeActive(granted[i], now)
Expired(i) == BlockadeExpired(granted[i], now)
OwnedBy(i, requester) == BlockadeOwnedBy(granted[i], requester)

ActiveBlockades(a) == {i \in blockades[a] : Active(i)}

\* isAvailableFor of the exclusive kinds: nobody, an expired blockade or the
\* requester itself holds the availability.
IsAvailableFor_ExpirySwapped(a, requester) ==
  \A i \in blockades[a] : Active(i) \/ OwnedBy(i, requester)
IsAvailableFor(a, requester) ==
  \A i \in blockades[a] : Expired(i) \/ OwnedBy(i, requester)

BlockedQuantity(a) ==
  MapThenSumSet(LAMBDA i : granted[i].quantity, ActiveBlockades(a))

\* availableQuantity of a pool.  Negative stands for the exception that the
\* Quantity constructor throws.
AvailableQuantity_IgnoresBlockades(a) == Capacity[a] - withdrawn[a]
AvailableQuantity(a) == Capacity[a] - withdrawn[a] - BlockedQuantity(a)

\* isAvailable
IsAvailable(a) == IF a \in Pools THEN AvailableQuantity(a) > 0 ELSE ActiveBlockades(a) = {}

\* The repository lookups that return one object return the first one that
\* matches in insertion order.
FirstSuchThat(P(_)) ==
  {repository[n] : n \in {m \in 1..Len(repository) :
      P(repository[m]) /\ \A k \in 1..(m - 1) : ~P(repository[k])}}

\* findByResourceId(resourceId)[0]
FirstOfResource_Any(r) == {a \in Registered : ResourceOf[a] = r}
FirstOfResource(r) == FirstSuchThat(LAMBDA a : ResourceOf[a] = r)

\* lockTemporal looks for a temporal availability with exactly this slot.
FirstOfSlot(r, slot) ==
  FirstSuchThat(LAMBDA a : /\ ResourceOf[a] = r
                           /\ Kind[a] = "TEMPORAL"
                           /\ SlotOf[a] = slot)

\* findByBlockadeId
FirstWithBlockade(i) == FirstSuchThat(LAMBDA a : i \in blockades[a])

-----------------------------------------------------------------------------
(* Operations *)

\* AvailabilityFacade.register
Register(a) ==
  /\ a \notin Registered
  /\ repository' = Append(repository, a)
  /\ UNCHANGED <<blockades, withdrawn, now, granted, held>>

\* lock of each kind accepts the request; every other request is refused and
\* changes nothing.
Accepts(a, req) ==
  /\ req.type = Kind[a]
  /\ req.resourceId = ResourceOf[a]
  /\ Kind[a] = "TEMPORAL" => SlotsOverlap(SlotOf[a], req.slot)
  /\ IF a \in Pools
       THEN AvailableQuantity(a) >= req.quantity
       ELSE IsAvailableFor(a, req.owner)

\* IndividualBlockade.create, TemporalBlockade.create, PoolBlockade.create
BlockadeFor(a, req) ==
  [availability |-> a, owner |-> req.owner,
   quantity |-> IF a \in Pools THEN req.quantity ELSE 1,
   blockedAt |-> now, duration |-> req.duration]

\* The exclusive kinds overwrite their single blockade, a pool adds one.
BlockadesAfterLock(a, i) ==
  IF a \in Pools THEN blockades[a] \cup {i} ELSE {i}

\* AvailabilityFacade.lock
Lock(a, req) ==
  LET i == Len(granted) + 1 IN
  /\ a \in Registered
  /\ i <= MaxBlockades
  /\ req.duration # Indefinite => now + req.duration <= MaxTime
  /\ Accepts(a, req)
  /\ blockades' = [blockades EXCEPT ![a] = BlockadesAfterLock(a, i)]
  /\ granted' = Append(granted, BlockadeFor(a, req))
  /\ held' = held \cup {i}
  /\ UNCHANGED <<repository, withdrawn, now>>

\* lockIndividual and lockPool: whatever is registered first for the resource.
LockFirst(req) ==
  \E a \in FirstOfResource(req.resourceId) :
    req.type \in {"INDIVIDUAL", "POOL"} /\ Lock(a, req)

\* lockTemporal
LockSlot(req) ==
  \E a \in FirstOfSlot(req.resourceId, req.slot) :
    req.type = "TEMPORAL" /\ Lock(a, req)

\* unlock of each kind.  Nobody looks at the expiry: a blockade that ran out but
\* was not swept yet can still be unlocked.
Unlock_NoOwnerCheck(a, requester, i) ==
  /\ i \in blockades[a]
  /\ blockades' = [blockades EXCEPT ![a] = @ \ {i}]
  /\ held' = {j \in held : j # i \/ ~OwnedBy(j, requester)}
  /\ UNCHANGED <<repository, withdrawn, now, granted>>
Unlock(a, requester, i) ==
  /\ i \in blockades[a]
  /\ OwnedBy(i, requester)
  /\ blockades' = [blockades EXCEPT ![a] = @ \ {i}]
  /\ held' = held \ {i}
  /\ UNCHANGED <<repository, withdrawn, now, granted>>

\* AvailabilityFacade.unlock
UnlockAt(a, requester, i) == a \in Registered /\ Unlock(a, requester, i)

\* AvailabilityFacade.handle(UnlockRequest)
UnlockFound(requester, i) ==
  \E a \in FirstWithBlockade(i) : Unlock(a, requester, i)

\* AvailabilityFacade.releaseExpired sweeps every registered availability.
ReleaseExpired ==
  /\ \E a \in Registered : \E i \in blockades[a] : Expired(i)
  /\ blockades' = [a \in Availabilities |->
       IF a \in Registered THEN ActiveBlockades(a) ELSE blockades[a]]
  /\ UNCHANGED <<repository, withdrawn, now, granted, held>>

\* PoolResourceAvailability.withdraw, on the object that find returns.
Withdraw(a, q) ==
  /\ withdrawn[a] + q <= Capacity[a]
  /\ withdrawn' = [withdrawn EXCEPT ![a] = @ + q]
  /\ UNCHANGED <<repository, blockades, now, granted, held>>

\* PoolResourceAvailability.replenish
Replenish_Unchecked(a, q) ==
  /\ withdrawn' = [withdrawn EXCEPT ![a] = @ - q]
  /\ UNCHANGED <<repository, blockades, now, granted, held>>
Replenish(a, q) ==
  /\ withdrawn[a] >= q
  /\ withdrawn' = [withdrawn EXCEPT ![a] = @ - q]
  /\ UNCHANGED <<repository, blockades, now, granted, held>>

Tick ==
  /\ now < MaxTime
  /\ now' = now + 1
  /\ UNCHANGED <<repository, blockades, withdrawn, granted, held>>

LockStep ==
  \/ \E a \in Availabilities, req \in Request : Lock(a, req)
  \/ \E req \in Request : LockFirst(req)
  \/ \E req \in Request : LockSlot(req)

OtherStep ==
  \/ \E a \in Availabilities : Register(a)
  \/ \E a \in Availabilities, o \in Owners, i \in Issued : UnlockAt(a, o, i)
  \/ \E o \in Owners, i \in Issued : UnlockFound(o, i)
  \/ ReleaseExpired
  \/ \E a \in Pools, q \in Quantities : Withdraw(a, q)
  \/ \E a \in Pools, q \in Quantities : Replenish(a, q)
  \/ Tick

Next == LockStep \/ OtherStep

Spec == Init /\ [][Next]_vars

\* Callers that name resources, never availability objects.
ResourceNext ==
  \/ \E req \in Request : LockFirst(req)
  \/ \E req \in Request : LockSlot(req)
  \/ OtherStep

\* Real time advances whatever the owners do; nobody has to call the sweeper.
ResourceSpec == Init /\ [][ResourceNext]_vars /\ WF_vars(Tick)

-----------------------------------------------------------------------------
(* Properties *)

\* Every variable keeps its type, and every blockade an availability keeps is
\* one it granted itself.
TypeOK ==
  /\ repository \in Seq(Availabilities)
  /\ withdrawn \in [Availabilities -> Nat]
  /\ now \in Nat
  /\ granted \in Seq(Blockade)
  /\ held \subseteq Issued
  /\ blockades \in [Availabilities -> SUBSET Issued]
  /\ \A a \in Availabilities : \A i \in blockades[a] : granted[i].availability = a

\* The owner locked the same exclusive availability again: the new blockade
\* replaced blockade i without unlocking it.
Superseded(i) ==
  /\ granted[i].availability \in Exclusive
  /\ \E j \in Issued : /\ j > i
                       /\ granted[j].availability = granted[i].availability
                       /\ granted[j].owner = granted[i].owner

\* Whoever was given a blockade and did not unlock it still has it for as long
\* as it runs, whatever other owners lock, unlock or sweep meanwhile
\* (individual-, temporal- and pool-resource-availability.ts lock, unlock and
\* releaseExpired).  Only the owner's own next lock can replace it.
HeldIsBlocked ==
  \A i \in held :
    Active(i) => \/ i \in blockades[granted[i].availability]
                 \/ Superseded(i)

\* An exclusive availability has one blockade at most.
ExclusiveIsSingle ==
  \A a \in Exclusive : \A i, j \in blockades[a] : i = j

\* What is promised out of a pool at one time never exceeds its capacity, also
\* when stock is withdrawn and replenished between the locks and when expired
\* blockades wait for the sweeper.
PoolNotOversold == \A a \in Pools : BlockedQuantity(a) <= Capacity[a]

\* Callers that go through lockIndividual and lockTemporal never hold one
\* resource, or one slot of it, twice, even when it was registered twice.
ResourceHeldOnce ==
  \A a, b \in Exclusive :
    /\ ResourceOf[a] = ResourceOf[b] /\ Kind[a] = Kind[b]
    /\ Kind[a] = "TEMPORAL" => SlotOf[a] = SlotOf[b]
    /\ ActiveBlockades(a) # {} /\ ActiveBlockades(b) # {}
    => a = b

\* A timed lock stops counting once its time is over, although nothing in the
\* code schedules releaseExpired: lock() itself looks at the clock.
TimedLocksLapse ==
  \A i \in 1..MaxBlockades :
    (i \in Issued /\ granted[i].duration # Indefinite)
      ~> (\A a \in Availabilities : i \notin ActiveBlockades(a))

\* The holder of an exclusive availability as its callers observe it.
HolderOf(a) ==
  IF ActiveBlockades(a) = {} THEN NoOwner
  ELSE granted[CHOOSE i \in ActiveBlockades(a) : TRUE].owner

holders == [a \in Exclusive |-> HolderOf(a)]

\* The exclusive availabilities implement the abstract lease: no step hands an
\* availability from one owner to another.
L == INSTANCE Lease WITH
       Items <- Exclusive, Free <- NoOwner, holder <- holders

LeaseRefined == L!LeaseSpec
=============================================================================
