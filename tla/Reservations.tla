----------------------------- MODULE Reservations -----------------------------
(***************************************************************************)
(* The ReservationFacade with the two facades it drives: the inventory     *)
(* entries that turn a product into a resource, and the availabilities     *)
(* that are locked for the reservation.  Reserving and cancelling are      *)
(* synchronous: each is one step that makes all the calls the code makes.  *)
(***************************************************************************)
EXTENDS Availability

CONSTANTS
  Products,        \* ProductIdentifiers
  Instances,       \* InstanceIds
  ReserveRequests, \* requests that customers make
  MaxReservations  \* bound on the reservations made in a behaviour

ASSUME ReservationAssumption ==
  /\ Indefinite \in Durations
  /\ \A req \in ReserveRequests :
       /\ req.product \in Products
       /\ req.owner \in Owners
       /\ req.type \in {"TEMPORAL", "INDIVIDUAL", "QUANTITY"}
       /\ req.slots \in Seq(Slots)
       /\ req.quantity \in Nat

VARIABLES
  entries,     \* products that have an inventory entry
  instances,   \* the instances of each entry
  mapping,     \* _instanceToResource of each entry, in insertion order
  reservations \* the reservation repository, by id

rvars == <<vars, entries, instances, mapping, reservations>>

RInit ==
  /\ Init
  /\ entries = {}
  /\ instances = [p \in Products |-> {}]
  /\ mapping = [p \in Products |-> <<>>]
  /\ reservations = <<>>

-----------------------------------------------------------------------------
(* Inventory entries *)

\* InventoryFacade.handle(CreateInventoryEntry): one entry per product
CreateEntry(p) ==
  /\ p \notin entries
  /\ entries' = entries \cup {p}
  /\ UNCHANGED <<vars, instances, mapping, reservations>>

\* InventoryFacade.createInstance: the new instance joins the entry, unmapped.
CreateInstance(p, i) ==
  /\ p \in entries
  /\ \A q \in Products : i \notin instances[q]
  /\ instances' = [instances EXCEPT ![p] = @ \cup {i}]
  /\ UNCHANGED <<vars, entries, mapping, reservations>>

\* InventoryFacade.mapInstanceToResource takes any instance id, known or not, and
\* any resource id.  A Map keeps the place of a key that is set again.
MapInstance(p, i, r) ==
  LET place == {n \in 1..Len(mapping[p]) : mapping[p][n].instance = i} IN
  /\ p \in entries
  /\ instances' = [instances EXCEPT ![p] = @ \cup {i}]
  /\ mapping' = [mapping EXCEPT ![p] =
       IF place = {} THEN Append(@, [instance |-> i, resource |-> r])
       ELSE [n \in 1..Len(@) |->
               IF n \in place THEN [instance |-> i, resource |-> r] ELSE @[n]]]
  /\ UNCHANGED <<vars, entries, reservations>>

\* InventoryFacade.removeInstanceFromEntry: nobody asks whether the resource of the
\* instance is reserved.
RemoveInstance(p, i) ==
  /\ p \in entries
  /\ i \in instances[p]
  /\ instances' = [instances EXCEPT ![p] = @ \ {i}]
  /\ mapping' = [mapping EXCEPT ![p] = SelectSeq(@, LAMBDA m : m.instance # i)]
  /\ UNCHANGED <<vars, entries, reservations>>

-----------------------------------------------------------------------------
(* Reserving *)

\* The resource an entry locks: that of the instance asked for, or the first one
\* mapped, whatever its availability.
ResourcesFor(req) ==
  LET m == mapping[req.product] IN
  IF req.type = "INDIVIDUAL"
    THEN {m[n].resource : n \in {k \in 1..Len(m) : m[k].instance = req.instance}}
    ELSE {m[n].resource : n \in 1..Len(m) \cap {1}}

\* The lock requests of InventoryEntry.handleLock, in order.  All are indefinite:
\* the validForMs of the reserve request is not passed on, so no clock ticks here.
LockRequests(req, r) ==
  LET Ask(type, slot) ==
        [type |-> type, resourceId |-> r, slot |-> slot, owner |-> req.owner,
         quantity |-> req.quantity, duration |-> Indefinite]
  IN CASE req.type = "TEMPORAL" ->
            [n \in 1..Len(req.slots) |-> Ask("TEMPORAL", req.slots[n])]
       [] req.type = "INDIVIDUAL" -> <<Ask("INDIVIDUAL", CHOOSE s \in Slots : TRUE)>>
       [] OTHER -> <<Ask("POOL", CHOOSE s \in Slots : TRUE)>>

\* lockTemporal, lockIndividual and lockPool
TargetsOf(ask) ==
  IF ask.type = "TEMPORAL" THEN FirstOfSlot(ask.resourceId, ask.slot)
  ELSE FirstOfResource(ask.resourceId)

Obtainable(ask) == \E a \in TargetsOf(ask) : Accepts(a, ask)

\* How many leading requests succeed.  The locks already taken do not change the
\* answer for the next one: they are on other slots, or of the same owner.
LockedInTurn(asks) ==
  Max({m \in 0..Len(asks) : \A n \in 1..m : Obtainable(asks[n])})

TargetOf(ask) == CHOOSE a \in TargetsOf(ask) : TRUE
TargetsUpTo(asks, m) == {TargetOf(asks[n]) : n \in 1..m}

\* The blockades created by the first m requests, also those rolled back later.
GrantUpTo(asks, m) ==
  /\ Len(granted) + m <= MaxBlockades
  /\ granted' = granted \o [n \in 1..m |-> BlockadeFor(TargetOf(asks[n]), asks[n])]

\* ReservationFacade.handle when every lock is obtained: the reservation is saved
\* CONFIRMED with the ids of its blockades.
Reserve(req) ==
  /\ req.product \in entries
  /\ Len(reservations) < MaxReservations
  /\ \E r \in ResourcesFor(req) :
       LET asks == LockRequests(req, r)
           m == Len(asks)
       IN
       /\ LockedInTurn(asks) = m
       /\ GrantUpTo(asks, m)
       /\ blockades' = [a \in Availabilities |->
            IF a \in TargetsUpTo(asks, m)
              THEN BlockadesAfterLock(a, Len(granted) +
                     Max({n \in 1..m : TargetOf(asks[n]) = a}))
              ELSE blockades[a]]
       /\ reservations' = Append(reservations,
            [owner |-> req.owner, status |-> "CONFIRMED",
             blockadeIds |-> (Len(granted) + 1)..(Len(granted) + m)])
  /\ UNCHANGED <<repository, withdrawn, now, held, entries, instances, mapping>>

\* ReservationFacade.handle when a lock is refused after others were obtained: the
\* entry unlocks what it just locked.  A slot on which the owner already had a
\* blockade loses that one too, because the new lock had replaced it.
ReserveFails_NoRollback(req) ==
  /\ req.product \in entries
  /\ \E r \in ResourcesFor(req) :
       LET asks == LockRequests(req, r)
           m == LockedInTurn(asks)
       IN
       /\ m \in 1..(Len(asks) - 1)
       /\ GrantUpTo(asks, m)
       /\ blockades' = [a \in Availabilities |->
            IF a \in TargetsUpTo(asks, m)
              THEN BlockadesAfterLock(a, Len(granted) + m) ELSE blockades[a]]
  /\ UNCHANGED <<repository, withdrawn, now, held, entries, instances, mapping,
                 reservations>>
ReserveFails(req) ==
  /\ req.product \in entries
  /\ \E r \in ResourcesFor(req) :
       LET asks == LockRequests(req, r)
           m == LockedInTurn(asks)
       IN
       /\ m \in 1..(Len(asks) - 1)
       /\ GrantUpTo(asks, m)
       /\ blockades' = [a \in Availabilities |->
            IF a \in TargetsUpTo(asks, m) THEN {} ELSE blockades[a]]
  /\ UNCHANGED <<repository, withdrawn, now, held, entries, instances, mapping,
                 reservations>>

\* The blockades of ids that AvailabilityFacade.handle(UnlockRequest) finds and
\* that belong to the requester.  Refusals are ignored by cancel.
Unlockable(ids, requester) ==
  {i \in ids : OwnedBy(i, requester) /\ FirstWithBlockade(i) # {}}

\* ReservationFacade.cancel
Cancel_ByResource(n, requester) ==
  /\ reservations[n].owner = requester
  /\ reservations[n].status = "CONFIRMED"
  /\ blockades' = [a \in Availabilities |->
       IF \E i \in reservations[n].blockadeIds : granted[i].availability = a
         THEN {} ELSE blockades[a]]
  /\ reservations' = [reservations EXCEPT ![n].status = "CANCELLED"]
  /\ UNCHANGED <<repository, withdrawn, now, granted, held, entries, instances, mapping>>
Cancel(n, requester) ==
  /\ reservations[n].owner = requester
  /\ reservations[n].status = "CONFIRMED"
  /\ blockades' = [a \in Availabilities |->
       blockades[a] \ Unlockable(reservations[n].blockadeIds, requester)]
  /\ reservations' = [reservations EXCEPT ![n].status = "CANCELLED"]
  /\ UNCHANGED <<repository, withdrawn, now, granted, held, entries, instances, mapping>>

RNext ==
  \/ \E p \in Products : CreateEntry(p)
  \/ \E p \in Products, i \in Instances : CreateInstance(p, i)
  \/ \E p \in Products, i \in Instances, r \in Resources : MapInstance(p, i, r)
  \/ \E p \in Products, i \in Instances : RemoveInstance(p, i)
  \/ \E req \in ReserveRequests : Reserve(req)
  \/ \E req \in ReserveRequests : ReserveFails(req)
  \/ \E n \in 1..Len(reservations), o \in Owners : Cancel(n, o)
  \/ /\ \E a \in Availabilities : Register(a)
     /\ UNCHANGED <<entries, instances, mapping, reservations>>

RSpec == RInit /\ [][RNext]_rvars

-----------------------------------------------------------------------------
(* Properties *)

ReservationIds == 1..Len(reservations)
Confirmed == {n \in ReservationIds : reservations[n].status = "CONFIRMED"}
Covers(n) == {granted[i].availability : i \in reservations[n].blockadeIds}

\* A CONFIRMED reservation keeps every blockade it was made with, whatever other
\* customers reserve, fail to reserve or cancel and however instances are mapped,
\* removed or remapped meanwhile.  Only another booking of the same owner can
\* replace it (reservation-facade.ts, inventory-entry.ts handleLock and rollback).
ConfirmedKeepsItsBlockades ==
  \A n \in Confirmed : \A i \in reservations[n].blockadeIds :
    i \in blockades[granted[i].availability] \/ Superseded(i)

\* What is locked for customers can be given back: every blockade belongs to a
\* CONFIRMED reservation, none is left over by a booking that failed midway or by a
\* cancellation whose unlocks were refused.
NoStrandedBlockade ==
  \A a \in Availabilities : \A i \in blockades[a] :
    \E n \in Confirmed : i \in reservations[n].blockadeIds

\* inventory/README.md: two customers can never book the same car for an
\* overlapping period.
NoDoubleBooking ==
  \A m, n \in Confirmed :
    reservations[m].owner # reservations[n].owner
      => Covers(m) \cap Covers(n) \cap Exclusive = {}
=============================================================================
