------------------------- MODULE GroupedAvailability -------------------------
(***************************************************************************)
(* TemporalResourceGroupedAvailability: the slots of one resource blocked  *)
(* and released together by loops over the slots, beside owners that lock  *)
(* and unlock single slots, which availabilities() hands out.              *)
(***************************************************************************)
EXTENDS Availability

CONSTANT Grouped \* the availabilities of the group, in order

ASSUME GroupedAssumption ==
  /\ Grouped \in Seq(Availabilities) /\ Len(Grouped) > 0
  /\ \A n \in DOMAIN Grouped : Kind[Grouped[n]] = "TEMPORAL"
  /\ \A m, n \in DOMAIN Grouped :
       /\ Grouped[m] = Grouped[n] => m = n
       /\ ResourceOf[Grouped[m]] = ResourceOf[Grouped[n]]

VARIABLES
  stays, \* what block returned to its callers: the owner and an id per slot
  singly \* somebody has locked or unlocked a single slot

tvars == <<vars, stays, singly>>

\* The group of the resource's slots, each also known to the facade
TInit ==
  /\ repository = Grouped
  /\ blockades = [a \in Availabilities |-> {}]
  /\ withdrawn = [a \in Availabilities |-> 0]
  /\ now = 0 /\ granted = <<>> /\ held = {}
  /\ stays = {} /\ singly = FALSE

InGroup(a) == \E n \in DOMAIN Grouped : Grouped[n] = a
PlaceOf(a) == CHOOSE n \in DOMAIN Grouped : Grouped[n] = a

-----------------------------------------------------------------------------
(* Queries *)

IsEntirelyAvailable == \A n \in DOMAIN Grouped : IsAvailable(Grouped[n])

\* blockedBy reads the blockade that is kept, also when its time is over.
BlockedBy(a) == {granted[i].owner : i \in blockades[a]}

BlockedEntirelyBy(o) == \A n \in DOMAIN Grouped : BlockedBy(Grouped[n]) = {o}

-----------------------------------------------------------------------------
(* Operations *)

RequestFor(a, o, d) ==
  [type |-> "TEMPORAL", resourceId |-> ResourceOf[a], slot |-> SlotOf[a], owner |-> o,
   quantity |-> 1, duration |-> d]

\* How many of the first things satisfy P, one after the other
Leading(P(_)) == Max({n \in 0 .. Len(Grouped) : \A m \in 1 .. n : P(m)})

\* block: lock in order; when a slot refuses, those before it are unlocked again.
BlockGroup(o, d) ==
  LET locked == Leading(LAMBDA n : Accepts(Grouped[n], RequestFor(Grouped[n], o, d)))
      Id(n) == Len(granted) + n
      whole == locked = Len(Grouped) IN
  /\ IsEntirelyAvailable
  /\ Len(granted) + Len(Grouped) <= MaxBlockades
  /\ d # Indefinite => now + d <= MaxTime
  /\ granted' = IF ~whole THEN granted ELSE
       granted \o [n \in DOMAIN Grouped |->
                    BlockadeFor(Grouped[n], RequestFor(Grouped[n], o, d))]
  /\ blockades' = [a \in Availabilities |->
       IF ~InGroup(a) \/ PlaceOf(a) > locked THEN blockades[a]
       ELSE IF whole THEN BlockadesAfterLock(a, Id(PlaceOf(a))) ELSE {}]
  /\ held' = IF whole THEN held \cup {Id(n) : n \in DOMAIN Grouped} ELSE held
  /\ stays' = IF whole THEN stays \cup {[owner |-> o, ids |-> [n \in DOMAIN Grouped |-> Id(n)]]}
              ELSE stays
  /\ UNCHANGED <<repository, withdrawn, now, singly>>

\* release: unlock in order and stop at the first slot that refuses; the slots
\* before it stay unlocked.
Freed(o, ids) ==
  Leading(LAMBDA n : /\ n \in DOMAIN ids
                     /\ ids[n] \in blockades[Grouped[n]] /\ OwnedBy(ids[n], o))
ReleaseGroup_AnyCount(o, ids) ==
  /\ Freed(o, ids) > 0
  /\ blockades' = [a \in Availabilities |->
       IF InGroup(a) /\ PlaceOf(a) <= Freed(o, ids) THEN {} ELSE blockades[a]]
  /\ held' = held \ {ids[n] : n \in 1 .. Freed(o, ids)}
  /\ UNCHANGED <<repository, withdrawn, now, granted, stays, singly>>
ReleaseGroup(o, ids) ==
  /\ Len(ids) = Len(Grouped)
  /\ Freed(o, ids) > 0
  /\ blockades' = [a \in Availabilities |->
       IF InGroup(a) /\ PlaceOf(a) <= Freed(o, ids) THEN {} ELSE blockades[a]]
  /\ held' = held \ {ids[n] : n \in 1 .. Freed(o, ids)}
  /\ UNCHANGED <<repository, withdrawn, now, granted, stays, singly>>

\* A single slot, by way of availabilities() or the facade
SingleSlot ==
  /\ \/ \E n \in DOMAIN Grouped, o \in Owners, d \in Durations :
          Lock(Grouped[n], RequestFor(Grouped[n], o, d))
     \/ \E o \in Owners, i \in held : UnlockFound(o, i)
  /\ singly' = TRUE
  /\ UNCHANGED stays

\* Bound: callers hand back what block returned, or the first part of it.
TNext ==
  \/ \E o \in Owners, d \in Durations : BlockGroup(o, d)
  \/ \E o \in Owners, s \in stays : \E n \in DOMAIN s.ids :
       ReleaseGroup(o, SubSeq(s.ids, 1, n))
  \/ SingleSlot
  \/ (ReleaseExpired \/ Tick) /\ UNCHANGED <<stays, singly>>

TSpec == TInit /\ [][TNext]_tvars

-----------------------------------------------------------------------------
(* Properties *)

\* A stay whose owner gave nothing back keeps every one of its slots for as long
\* as it runs, and nobody can block the group meanwhile; and as long as callers
\* use the group alone, its slots have one holder or none, although block and
\* release go from slot to slot and release stops in the middle
\* (temporal-resource-grouped-availability.ts block, release, blockedEntirelyBy).
StaysAreWhole ==
  /\ \A s \in stays :
       (\A n \in DOMAIN s.ids : s.ids[n] \in held /\ Active(s.ids[n]) /\ ~Superseded(s.ids[n]))
         => BlockedEntirelyBy(s.owner) /\ ~IsEntirelyAvailable
  /\ ~singly => \A m, n \in DOMAIN Grouped : BlockedBy(Grouped[m]) = BlockedBy(Grouped[n])
=============================================================================
