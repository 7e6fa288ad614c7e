---------------------------- MODULE MCReservations ----------------------------
(***************************************************************************)
(* Small businesses: a car rental with one car, a hotel room with two      *)
(* nights, and a marina that lets the room and sells fuel.  Or, in other   *)
(* behaviours, a list of people waiting for a place.                       *)
(***************************************************************************)
EXTENDS Reservations, WaitList, TLC

CONSTANTS o1, o2

MCOwners == {o1, o2}
OwnerSymmetry == Permutations(MCOwners)

Night(n) == [from |-> n, to |-> n + 1]
MCSlots == {Night(1), Night(2)}
CapacityThree == [a \in Availabilities |-> 3]

Booking(o, type, i, slots, q) ==
  [product |-> "p", owner |-> o, type |-> type, instance |-> i, slots |-> slots,
   quantity |-> q]

\* Car rental: one car, whatever instance it is asked for
CarAvailabilities == {"car"}
CarKind == [a \in CarAvailabilities |-> "INDIVIDUAL"]
CarResource == [a \in CarAvailabilities |-> "vin1"]
CarSlot == [a \in CarAvailabilities |-> Night(1)]
CarRequests ==
  {Booking(o, "INDIVIDUAL", i, <<>>, 1) : o \in MCOwners, i \in Instances}

\* Hotel: one night, the other, both in either order, or the same one twice
Stays ==
  {<<Night(1)>>, <<Night(2)>>, <<Night(1), Night(2)>>, <<Night(2), Night(1)>>,
   <<Night(1), Night(1)>>}
HotelAvailabilities == {"night1", "night2"}
HotelRequests ==
  {Booking(o, "TEMPORAL", "i1", s, 1) : o \in MCOwners, s \in Stays}

\* A marina: the hotel and a fuel tank
MarinaAvailabilities == HotelAvailabilities \cup {"tank"}
MarinaKind == [a \in MarinaAvailabilities |-> IF a = "tank" THEN "POOL" ELSE "TEMPORAL"]
MarinaResource == [a \in MarinaAvailabilities |-> IF a = "tank" THEN "diesel" ELSE "room412"]
MarinaSlot == [a \in MarinaAvailabilities |-> IF a = "night2" THEN Night(2) ELSE Night(1)]
MarinaRequests ==
  HotelRequests \cup
  {Booking(o, "QUANTITY", "i1", <<>>, 2) : o \in MCOwners} \cup
  {Booking(o, "INDIVIDUAL", i, <<>>, 1) : o \in MCOwners, i \in Instances}

\* Waiting list: one urgent entry and two ordinary ones, one of which was created
\* earlier.
CONSTANTS e1, e2, e3
MCPriority == (e1 :> 1) @@ (e2 :> 2) @@ (e3 :> 2)
MCAddedAt == (e1 :> 3) @@ (e2 :> 2) @@ (e3 :> 1)
MCSegmentOf == (e1 :> "vip") @@ (e2 :> "std") @@ (e3 :> "std")
MCQuota == ("vip" :> 2) @@ ("std" :> 1)
MCPredicates == {{e1, e2}, {e3}}

\* A behaviour is about reservations or about a waiting list.  Bounds: only a
\* list whose policy reads the predicate of the caller is given one, quotas are reset
\* after some of them were used, and the last ticket is left waiting.
NoneWaiting == WInit /\ policy = "FIFO"
MCInit == RInit /\ WInit
MCNext ==
  \/ RNext /\ NoneWaiting /\ UNCHANGED wvars
  \/ /\ WNext /\ RInit /\ UNCHANGED rvars
     /\ served' = served \/ policy \in {"CRITERIA", "QUOTA"} \/ served'[Len(served')].accepts = Entries
     /\ resetAt' # resetAt => allocated' # allocated
     /\ Len(served') + Cardinality(removed') < MaxArrivals
MCSpec == MCInit /\ [][MCNext]_<<rvars, wvars>>
=============================================================================
