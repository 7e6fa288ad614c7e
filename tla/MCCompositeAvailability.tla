----------------------- MODULE MCCompositeAvailability -----------------------
(***************************************************************************)
(* A theatre: an operating room and a stock of beds, the components of two *)
(* composites, one of them with the room alone.  Or, in other behaviours,  *)
(* a guest room with two nights that are blocked together.                 *)
(***************************************************************************)
EXTENDS CompositeAvailability, GroupedAvailability

CONSTANTS o1, o2

MCOwners == {o1, o2}
Theatre == {"room", "beds"}
Nights == <<"friday", "saturday">>
MCAvailabilities == Theatre \cup {"friday", "saturday"}
MCResources == Theatre \cup {"suite"}
MCKind == [a \in MCAvailabilities |->
  CASE a = "beds" -> "POOL" [] a = "room" -> "INDIVIDUAL" [] OTHER -> "TEMPORAL"]
MCResource == [a \in MCAvailabilities |-> IF a \in Theatre THEN a ELSE "suite"]
Friday == [from |-> 0, to |-> 1]
Saturday == [from |-> 1, to |-> 2]
MCSlots == {Friday}
MCSlotOf == [a \in MCAvailabilities |-> IF a = "saturday" THEN Saturday ELSE Friday]
MCCapacity == [a \in MCAvailabilities |-> 2]
MCComponents == [k \in {"surgery", "visit"} |->
  IF k = "surgery" THEN <<"room", "beds">> ELSE <<"room">>]

Part(a, o, q, d) ==
  [type |-> MCKind[a], resourceId |-> a, slot |-> Friday, owner |-> o,
   quantity |-> q, duration |-> d]

\* Requests for both components: the room for the name of p and the duration d, the
\* beds for the duration e.
Both(o, p, d, e, quantities) ==
  {[owner |-> o, parts |-> [a \in Theatre |->
      IF a = "room" THEN Part(a, p, 1, d) ELSE Part(a, o, q, e)]] : q \in quantities}

\* Everybody asks in their own name, o1 also for a room in the name of o2.
MCRequests ==
  UNION {Both(o, o, 1, 1, {1, 2}) \cup Both(o, o, 1, Indefinite, {1, 2})
           \cup Both(o, o, Indefinite, Indefinite, {1}) : o \in MCOwners}
  \cup Both(o1, o2, 1, 1, {1}) \cup Both(o1, o2, Indefinite, 1, {1})

\* A behaviour is about the theatre or about the nights.  Bound: three blockades in
\* the theatre, and one more for the nights, two stays.
MCInit ==
  \/ CInit /\ stays = {} /\ singly = FALSE
  \/ TInit /\ composites = [k \in Composites |-> {}] /\ enlisted = {}
MCNext ==
  \/ CNext /\ repository # Grouped /\ UNCHANGED <<stays, singly>>
     /\ Registered' \subseteq Theatre /\ Len(granted') < MaxBlockades
  \/ TNext /\ repository = Grouped /\ UNCHANGED <<composites, enlisted>>
MCSpec == MCInit /\ [][MCNext]_<<cvars, tvars>>
=============================================================================
