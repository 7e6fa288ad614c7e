--------------------------- MODULE MCAvailability ---------------------------
(***************************************************************************)
(* A hall with one availability of each kind, and resources that were      *)
(* registered twice.                                                       *)
(***************************************************************************)
EXTENDS Availability, TLC

CONSTANTS o1, o2

MCOwners == {o1, o2}
OwnerSymmetry == Permutations(MCOwners)

Slot(f, t) == [from |-> f, to |-> t]
MCSlots == {Slot(0, 2), Slot(1, 3)}
MCDurations == {Indefinite, 1}

\* A hall that is let as a seat, by time slot and by the litre of its tank.
HallAvailabilities == {"seat", "slot", "tank"}
HallKind ==
  [a \in HallAvailabilities |->
     CASE a = "seat" -> "INDIVIDUAL" [] a = "slot" -> "TEMPORAL" [] OTHER -> "POOL"]

\* One seat registered twice and one slot registered twice.
TwiceAvailabilities == {"seat1", "seat2", "slot1", "slot2"}
TwiceKind ==
  [a \in TwiceAvailabilities |->
     IF a \in {"seat1", "seat2"} THEN "INDIVIDUAL" ELSE "TEMPORAL"]
TwiceResource ==
  [a \in TwiceAvailabilities |-> IF a \in {"seat1", "seat2"} THEN "seat" ELSE "room"]

SameResource == [a \in Availabilities |-> CHOOSE r \in Resources : TRUE]
SameSlot == [a \in Availabilities |-> Slot(0, 2)]
CapacityThree == [a \in Availabilities |-> 3]
=============================================================================
