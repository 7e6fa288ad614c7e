-------------------------------- MODULE Lease --------------------------------
(***************************************************************************)
(* What an exclusive availability promises to its callers: at any time it  *)
(* has at most one holder, and it passes from one owner to another only    *)
(* through a state in which nobody holds it.                               *)
(***************************************************************************)
CONSTANTS Items, Owners, Free

VARIABLE holder

LeaseInit == holder = [a \in Items |-> Free]

\* A free item is taken, or its holder takes it again.
Take(a, o) ==
  /\ holder[a] \in {Free, o}
  /\ holder' = [holder EXCEPT ![a] = o]

\* Items are given back, or their leases lapse, several at once when time passes.
Vacate(gone) ==
  holder' = [a \in Items |-> IF a \in gone THEN Free ELSE holder[a]]

LeaseNext ==
  \/ \E a \in Items, o \in Owners : Take(a, o)
  \/ \E gone \in SUBSET Items : Vacate(gone)

LeaseSpec == LeaseInit /\ [][LeaseNext]_holder
=============================================================================
