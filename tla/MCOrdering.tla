------------------------------ MODULE MCOrdering ------------------------------
(* Orders do not share state, so one order meets every case.  Either it has    *)
(* one line, ordered in two quantities and paid in two attempts, and parties   *)
(* do not matter; or two lines in one quantity, with parties of all kinds,     *)
(* and some lists of parties are refused.                                      *)
EXTENDS Ordering

CONSTANTS o1, a, b, one, two, anna, office, shop

With(party, roles) == [party |-> party, roles |-> roles]

\* singleParty without a payer
Plain == <<With(anna, {"ORDERER"}), With(shop, {"EXECUTOR"})>>

\* singleParty and corporate of OrderParties; two payers; a contact for the order
MCOrderPartyData ==
  { Plain,
    <<With(anna, {"ORDERER", "PAYER", "RECEIVER"}), With(shop, {"EXECUTOR"})>>,
    <<With(office, {"ORDERER", "PAYER"}), With(shop, {"EXECUTOR"}),
      With(anna, {"RECEIVER"}), With(office, {"RECEIVER"})>>,
    <<With(anna, {"ORDERER", "PAYER"}), With(office, {"PAYER"}), With(shop, {"EXECUTOR"})>>,
    <<With(anna, {"ORDERER", "DELIVERY_CONTACT"}), With(shop, {"EXECUTOR"})>> }

MCLinePartyData ==
  { <<>>,
    <<With(office, {"RECEIVER", "DELIVERY_CONTACT"})>>,
    <<With(anna, {"PICKUP_AUTHORIZED"}), With(office, {"PICKUP_AUTHORIZED"})>>,
    <<With(office, {"PAYER", "RECEIVER"})>> }

\* Bounds
OneLine(o) == parties[o] = Plain /\ \A l \in lines[o] : l.id = a /\ l.parties = <<>>
TwoLines(o) ==
  /\ parties[o] # Plain
  /\ Cardinality({l.quantity : l \in lines[o]} \cup {l.quantity : l \in allocated[o]}) <= 1
  /\ Len(payments[o]) <= 1

MCNext == Next /\ \A o \in Orders : (status[o] # "NEW" => OneLine(o) \/ TwoLines(o))'

MCSpec == Init /\ [][MCNext]_vars

Alike == Permutations(Quantities)
=============================================================================
