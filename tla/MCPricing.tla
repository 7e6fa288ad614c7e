------------------------------ MODULE MCPricing ------------------------------
(***************************************************************************)
(* A bill of a fee and a tax on it.  The fee changes for one instant, or for *)
(* good and for one tariff; a total adds the fee to the bill.               *)
(***************************************************************************)
EXTENDS Pricing, TLC

Always == [from |-> 0, to |-> 3]
Later == [from |-> 1, to |-> 3]
Once == [from |-> 1, to |-> 2]

ByRange(selector, first, second, end) ==
  [kind |-> "RANGES", selector |-> selector,
   ranges |-> <<[from |-> first, to |-> second, calculator |-> "k1"],
                [from |-> second, to |-> end, calculator |-> "k2"]>>]

MCDefinitions ==
  {[kind |-> "FIXED", amount |-> 6, interpretation |-> i] : i \in {"UNIT", "MARGINAL"}}
  \cup
  {[kind |-> "STEP", amount |-> 13, increment |-> 6, size |-> 1,
    boundary |-> "INCLUSIVE", interpretation |-> "TOTAL"],
   [kind |-> "POINTS", points |-> 1 :> 6 @@ 2 :> 18, interpretation |-> "TOTAL"],
   [kind |-> "PERCENTAGE", rate |-> 2, interpretation |-> "TOTAL"],
   ByRange("quantity", 0, 2, 4), ByRange("hour", 3, 1, 3), ByRange("hour", 2, 1, 3)}

Simple(name, calculator, mappings, tariffs, validity) ==
  [name |-> name, calculator |-> calculator, mappings |-> mappings,
   tariffs |-> tariffs, validity |-> validity]
Composite(name, children, dependencies, validity) ==
  [name |-> name, children |-> children, dependencies |-> dependencies,
   tariffs |-> Tariffs, validity |-> validity]

MCSimpleRequests ==
  {Simple("fee", "k1", {}, Tariffs, Always),
   Simple("fee", "k2", {}, Tariffs, Once),
   Simple("fee", "k2", {}, {"premium"}, Later),
   Simple("tax", "k2", {[from |-> "kwh", to |-> "quantity"]}, Tariffs, Always)}
TaxOnFee ==
  <<[child |-> "tax", parameter |-> "baseAmount",
     expression |-> [plus |-> <<"fee">>, minus |-> <<>>, factor |-> 1]]>>
MCCompositeRequests ==
  {Composite("bill", <<"fee", "tax">>, <<>>, Always),
   Composite("bill", <<"fee", "tax">>, TaxOnFee, Later),
   Composite("total", <<"bill", "fee">>, <<>>, Always)}

MCQueries == {[quantity |-> 2, kwh |-> 3]}

\* Bound: calculators are added first, and when there are components, only the two
\* these are made with.
MCSpec ==
  PrInit /\ [][PrNext /\ (calculators' # calculators => components = <<>>)
                      /\ (components' # components => "k3" \notin DOMAIN calculators)]_prvars
=============================================================================
