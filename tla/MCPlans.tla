------------------------------- MODULE MCPlans -------------------------------
(* Two schedules of three installments, one production plan, expressions over *)
(* two metrics of a customer, and two discounts.  The components share        *)
(* nothing: a behaviour follows one of them, the others stay in a fixed       *)
(* configuration, so that their states add up.                                *)
EXTENDS PaymentSchedules, ProductionPlans, Scoring, Discounts

\* Payments.  An instant is half a day.
Pay(when, amount) == [when |-> when, amount |-> amount]
MCSchedules == { <<Pay(2, 3), Pay(4, 3), Pay(8, 4)>>, <<Pay(2, 3), Pay(2, 3), Pay(6, 3)>> }
MCIncoming  == { Pay(1, 1), Pay(2, 3), Pay(3, 2), Pay(5, 3), Pay(8, 4) }

Money(n) == [kind |-> "money", limit |-> n]
Days(n)  == [kind |-> "days", limit |-> n]
MCTolerances ==
  { [kind |-> "exact"], Money(0), Days(1),
    [kind |-> "percentage", limit |-> 40],
    [kind |-> "partial", limit |-> 0, deadline |-> 4],
    [kind |-> "both", first |-> Money(1), second |-> Days(2)],
    [kind |-> "either", first |-> Money(0), second |-> Days(0)],
    [kind |-> "not", first |-> Days(1)] }

Without(i) == [kind |-> "remove", index |-> i]
Spread(n)  == [kind |-> "spread", count |-> n]
Rule(on, n, modifier, once) == [on |-> on, atLeast |-> n, modifier |-> modifier, once |-> once]
MCRuleSets ==
  { <<Rule("onTime", 1, <<Without(2)>>, TRUE), Rule("late", 1, <<Spread(1)>>, TRUE)>>,
    <<Rule("late", 1, <<Spread(3)>>, FALSE), Rule("onTime", 2, <<Spread(2)>>, TRUE)>>,
    <<Rule("late", 2, <<Spread(2), Without(0)>>, FALSE)>> }

\* Production.
Quantity(product, n) == [product |-> product, quantity |-> n]
MCTargets == { <<Quantity("bolt", 10), Quantity("nut", 4), Quantity("bolt", 5)>> }
MCBatches == { Quantity("bolt", 4), Quantity("bolt", 6), Quantity("bolt", 5),
               Quantity("nut", 3), Quantity("nut", 5) }
Within(percent, units) == [percent |-> percent, units |-> units]
MCProductionTolerances ==
  { <<>>, <<Within(20, 0)>>, <<Within(0, 1), Within(10, 0)>>, <<Within(50, 2)>> }
Buffer(n, percent, once) == [atLeast |-> n, percent |-> percent, once |-> once]
MCProductionRules ==
  { <<Buffer(9, 10, TRUE), Buffer(5, 25, TRUE)>>, <<Buffer(4, 50, FALSE)>> }

\* Scoring.
MCReadings == "YEARLY" :> {9, 10, 11, 15, 19, 20, 21, 29, 30} @@ "COMPLAINTS" :> 2 .. 4
MCMargins  == "YEARLY" :> 10 @@ "COMPLAINTS" :> 0
MCTerms ==
  { MetricCmp("YEARLY", "GT", 20), MetricCmp("YEARLY", "GTE", 20), MetricCmp("YEARLY", "LTE", 20),
    MetricCmp("YEARLY", "EQ", 20), MetricCmp("COMPLAINTS", "GTE", 3),
    Labeled("fee", ConstScore(-3)), ConstScore(0) }

\* Discounts.
Client(status, expenses, years) == [status |-> status, expenses |-> expenses, years |-> years]
MCClients == { Client("VIP", 500, 1), Client("STANDARD", 500, 5), Client("GOLD", 100, 0) }
MCItems == { [product |-> "book", base |-> 10000], [product |-> "lamp", base |-> 400] }

Status(status)   == [kind |-> "StatusRule", status |-> status]
Expenses(amount) == [kind |-> "ExpensesRule", minAmount |-> amount]
Years(n)         == [kind |-> "TimeBeingCustomer", threshold |-> n]
And(a, b)        == [kind |-> "AND", left |-> a, right |-> b]
Or(a, b)         == [kind |-> "OR", left |-> a, right |-> b]
Not(a)           == [kind |-> "NOT", child |-> a]
Everybody == [kind |-> "none"]
MCPredicates ==
  { Everybody, Status("VIP"), Not(Years(2)),
    And(Status("STANDARD"), And(Expenses(200), Years(1))),
    Or(And(Status("VIP"), Years(1)), Not(Expenses(200))),
    Not(Or(Not(Expenses(200)), And(Years(2), Status("STANDARD")))) }

Costly(amount)   == [kind |-> "MoreExpensiveThanPredicate", amount |-> amount]
Is(product)      == [kind |-> "ItemIdPredicate", product |-> product]
Fixed(amount)    == [kind |-> "FixedPrice", amount |-> amount]
Less(amount)     == [kind |-> "Amount", amount |-> amount]
Further(percent) == [kind |-> "PercentageAccumulated", percent |-> percent]
OfBase(percent)  == [kind |-> "PercentageFromBase", percent |-> percent]
Margin(percent)  == [kind |-> "MarginGuardian", minMargin |-> percent]
Unguarded        == [kind |-> "EmptyGuardian"]
Modifier(predicate, applier, guardian) ==
  [kind |-> "ConfigurableItemModifier", predicate |-> predicate, applier |-> applier,
   guardian |-> guardian]
MCModifiers ==
  { [kind |-> "PercentageOfferItemModifier", percent |-> 15],
    Modifier(Costly(400), Less(300), Unguarded), Modifier(Is("book"), OfBase(50), Unguarded),
    Modifier(Is("lamp"), Further(10), Margin(80)), Modifier(Costly(100), OfBase(50), Margin(50)),
    Modifier(Costly(100), Fixed(400), Margin(5)), Modifier(Costly(1000), Less(3000), Margin(60)) }

\* A behaviour is about the one of the four that leaves its configuration.
NoProduction == /\ produced = <<>> /\ shortfall = NoProductionDelta
                /\ accuracy = <<>> /\ Len(planRules) = 1
NoPayments   == /\ received = <<>> /\ delta = NoDelta
                /\ tolerance = Days(1) /\ Len(rules) = 1
NoScoring    == expr = ConstScore(0) /\ depth = 0
NoDiscounts  == discounts = <<>>

Init == /\ PInit /\ MInit /\ XInit /\ DInit
        /\ \/ NoProduction /\ NoScoring
           \/ NoPayments /\ NoScoring
           \/ NoPayments /\ NoProduction
Next == \/ PNext /\ NoProduction /\ NoScoring /\ NoDiscounts /\ UNCHANGED <<mvars, xvars, dvars>>
        \/ MNext /\ NoPayments /\ NoScoring /\ NoDiscounts /\ UNCHANGED <<pvars, xvars, dvars>>
        \/ Extend /\ NoPayments /\ NoProduction /\ NoDiscounts /\ UNCHANGED <<pvars, mvars, dvars>>
        \/ SaveDiscount /\ NoPayments /\ NoProduction /\ NoScoring /\ UNCHANGED <<pvars, mvars, xvars>>
Spec == Init /\ [][Next]_<<pvars, mvars, xvars, dvars>>
=============================================================================
