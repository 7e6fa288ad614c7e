-------------------------- MODULE ProductionPlans ---------------------------
(***************************************************************************)
(* Production analysis: batches are produced, the orchestrator compares    *)
(* them with the active plan and applies the rules that the shortfall      *)
(* fulfils.                                                                *)
(***************************************************************************)
EXTENDS PlanDeltas

CONSTANTS InitialTargets,     \* sequences of [product, quantity]
          Batches,            \* the batches that may be produced
          ProductionTolerances,
          ProductionRules,    \* sequences of rules
          MaxBatches,         \* bound: batches produced in a behaviour
          MaxTarget           \* bound: rules that always apply stop being run past it

Quantities == [product : STRING, quantity : Int]

ASSUME ProductionAssumption ==
  /\ InitialTargets \subseteq Seq(Quantities) /\ Batches \subseteq Quantities
  /\ \A ruleSet \in ProductionRules :
       ruleSet \in Seq([atLeast : Int, percent : Int, once : BOOLEAN])
  /\ MaxBatches \in Nat /\ MaxTarget \in Nat

NoProductionDelta == [planned |-> <<>>, actual |-> <<>>, matched |-> <<>>,
                      missed |-> <<>>, left |-> {}]

VARIABLES plan,        \* the targets of the active plan
          planRules,   \* its modification rules
          rulesUsed,   \* the once-rules that have been applied
          accuracy,    \* the tolerance its caller uses
          produced,    \* the batches so far
          shortfall    \* the last delta

mvars == <<plan, planRules, rulesUsed, accuracy, produced, shortfall>>

Sum(items) == FoldSeq(LAMBDA item, sum : item.quantity + sum, 0, items)
Off(a, b) == IF a < b THEN b - a ELSE a - b

(***************************************************************************)
(* Tolerances and matching: only batches of the target's product are       *)
(* grouped, at most five of them.                                          *)
(***************************************************************************)
QuantityFits(t, target, group) ==
  LET deviation == Off(Sum(group), target.quantity)
  IN deviation <= t.units \/ 100 * deviation <= t.percent * target.quantity

Accepts(t, target, group) ==
  /\ group # <<>>
  /\ \A k \in DOMAIN t : QuantityFits(t[k], target, group)
  /\ t = <<>> => Sum(group) = target.quantity

LongestGroup == 5
SameProduct_Any(target, batches, left) == Ascending(left)
SameProduct(target, batches, left) ==
  Ascending({ k \in left : batches[k].product = target.product })

BestBatches(target, batches, left, t) ==
  LET same == SameProduct(target, batches, left)
  IN FirstRun(same, { r \in Runs(same, LongestGroup) :
                        Accepts(t, target, At(batches, Run(same, r))) })

AnalyzeProduction(targets, batches, t) ==
  FoldLeft(LAMBDA d, i : Assigned(d, i, BestBatches(targets[i], batches, d.left, t)),
           NothingMatched(targets, batches), Positions(targets))

(***************************************************************************)
(* Statistics                                                              *)
(***************************************************************************)
Deviation(d, m) == Sum(At(d.actual, m.actual)) - d.planned[m.planned].quantity
TotalOf(S, value(_)) == FoldSet(LAMBDA m, sum : value(m) + sum, 0, S)

UnderProduced(d) ==
  TotalOf({ m \in DOMAIN d.matched : Deviation(d, d.matched[m]) < 0 },
          LAMBDA m : -Deviation(d, d.matched[m]))
    + Sum(At(d.planned, d.missed))
OverProduced(d) ==
  TotalOf({ m \in DOMAIN d.matched : Deviation(d, d.matched[m]) > 0 },
          LAMBDA m : Deviation(d, d.matched[m]))
    + TotalOf(d.left, LAMBDA k : d.actual[k].quantity)

(***************************************************************************)
(* The orchestrator                                                        *)
(***************************************************************************)
IncreaseBuffer(targets, percent) ==
  [i \in DOMAIN targets |->
     [targets[i] EXCEPT !.quantity = @ + (@ * percent) \div 100]]

MInit == /\ plan \in InitialTargets
         /\ planRules \in ProductionRules
         /\ accuracy \in ProductionTolerances
         /\ rulesUsed = {}
         /\ produced = <<>>
         /\ shortfall = NoProductionDelta

Produce(b) ==
  /\ Len(produced) < MaxBatches
  /\ produced' = Append(produced, b)
  /\ UNCHANGED <<plan, planRules, rulesUsed, accuracy, shortfall>>

Fulfilled_Stale(d) ==
  Ascending({ r \in DOMAIN planRules : UnderProduced(d) >= planRules[r].atLeast })
Fulfilled(d) ==
  Ascending({ r \in DOMAIN planRules :
                UnderProduced(d) >= planRules[r].atLeast /\ r \notin rulesUsed })

Buffered(chosen) ==
  FoldLeft(LAMBDA targets, r : IncreaseBuffer(targets, planRules[r].percent), plan, chosen)

AnalyzeAndApplyToPlan ==
  LET d == AnalyzeProduction(plan, produced, accuracy)
      chosen == Fulfilled(d)
  IN /\ Sum(plan) <= MaxTarget
     /\ shortfall' = d
     /\ plan' = Buffered(chosen)
     /\ rulesUsed' = rulesUsed \union { r \in ToSet(chosen) : planRules[r].once }
     /\ UNCHANGED <<planRules, accuracy, produced>>

MNext == \/ \E b \in Batches : Produce(b)
         \/ AnalyzeAndApplyToPlan

MSpec == MInit /\ [][MNext]_mvars

(***************************************************************************)
(* Properties                                                              *)
(***************************************************************************)

\* The statistics add up whatever the tolerance lets pass: over-production less
\* under-production is what was produced less what was planned, and no batch
\* counts for a target of another product or for two targets
\* (DeltaStatistics.calculate, ProductionMatch.quantityDeviation).
StatisticsAddUp ==
  /\ PartitionsItsItems(shortfall)
  /\ OverProduced(shortfall) - UnderProduced(shortfall)
       = Sum(shortfall.actual) - Sum(shortfall.planned)
  /\ \A m \in DOMAIN shortfall.matched, k \in DOMAIN shortfall.actual :
       Contains(shortfall.matched[m].actual, k) =>
         shortfall.actual[k].product = shortfall.planned[shortfall.matched[m].planned].product

\* Simulation does not run away: however often the same shortfall is analysed, a
\* plan whose rules all apply once settles at its targets with each buffer added
\* at most once, in whatever order the rules came to be fulfilled
\* (ConfigurableProductionPlan.fulfilled with ModificationRule.once).
BuffersAddedOnce ==
  (\A r \in DOMAIN planRules : planRules[r].once) =>
    \E order \in SetToSeqs(rulesUsed), targets \in InitialTargets :
      plan = FoldLeft(LAMBDA t, r : IncreaseBuffer(t, planRules[r].percent), targets, order)
=============================================================================
