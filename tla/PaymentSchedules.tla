-------------------------- MODULE PaymentSchedules --------------------------
(***************************************************************************)
(* Repayment analysis: payments arrive in any order, the orchestrator      *)
(* compares them with the active schedule and applies the rules the delta  *)
(* fulfils, again and again.                                               *)
(***************************************************************************)
EXTENDS PlanDeltas

CONSTANTS InitialSchedules, \* sequences of payments in ascending order
          Incoming,         \* the payments that may be processed
          Tolerances,       \* the strategies of the analyses
          RuleSets,         \* sequences of modification rules
          MaxPayments,      \* bound: payments processed in a behaviour
          DayLength         \* instants in a day

Payments == [when : Int, amount : Int]
\* The constructor of PaymentSchedule takes no others.
InOrder(payments) ==
  \A i, j \in DOMAIN payments : i < j => payments[i].when <= payments[j].when

ScheduleModifiers == [kind : {"remove"}, index : Nat] \cup [kind : {"spread"}, count : Nat \ {0}]

ASSUME PaymentsAssumption ==
  /\ \A schedule \in InitialSchedules : schedule \in Seq(Payments) /\ InOrder(schedule)
  /\ Incoming \subseteq Payments
  /\ \A ruleSet \in RuleSets :
       ruleSet \in Seq([on : {"late", "onTime"}, atLeast : Nat, modifier : Seq(ScheduleModifiers),
                        once : BOOLEAN])
  /\ MaxPayments \in Nat /\ DayLength \in Nat \ {0}

NoDelta == [planned |-> <<>>, actual |-> <<>>, matched |-> <<>>,
            missed |-> <<>>, left |-> {}]

VARIABLES active,      \* the schedule the plan follows now
          rules,       \* its modification rules
          appliedOnce, \* the once-rules that have been applied
          tolerance,   \* the tolerance its caller uses
          received,    \* payments in the order their events arrived
          delta,       \* the last delta
          fulfilled    \* the rules it fulfilled and were applied

pvars == <<active, rules, appliedOnce, tolerance, received, delta, fulfilled>>

(***************************************************************************)
(* Schedules and amounts                                                   *)
(***************************************************************************)
TotalAmount(payments) == FoldSeq(LAMBDA p, sum : p.amount + sum, 0, payments)

\* PaymentSchedule.of: a stable sort by date.
Sooner(payments, i, j) ==
  \/ payments[i].when < payments[j].when
  \/ payments[i].when = payments[j].when /\ i < j
InDateOrder(payments) ==
  LET places == 1..Len(payments)
  IN At(payments, ListedBy(places,
          { pair \in places \X places : Sooner(payments, pair[1], pair[2]) }))

Take(schedule, n) == SubSeq(schedule, 1, IF n < Len(schedule) THEN n ELSE Len(schedule))
Skip(schedule, n) == SubSeq(schedule, n + 1, Len(schedule))

(***************************************************************************)
(* Tolerances.  Days are counted by rounding down, so a payment half a day *)
(* late is a day away and one half a day early is not.                     *)
(***************************************************************************)
Distance(a, b) == IF a < b THEN b - a ELSE a - b
DaysApart(p, q) == Distance((p.when - q.when) \div DayLength, 0)

FitsExactly(p, group) == group = <<p>>
FitsMoney(t, p, group) == Distance(p.amount, TotalAmount(group)) <= t.limit
FitsPercentage(t, p, group) ==
  IF p.amount = 0 THEN TotalAmount(group) = 0
  ELSE 100 * Distance(p.amount, TotalAmount(group)) <= t.limit * p.amount
FitsDays(t, p, group) == \A k \in DOMAIN group : DaysApart(p, group[k]) <= t.limit
\* What was paid until the deadline settles the installment.
FitsPartial(t, p, group) ==
  FitsMoney(t, p, SelectSeq(group, LAMBDA q : q.when <= t.deadline))

SimplyFits(t, p, group) ==
  \/ t.kind = "exact"      /\ FitsExactly(p, group)
  \/ t.kind = "money"      /\ FitsMoney(t, p, group)
  \/ t.kind = "percentage" /\ FitsPercentage(t, p, group)
  \/ t.kind = "days"       /\ FitsDays(t, p, group)
  \/ t.kind = "partial"    /\ FitsPartial(t, p, group)

Fits(t, p, group) ==
  \/ SimplyFits(t, p, group)
  \/ t.kind = "both" /\ SimplyFits(t.first, p, group) /\ SimplyFits(t.second, p, group)
  \/ t.kind = "either" /\ (SimplyFits(t.first, p, group) \/ SimplyFits(t.second, p, group))
  \/ t.kind = "not" /\ ~SimplyFits(t.first, p, group)

(***************************************************************************)
(* The delta and what the rules read of it                                 *)
(***************************************************************************)
BestMatch(p, payments, left, t) ==
  LET candidates == Ascending(left)
  IN FirstRun(candidates, { r \in Runs(candidates, Len(candidates)) :
                              Fits(t, p, At(payments, Run(candidates, r))) })

Analyze(schedule, payments, t) ==
  FoldLeft(LAMBDA d, i : Assigned(d, i, BestMatch(schedule[i], payments, d.left, t)),
           NothingMatched(schedule, payments), Positions(schedule))

OnTime(d, m) == \A k \in DOMAIN m.actual :
                  d.actual[m.actual[k]].when <= d.planned[m.planned].when
OnTimeCount(d) == Cardinality({ m \in DOMAIN d.matched : OnTime(d, d.matched[m]) })
LateCount(d)   == Cardinality({ m \in DOMAIN d.matched : ~OnTime(d, d.matched[m]) })

Fulfills(d, rule) ==
  \/ rule.on = "late"   /\ LateCount(d)   >= rule.atLeast
  \/ rule.on = "onTime" /\ OnTimeCount(d) >= rule.atLeast

(***************************************************************************)
(* Modifiers.  A rule's modifier is a sequence of them (andThenModifier).  *)
(***************************************************************************)
RemoveInstallment(schedule, index) ==
  IF index < Len(schedule) THEN InDateOrder(RemoveAt(schedule, index + 1)) ELSE schedule

\* The installments after the first "paid" ones are replaced by n of the same
\* total, spread evenly between their first and last date; what the division
\* leaves over is in the last one.
Installment(remaining, n, i) ==
  LET from == Head(remaining).when
      to   == Last(remaining).when
  IN [when   |-> IF n = 1 THEN from ELSE from + ((to - from) * i) \div (n - 1),
      amount |-> TotalAmount(remaining) \div n + (IF i = n - 1 THEN TotalAmount(remaining) % n ELSE 0)]

SpreadRemaining_FromTheStart(schedule, n, d) ==
  LET paid == Len(d.matched)
  IN IF paid >= Len(schedule) THEN schedule
     ELSE InDateOrder([i \in 1..n |-> Installment(schedule, n, i - 1)])
SpreadRemaining(schedule, n, d) ==
  LET paid == Len(d.matched)
  IN IF paid >= Len(schedule) THEN schedule
     ELSE InDateOrder(Take(schedule, paid)
            \o [i \in 1..n |-> Installment(Skip(schedule, paid), n, i - 1)])

Modify(schedule, modifier, d) ==
  FoldLeft(LAMBDA s, m : IF m.kind = "remove" THEN RemoveInstallment(s, m.index)
                         ELSE SpreadRemaining(s, m.count, d),
           schedule, modifier)

(***************************************************************************)
(* The orchestrator                                                        *)
(***************************************************************************)
PInit == /\ active \in InitialSchedules
         /\ rules \in RuleSets
         /\ tolerance \in Tolerances
         /\ appliedOnce = {}
         /\ received = <<>>
         /\ delta = NoDelta
         /\ fulfilled = <<>>

PaymentProcessed(p) ==
  /\ Len(received) < MaxPayments
  /\ received' = Append(received, p)
  /\ UNCHANGED <<active, rules, appliedOnce, tolerance, delta, fulfilled>>

\* analyzeAndApplyFromEvents: the rules are chosen by the delta of the schedule
\* before any of them is applied, then applied one after the other.
ToApply(d) ==
  Ascending({ r \in DOMAIN rules : Fulfills(d, rules[r]) /\ r \notin appliedOnce })

Rescheduled(d, chosen) ==
  FoldLeft(LAMBDA s, r : Modify(s, rules[r].modifier, d), active, chosen)

AnalyzeAndApply ==
  LET d == Analyze(active, InDateOrder(received), tolerance)
      chosen == ToApply(d)
  IN /\ delta' = d
     /\ fulfilled' = chosen
     /\ active' = Rescheduled(d, chosen)
     /\ appliedOnce' = appliedOnce \union { r \in ToSet(chosen) : rules[r].once }
     /\ UNCHANGED <<rules, tolerance, received>>

PNext == \/ \E p \in Incoming : PaymentProcessed(p)
         \/ AnalyzeAndApply

PSpec == PInit /\ [][PNext]_pvars

(***************************************************************************)
(* Properties                                                              *)
(***************************************************************************)

\* A payment pays for one installment: every installment is matched or missed and
\* every payment is in one group or left over, and no installment is reported
\* missing while a payment that alone would settle it is left over
\* (DeltaCalculator.calculate and findBestMatch, whatever the tolerance).
PaymentsAreUsedOnce ==
  /\ PartitionsItsItems(delta)
  /\ \A i \in ToSet(delta.missed), k \in delta.left :
       ~Fits(tolerance, delta.planned[i], <<delta.actual[k]>>)

\* Spreading moves what is still owed and nothing else: an analysis whose rules
\* only spread leaves the total of the schedule as it was, and when the matched
\* installments are the first ones of the schedule those stay where they are
\* (SpreadRemainingAmountModifier counts them, it does not look at which they are).
OnlySpreads(chosen) ==
  \A r \in ToSet(chosen) : \A m \in DOMAIN rules[r].modifier :
    rules[r].modifier[m].kind = "spread"
PaidInOrder(d) == \A m \in DOMAIN d.matched : d.matched[m].planned = m

SpreadsOnlyTheRest ==
  [][OnlySpreads(fulfilled') =>
       /\ TotalAmount(active') = TotalAmount(active)
       /\ PaidInOrder(delta') =>
            Take(active', Len(delta'.matched)) = Take(active, Len(delta'.matched))]_pvars
=============================================================================
