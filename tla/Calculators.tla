----------------------------- MODULE Calculators -----------------------------
(***************************************************************************)
(* Calculators of the pricing package: functions from parameters to money, *)
(* each with an interpretation of its result, the adapters between the     *)
(* interpretations, and calculators that choose another one by range.      *)
(* Money is an integer of the smallest units of one currency, multiplied   *)
(* with integers only; a calculation that throws is Failed.  Parameters are *)
(* a record of those that are given.                                       *)
(***************************************************************************)
EXTENDS Integers, FiniteSets, SequencesExt

CONSTANTS
  Failed,
  CalculatorNames,
  Definitions,   \* the calculators that may be added
  RangeValues,   \* values of range selectors
  MaxItems       \* bound on the quantities prices are compared for

\* Steps of no size make Infinity of a price, which is not modelled.
ASSUME CalculatorsAssumption ==
  /\ Failed \notin Int /\ RangeValues \subseteq Int /\ MaxItems \in Nat
  /\ \A d \in Definitions :
       /\ d.kind \in {"FIXED", "STEP", "POINTS", "PERCENTAGE", "RANGES"}
       /\ d.kind = "FIXED" => d.amount \in Int
       /\ d.kind = "STEP" =>
            d.amount \in Int /\ d.increment \in Int /\ d.size \in Nat \ {0}
       /\ d.kind = "POINTS" => \A quantity \in DOMAIN d.points : d.points[quantity] \in Int
       /\ d.kind = "RANGES" =>
            d.ranges \in Seq([from : Int, to : Int, calculator : CalculatorNames])

Interpretations == {"UNIT", "TOTAL", "MARGINAL"}

VARIABLE calculators  \* calculatorRepository by name

AddedUp(amounts) ==
  IF \E i \in DOMAIN amounts : amounts[i] = Failed THEN Failed
  ELSE MapThenSumSet(LAMBDA i : amounts[i], DOMAIN amounts)
Minus(x, y) == IF Failed \in {x, y} THEN Failed ELSE x - y
Times(x, n) == IF x = Failed THEN Failed ELSE x * n

\* Money is rounded to its smallest unit, one half of it up.
Divided(x, n) == (2 * x + n) \div (2 * n)

Given(p, key) == key \in DOMAIN p

-----------------------------------------------------------------------------

\* A range [from, to) of numbers or dates, or of times of day, which crosses
\* midnight unless from is before to.
Normal(r) == r.from < r.to
InRange(r, x) ==
  IF Normal(r) THEN r.from <= x /\ x < r.to ELSE r.from <= x \/ x < r.to

RangeOverlaps(r, o) ==
  CASE Normal(r) /\ Normal(o) -> ~(r.to <= o.from) /\ ~(o.to <= r.from)
    [] ~Normal(r) /\ Normal(o) -> ~(o.from >= r.to /\ o.to <= r.from)
    [] Normal(r) /\ ~Normal(o) -> ~(r.from >= o.to /\ r.to <= o.from)
    [] OTHER -> TRUE

\* Steps of a step function; a step begins after its boundary if it is inclusive.
StepsTo(c, quantity) ==
  IF c.boundary = "INCLUSIVE" /\ quantity > 0 THEN (quantity - 1) \div c.size
  ELSE quantity \div c.size

\* Composites look calculators up by name whenever they are asked.  Names are followed
\* less often than there are calculators: those of a composite were there before it.
Followed(Next(_), c) ==
  LET after[k \in 0 .. Cardinality(DOMAIN calculators)] ==
        IF k = 0 THEN c
        ELSE LET d == after[k - 1] IN IF d.kind = "RANGES" THEN Next(d) ELSE d
  IN after[Cardinality(DOMAIN calculators)]

\* findMatching: the first range that has the value, if one has.
Matching(c, p) ==
  {i \in DOMAIN c.ranges : Given(p, c.selector) /\ InRange(c.ranges[i], p[c.selector])}
NextFor(c, p) ==
  IF Matching(c, p) = {} THEN c ELSE calculators[c.ranges[Min(Matching(c, p))].calculator]
Chosen(c, p) == Followed(LAMBDA d : NextFor(d, p), c)

\* calculate() of each kind of calculator.
Calculate(c, p) ==
  LET d == Chosen(c, p) IN
  CASE d.kind = "FIXED" -> d.amount
    [] d.kind = "STEP" ->
         IF Given(p, "quantity") THEN d.amount + d.increment * StepsTo(d, p.quantity)
         ELSE Failed
    [] d.kind = "POINTS" ->
         IF Given(p, "quantity") /\ p.quantity \in DOMAIN d.points
         THEN d.points[p.quantity] ELSE Failed
    [] d.kind = "PERCENTAGE" ->
         IF Given(p, "baseAmount") THEN Times(p.baseAmount, d.rate) ELSE Failed
    [] d.kind = "RANGES" -> Failed

InterpretationOf(c) ==
  Followed(LAMBDA d : calculators[d.ranges[1].calculator], c).interpretation

-----------------------------------------------------------------------------

\* UnitToTotalAdapter and MarginalToTotalAdapter.  Marginal prices are asked for
\* with the quantity alone, and that of the first item is always there.
ToTotal(c, p) ==
  IF InterpretationOf(c) = "TOTAL" THEN Calculate(c, p)
  ELSE IF ~Given(p, "quantity") THEN Failed
  ELSE IF InterpretationOf(c) = "UNIT" THEN Times(Calculate(c, p), p.quantity)
  ELSE LET last == IF p.quantity < 1 THEN 1 ELSE p.quantity
       IN AddedUp([i \in 1 .. last |-> Calculate(c, [quantity |-> i])])

\* UnitToMarginalAdapter and TotalToMarginalAdapter: what the last item adds.  The
\* total without it is asked for with the quantity alone.
ToMarginal_Next(c, p) ==
  IF InterpretationOf(c) = "MARGINAL" THEN Calculate(c, p)
  ELSE IF ~Given(p, "quantity") \/ p.quantity < 1 THEN Failed
  ELSE Minus(ToTotal(c, [quantity |-> p.quantity + 1]), ToTotal(c, p))
ToMarginal(c, p) ==
  IF InterpretationOf(c) = "MARGINAL" THEN Calculate(c, p)
  ELSE IF ~Given(p, "quantity") \/ p.quantity < 1 THEN Failed
  ELSE IF p.quantity = 1 THEN ToTotal(c, p)
  ELSE Minus(ToTotal(c, p), ToTotal(c, [quantity |-> p.quantity - 1]))

\* TotalToUnitAdapter and MarginalToUnitAdapter: the average price.
ToUnit(c, p) ==
  IF InterpretationOf(c) = "UNIT" THEN Calculate(c, p)
  ELSE IF ~Given(p, "quantity") \/ p.quantity = 0 \/ ToTotal(c, p) = Failed THEN Failed
  ELSE Divided(ToTotal(c, p), p.quantity)

Adapted(c, target, p) ==
  CASE target = "TOTAL" -> ToTotal(c, p)
    [] target = "MARGINAL" -> ToMarginal(c, p)
    [] target = "UNIT" -> ToUnit(c, p)

-----------------------------------------------------------------------------

\* Ranges and CompositeFunctionCalculator refuse ranges that overlap, calculators
\* that are not in the repository and mixed interpretations.
AcceptsRanges(ranges) ==
  /\ \A i, j \in DOMAIN ranges : i < j => ~RangeOverlaps(ranges[i], ranges[j])
  /\ \A i \in DOMAIN ranges : ranges[i].calculator \in DOMAIN calculators
  /\ Cardinality({InterpretationOf(calculators[ranges[i].calculator]) :
                   i \in DOMAIN ranges}) = 1

\* addCalculator: a second calculator of a name is never found by it, so it is no
\* step.  The calculators of a composite are in the repository before it.
AddCalculator(name, definition) ==
  /\ name \notin DOMAIN calculators
  /\ definition.kind = "RANGES" => AcceptsRanges(definition.ranges)
  /\ calculators' = [n \in DOMAIN calculators \cup {name} |->
                       IF n = name THEN definition ELSE calculators[n]]

CalcInit == calculators = << >>
CalcNext == \E name \in CalculatorNames, d \in Definitions : AddCalculator(name, d)
CalcSpec == CalcInit /\ [][CalcNext]_calculators

-----------------------------------------------------------------------------

At(i) == [quantity |-> i]

\* A price is the same whether it is asked for in total or item by item, and the average
\* is the closest amount there is, for every calculator that needs the quantity alone.
InterpretationsAgree ==
  \A n \in DOMAIN calculators, q \in 1 .. MaxItems :
    LET c == calculators[n]
        total == ToTotal(c, At(q))
        excess == ToUnit(c, At(q)) * q - total
    IN (\A i \in 1 .. q : ToTotal(c, At(i)) # Failed) =>
         /\ AddedUp([i \in 1 .. q |-> ToMarginal(c, At(i))]) = total
         /\ -q <= 2 * excess /\ 2 * excess <= q

\* No value chooses between two calculators: whichever ranges a composite was
\* accepted with, those that cross midnight among them, at most one has it.
OneRangePerValue ==
  \A n \in DOMAIN calculators : calculators[n].kind = "RANGES" =>
    \A x \in RangeValues, i, j \in DOMAIN calculators[n].ranges :
      (InRange(calculators[n].ranges[i], x) /\ InRange(calculators[n].ranges[j], x))
        => i = j

\* Whoever asks for a price gets one, the same along every way through adapters and
\* ranges (InterpretationAdapters.ts, Ranges.ts).
PricesAreUnambiguous == InterpretationsAgree /\ OneRangePerValue
=============================================================================
