-------------------------------- MODULE Scoring --------------------------------
(***************************************************************************)
(* The scoring engine of rules/: expressions over the metrics of a         *)
(* customer, evaluated by one visitor with different algebras, and rules   *)
(* that score every event of a window.  An expression is a record with a   *)
(* kind and its parts; it is built step by step.  Degrees of the fuzzy     *)
(* algebra are integers out of Full, exact for two levels of IF.           *)
(***************************************************************************)
EXTENDS Integers, SequencesExt

CONSTANTS
  Metrics,
  Readings,   \* the values each metric may have
  Margins,    \* how far around a threshold each metric is fuzzy, 0 or a multiple of 10
  Terms,      \* the expressions that others are built from
  MaxDepth,   \* bound on the operators around a term
  MaxWindow   \* bound on the events of a window

ASSUME ScoringAssumption ==
  /\ Margins \in [Metrics -> Nat]
  /\ MaxDepth \in Nat /\ MaxWindow \in Nat

VARIABLES
  expr,   \* the expression under construction
  depth   \* how often it was extended

xvars == <<expr, depth>>

-----------------------------------------------------------------------------
(* ast/ *)

Expression(kind, parts) == [kind |-> kind, parts |-> parts]
MetricCmp(metric, op, value) ==
  [kind |-> "cmp", parts |-> <<>>, metric |-> metric, op |-> op, value |-> value]
ConstScore(value) == [kind |-> "const", parts |-> <<>>, value |-> value]
Labeled(label, inner) == [kind |-> "label", parts |-> <<inner>>, label |-> label]

Compare(op, left, right) ==
  CASE op = "GT" -> left > right
    [] op = "GTE" -> left >= right
    [] op = "LT" -> left < right
    [] op = "LTE" -> left <= right
    [] op = "EQ" -> left = right

-----------------------------------------------------------------------------
(* The algebras: the value of an expression from the values of its parts p *)

Lesser(a, b) == IF a <= b THEN a ELSE b
Greater(a, b) == IF a >= b THEN a ELSE b
Added(values) == FoldLeft(LAMBDA a, b : a + b, 0, values)

\* ScoreAlgebra: truth is a score above zero.
ScoreOf(e, p, ctx) ==
  CASE e.kind = "and" -> Lesser(p[1], p[2])
    [] e.kind = "or" -> Greater(p[1], p[2])
    [] e.kind = "not" -> IF p[1] > 0 THEN 0 ELSE 1
    [] e.kind = "cmp" -> IF Compare(e.op, ctx[e.metric], e.value) THEN 1 ELSE 0
    [] e.kind = "const" -> e.value
    [] e.kind = "sum" -> Added(p)
    [] e.kind = "if" -> IF p[1] > 0 THEN p[2] ELSE p[3]
    [] e.kind = "label" -> p[1]

\* ExplainableAlgebra: the same totals, and the labels that contributed.  A branch
\* that is not taken takes its contributions with it, and so does a condition.
ExplainedOf_KeepsCondition(e, p, ctx) ==
  LET total == ScoreOf(e, [i \in DOMAIN p |-> p[i].total], ctx)
      all == FlattenSeq([i \in DOMAIN p |-> p[i].contributions])
      own == IF e.kind = "label" /\ total # 0 THEN <<[label |-> e.label, value |-> total]>> ELSE <<>>
  IN [total |-> total, contributions |-> all \o own]
ExplainedOf(e, p, ctx) ==
  LET total == ScoreOf(e, [i \in DOMAIN p |-> p[i].total], ctx)
      all == FlattenSeq([i \in DOMAIN p |-> p[i].contributions])
      taken == IF p[1].total > 0 THEN p[2] ELSE p[3]
      own == IF e.kind = "label" /\ total # 0 THEN <<[label |-> e.label, value |-> total]>> ELSE <<>>
  IN [total |-> total,
      contributions |-> IF e.kind = "if" THEN taken.contributions ELSE all \o own]

Full == 10000
\* fuzzyGreater and, turned around, fuzzyLess
Ramp(x, margin) == IF x <= 0 THEN 0 ELSE IF x >= margin THEN Full ELSE (x * Full) \div margin

FuzzyCmp(v, op, value, margin) ==
  CASE op = "GT" -> Ramp(v - value, margin)
    [] op = "GTE" -> Ramp(v - (value - margin \div 10), margin)
    [] op = "LT" -> Ramp(value - v, margin)
    [] op = "LTE" -> Ramp((value + margin \div 10) - v, margin)
    [] op = "EQ" -> Full - Ramp(Greater(v - value, value - v), margin)

\* FuzzyAlgebra, which has no labels of its own
FuzzyOf(e, p, ctx) ==
  CASE e.kind = "and" -> Lesser(p[1], p[2])
    [] e.kind = "or" -> Greater(p[1], p[2])
    [] e.kind = "not" -> Full - p[1]
    [] e.kind = "cmp" ->
         IF Margins[e.metric] = 0
         THEN IF Compare(e.op, ctx[e.metric], e.value) THEN Full ELSE 0
         ELSE FuzzyCmp(ctx[e.metric], e.op, e.value, Margins[e.metric])
    [] e.kind = "const" -> IF e.value = 0 THEN 0 ELSE Full
    [] e.kind = "sum" -> Lesser(Added(p), Full)
    [] e.kind = "if" -> (p[1] * p[2] + (Full - p[1]) * p[3]) \div Full
    [] e.kind = "label" -> p[1]

\* AlgebraicVisitor: all parts are evaluated, also the branches not taken.
RECURSIVE Accept(_, _, _)
Accept(e, algebra, ctx) ==
  LET p == [i \in DOMAIN e.parts |-> Accept(e.parts[i], algebra, ctx)]
  IN CASE algebra = "score" -> ScoreOf(e, p, ctx)
       [] algebra = "explained" -> ExplainedOf(e, p, ctx)
       [] algebra = "fuzzy" -> FuzzyOf(e, p, ctx)

\* EventRuleEngine.evaluateRules: for each event and each rule whose filter holds, the
\* rule's score.  The context of an event has the metrics of the window.
EvaluateRules(rules, ctx, events) ==
  FoldLeft(LAMBDA total, event :
             FoldLeft(LAMBDA t, rule : IF Accept(rule.filter, "score", ctx) > 0
                                       THEN t + Accept(rule.score, "score", ctx) ELSE t,
                      total, rules),
           0, [i \in 1 .. events |-> i])

-----------------------------------------------------------------------------
(* Building expressions *)

IfThenElse(c, t, e) == Expression("if", <<c, t, e>>)

XInit == expr \in Terms /\ depth = 0

Extend ==
  /\ depth < MaxDepth
  /\ depth' = depth + 1
  /\ \/ \E kind \in {"and", "or", "sum"}, t \in Terms : expr' = Expression(kind, <<expr, t>>)
     \/ \E t \in Terms : expr' = Expression("sum", <<expr, IfThenElse(t, ConstScore(5), ConstScore(0))>>)
     \/ expr' = Expression("not", <<expr>>)
     \/ \E t \in Terms : expr' = IfThenElse(expr, t, ConstScore(0))
     \/ \E t \in Terms : expr' \in {IfThenElse(t, expr, ConstScore(0)), IfThenElse(t, ConstScore(0), expr)}
     \/ expr' = Labeled("reason", expr)

-----------------------------------------------------------------------------
(* Properties *)

\* Labels on the terms of sums and on what conditions choose, none inside another;
\* what has no label is worth nothing.
RECURSIVE Unlabelled(_)
Unlabelled(e) == e.kind # "label" /\ \A i \in DOMAIN e.parts : Unlabelled(e.parts[i])
RECURSIVE Itemised(_)
Itemised(e) ==
  \/ e.kind = "label" /\ Unlabelled(e.parts[1])
  \/ e.kind = "const" /\ e.value = 0
  \/ e.kind = "sum" /\ \A i \in DOMAIN e.parts : Itemised(e.parts[i])
  \/ e.kind = "if" /\ Itemised(e.parts[2]) /\ Itemised(e.parts[3])

\* Sums of half truths and negative scores have no degree of their own.
RECURSIVE Weighable(_)
Weighable(e) ==
  /\ e.kind # "sum" /\ (e.kind = "const" => e.value >= 0)
  /\ \A i \in DOMAIN e.parts : Weighable(e.parts[i])

\* A sum of conditions with a score each, which can be read as a list of rules.
RECURSIVE RulesOf(_)
RulesOf(e) ==
  IF e.kind = "sum" THEN FlattenSeq([i \in DOMAIN e.parts |-> RulesOf(e.parts[i])])
  ELSE <<[filter |-> e.parts[1], score |-> e.parts[2]]>>
RECURSIVE IsRuleBook(_)
IsRuleBook(e) ==
  \/ e.kind = "if" /\ e.parts[3] = ConstScore(0)
  \/ e.kind = "sum" /\ \A i \in DOMAIN e.parts : IsRuleBook(e.parts[i])

\* However a customer is scored, the answers fit together: the contributions of an
\* itemised score add up to it, also where the conditions have labels of their own;
\* what the fuzzy algebra is certain of is so for the score, and what it excludes is
\* not, at the edge of every margin; and rules that are applied event by event give
\* the events times the score of the rules written as one expression
\* (ExplainableAlgebra, FuzzyAlgebra.metricCmp, EventRuleEngine.evaluateRules).
ScoresFitTogether ==
  \A ctx \in {c \in [Metrics -> UNION {Readings[m] : m \in Metrics}] :
                \A m \in Metrics : c[m] \in Readings[m]} :
    LET score == Accept(expr, "score", ctx)
        contributions == Accept(expr, "explained", ctx).contributions
        degree == Accept(expr, "fuzzy", ctx)
    IN /\ Itemised(expr) =>
            Added([i \in DOMAIN contributions |-> contributions[i].value]) = score
       /\ Weighable(expr) => (degree = Full => score > 0) /\ (degree = 0 => score <= 0)
       /\ IsRuleBook(expr) => \A n \in 0 .. MaxWindow :
            EvaluateRules(RulesOf(expr), ctx, n) = n * score
=============================================================================
