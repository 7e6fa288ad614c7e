---------------------------- MODULE ProductRules ----------------------------
(***************************************************************************)
(* The rules a product carries: which selections make a valid package,     *)
(* which features and marks an instance must have.  Pure definitions;      *)
(* ProductCatalog uses them.                                               *)
(***************************************************************************)
EXTENDS Integers, SequencesExt

CONSTANTS ProductIds,     \* product identifiers
          SelectionRules  \* the rules of packages, with all that they are made of

\* A type that is for everybody
AlwaysTrue == [kind |-> "alwaysTrue"]

(***************************************************************************)
(* Package selections: sequences of [product, quantity].                   *)
(***************************************************************************)
LinesOf(set, selection) == { k \in DOMAIN selection : selection[k].product \in set }
Count_Lines(set, selection) == Cardinality(LinesOf(set, selection))
Count(set, selection) ==
  MapThenSumSet(LAMBDA k : selection[k].quantity, LinesOf(set, selection))

\* isSatisfiedBy of all kinds of rules, for the count of each set of products
Satisfied(count) ==
  LET satisfied[rule \in SelectionRules] ==
        \/ rule.kind = "subset" /\ count[rule.set] \in rule.min..rule.max
        \/ rule.kind = "and"    /\ \A k \in DOMAIN rule.rules : satisfied[rule.rules[k]]
        \/ rule.kind = "or"     /\ \E k \in DOMAIN rule.rules : satisfied[rule.rules[k]]
        \/ rule.kind = "not"    /\ ~satisfied[rule.rule]
        \/ rule.kind = "ifThen" /\ (satisfied[rule.condition] =>
                                     \A k \in DOMAIN rule.rules : satisfied[rule.rules[k]])
  IN satisfied
Counts(selection) == [set \in SUBSET ProductIds |-> Count(set, selection)]
Admits(rule, selection) == Satisfied(Counts(selection))[rule]

\* PackageTypeBuilder: a choice from a set of products is a rule about their number.
\* Unlimited stands for MAX_SAFE_INTEGER, which no selection reaches.
Unlimited == 1000000
WithChoice(set, min, max) == [kind |-> "subset", set |-> set, min |-> min, max |-> max]
WithSingleChoice(set) == WithChoice(set, 1, 1)
WithOptionalChoice(set) == WithChoice(set, 0, 1)
WithRequiredChoice(set) == WithChoice(set, 1, Unlimited)

\* PackageStructure.validate: the numbers of the rules that are not satisfied.
Violated(structure, selection) ==
  { k \in DOMAIN structure : ~Admits(structure[k], selection) }

(***************************************************************************)
(* Features: a type's definitions by name.  A name defined twice keeps the *)
(* last definition, so a mandatory feature listed as optional too becomes  *)
(* optional.                                                               *)
(***************************************************************************)
FeatureTypes(definitions) ==
  LET named(n) == { k \in DOMAIN definitions : definitions[k].name = n }
  IN [ n \in { definitions[k].name : k \in DOMAIN definitions } |->
         definitions[CHOOSE k \in named(n) : \A o \in named(n) : o <= k] ]

\* A value has a form and a content.  A constraint fixes the type of the values
\* and, but for the unconstrained, the contents it accepts: a list of allowed
\* values, a range, the matches of a pattern.
ToConstraint(config) ==
  [unconstrained |-> config.kind = "UnconstrainedConfig",
   accepts |-> config.accepts,
   type |-> CASE config.kind \in {"AllowedValuesConfig", "RegexConfig"} -> "TEXT"
              [] config.kind = "NumericRangeConfig"  -> "INTEGER"
              [] config.kind = "DecimalRangeConfig"  -> "DECIMAL"
              [] config.kind = "DateRangeConfig"     -> "DATE"
              [] config.kind = "UnconstrainedConfig" -> config.valueType]

DefinitionsOf(mandatory, optional) ==
  LET definitions(features, isMandatory) ==
        [ k \in DOMAIN features |-> [name |-> features[k].name, mandatory |-> isMandatory,
                                     constraint |-> ToConstraint(features[k].config)] ]
  IN definitions(mandatory, TRUE) \o definitions(optional, FALSE)

IsInstance(type, value) ==
  value.form \in CASE type = "TEXT"    -> {"text", "date"}
                   [] type = "INTEGER" -> {"integer"}
                   [] type = "DECIMAL" -> {"integer", "fraction"}
                   [] type = "DATE"    -> {"date"}
                   [] type = "BOOLEAN" -> {"boolean"}
IsValid(feature, value) ==
  LET c == feature.constraint
  IN IsInstance(c.type, value) /\ (c.unconstrained \/ value.content \in c.accepts)

\* ProductFeatureInstances.validateAgainst: it looks at names only.
MeetsFeatures(features, types) ==
  /\ \A n \in DOMAIN types : types[n].mandatory => n \in DOMAIN features
  /\ DOMAIN features \subseteq DOMAIN types

(***************************************************************************)
(* Tracking: the marks an instance must have.                              *)
(***************************************************************************)
TrackedIndividually(strategy) ==
  strategy \in {"UNIQUE", "INDIVIDUALLY_TRACKED", "INDIVIDUALLY_AND_BATCH_TRACKED"}
TrackedByBatch(strategy) ==
  strategy \in {"BATCH_TRACKED", "INDIVIDUALLY_AND_BATCH_TRACKED"}

MeetsTracking(strategy, hasSerial, hasBatch) ==
  IF strategy = "IDENTICAL" THEN ~hasSerial /\ ~hasBatch
  ELSE /\ hasSerial \/ hasBatch
       /\ TrackedIndividually(strategy) => hasSerial
       /\ TrackedByBatch(strategy) => hasBatch

\* A package is never "interchangeable": it always carries a mark.
PackageMeetsTracking(strategy, hasSerial, hasBatch) ==
  /\ hasSerial \/ hasBatch
  /\ TrackedIndividually(strategy) => hasSerial
  /\ TrackedByBatch(strategy) => hasBatch
=============================================================================
