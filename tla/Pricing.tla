------------------------------- MODULE Pricing -------------------------------
(***************************************************************************)
(* The components of the pricing package: named prices with versions that  *)
(* are valid for a time, and composites that add up other components.      *)
(* Components are immutable objects: a composite holds the components it   *)
(* was made of, and the repository replaces them, one level deep, by those *)
(* of the same id when it hands the composite out.  A facade has one clock *)
(* reading for its life; several facades share the repository.             *)
(***************************************************************************)
EXTENDS Calculators

CONSTANTS
  ComponentNames,
  SimpleRequests,    \* [name, calculator, mappings, tariffs, validity]
  CompositeRequests, \* [name, children, dependencies, tariffs, validity]
  Tariffs,       \* what applicability constraints look at
  Clocks,        \* clock readings of facades
  Instants,      \* times prices are asked for
  Queries,       \* parameters prices are asked with, but for the time
  MaxVersions    \* bound on all versions of all components

ASSUME PricingAssumption ==
  /\ \A r \in SimpleRequests : r.name \in ComponentNames /\ r.tariffs \subseteq Tariffs
  /\ \A r \in CompositeRequests :
       {r.name} \cup Range(r.children) \subseteq ComponentNames
  /\ MaxVersions \in Nat

VARIABLE components  \* componentRepository by name

prvars == <<calculators, components>>

ValidAt(v, t) == v.validity.from <= t /\ t < v.validity.to

\* REJECT_IDENTICAL, the strategy of the facade.
AcceptsVersion(versions, validity) ==
  \A i \in DOMAIN versions : versions[i].validity # validity

-----------------------------------------------------------------------------

\* versionAt: of the valid versions the one that starts last, of these the one
\* that was defined last; the sort keeps the order of those that are equal.
Precedes(v, w) ==
  \/ v.validity.from > w.validity.from
  \/ v.validity.from = w.validity.from /\ v.definedAt > w.definedAt

VersionsAt(c, t) == SelectSeq(c.versions, LAMBDA v : ValidAt(v, t))
VersionAt(c, t) ==
  LET valid == VersionsAt(c, t)
      first == CHOOSE i \in DOMAIN valid :
                 \A j \in DOMAIN valid \ {i} :
                   \/ Precedes(valid[i], valid[j])
                   \/ i < j /\ ~Precedes(valid[j], valid[i])
  IN valid[first]

\* transformParameters: mapped parameters get the calculator's name for them.
Transformed(p, mappings) ==
  LET mapped == {m \in mappings : m.from \in DOMAIN p}
      kept == DOMAIN p \ ({m.from : m \in mappings} \cup {m.to : m \in mapped})
  IN [k \in kept \cup {m.to : m \in mapped} |->
        IF \E m \in mapped : m.to = k
        THEN p[(CHOOSE m \in mapped : m.to = k).from] ELSE p[k]]

With(p, key, value) ==
  [k \in DOMAIN p \cup {key} |-> IF k = key THEN value ELSE p[k]]

\* ValueOf, SumOf, DifferenceOf and ProductOf: a sum and a difference of results of
\* children before the i-th one, times a factor; otherwise the calculation throws.
ValueOf(expression, children, results, i) ==
  LET Result(name) ==
        LET before == {j \in 1 .. i - 1 : children[j].name = name}
        IN IF before = {} THEN Failed
           ELSE results[CHOOSE j \in before : \A k \in before : k <= j]
      Sum(names) == AddedUp([j \in DOMAIN names |-> Result(names[j])])
  IN Times(Minus(Sum(expression.plus), Sum(expression.minus)), expression.factor)

\* enrichParameters: what the children before the i-th give it for parameters.
Enriched(p, version, results, i) ==
  FoldLeft(LAMBDA q, d : IF d.child = version.children[i].name
                         THEN With(q, d.parameter,
                                   ValueOf(d.expression, version.children, results, i))
                         ELSE q,
           p, version.dependencies)

\* calculate() with a target interpretation.
RECURSIVE Price(_, _, _)
Price(c, p, target) ==
  IF VersionsAt(c, p.time) = <<>> THEN Failed ELSE
  LET v == VersionAt(c, p.time) IN
  CASE p.tariff \notin v.tariffs -> 0
    [] p.tariff \in v.tariffs /\ c.kind = "SIMPLE" ->
         Adapted(v.calculator, target, Transformed(p, v.mappings))
    [] p.tariff \in v.tariffs /\ c.kind = "COMPOSITE" ->
         LET results[i \in DOMAIN v.children] ==
               LET q == Enriched(p, v, results, i)
               IN IF \E k \in DOMAIN q : q[k] = Failed THEN Failed
                  ELSE Price(v.children[i], q, target)
         IN IF v.children = <<>> THEN Failed
            ELSE AddedUp([i \in DOMAIN v.children |-> results[i]])

-----------------------------------------------------------------------------

\* findByName: the children of a composite are those of the repository, but the
\* children of these are what they were when these were saved.
FindByName_Unrefreshed(repository, n) == repository[n]
FindByName(repository, n) ==
  IF repository[n].kind = "SIMPLE" THEN repository[n]
  ELSE [repository[n] EXCEPT !.versions =
          [i \in DOMAIN @ |-> [@[i] EXCEPT !.children =
             [j \in DOMAIN @ |-> repository[@[j].name]]]]]

OwnInterpretation_OfLast(c) ==
  IF c.kind = "SIMPLE" THEN InterpretationOf(Last(c.versions).calculator) ELSE "TOTAL"

\* calculateComponent: a simple component keeps the interpretation of the calculator
\* of its first version.
OwnInterpretation(c) ==
  IF c.kind = "SIMPLE" THEN InterpretationOf(c.versions[1].calculator) ELSE "TOTAL"
CalculateComponent(repository, n, p) ==
  Price(FindByName(repository, n), p, OwnInterpretation(repository[n]))

-----------------------------------------------------------------------------

PrInit == CalcInit /\ components = << >>

VersionCount ==
  FoldFunction(LAMBDA c, n : Len(c.versions) + n, 0, components)

\* A component of the name gets a further version, if it is of the same kind and
\* has none that is valid for the same time, or a new component is made.
SaveVersion(name, kind, version) ==
  /\ VersionCount < MaxVersions
  /\ name \in DOMAIN components =>
       /\ components[name].kind = kind
       /\ AcceptsVersion(components[name].versions, version.validity)
  /\ LET old == IF name \in DOMAIN components THEN FindByName(components, name).versions ELSE <<>>
         c == [name |-> name, kind |-> kind, versions |-> Append(old, version)]
     IN components' = [n \in DOMAIN components \cup {name} |->
                         IF n = name THEN c ELSE components[n]]
  /\ UNCHANGED calculators

CreateSimpleComponent(r, clock) ==
  /\ r.calculator \in DOMAIN calculators
  /\ SaveVersion(r.name, "SIMPLE",
       [calculator |-> calculators[r.calculator], mappings |-> r.mappings,
        tariffs |-> r.tariffs, validity |-> r.validity, definedAt |-> clock])

\* Dependencies of components that are not among the children are dropped.
CreateCompositeComponent(r, clock) ==
  /\ Range(r.children) \subseteq DOMAIN components
  /\ SaveVersion(r.name, "COMPOSITE",
       [children |-> [i \in DOMAIN r.children |-> FindByName(components, r.children[i])],
        dependencies |->
          SelectSeq(r.dependencies, LAMBDA d : d.child \in Range(r.children)),
        tariffs |-> r.tariffs, validity |-> r.validity, definedAt |-> clock])

PrNext ==
  \/ CalcNext /\ UNCHANGED components
  \/ \E r \in SimpleRequests, clock \in Clocks : CreateSimpleComponent(r, clock)
  \/ \E r \in CompositeRequests, clock \in Clocks : CreateCompositeComponent(r, clock)

PrSpec == PrInit /\ [][PrNext]_prvars

-----------------------------------------------------------------------------

Asked(q, t, tariff) == With(With(q, "time", t), "tariff", tariff)

\* Composites all of whose children are simple components.
Flat(n) ==
  \A i \in DOMAIN components[n].versions :
    \A j \in DOMAIN components[n].versions[i].children :
      components[n].versions[i].children[j].kind = "SIMPLE"

Covers(n, t) ==
  n \in DOMAIN components /\ VersionsAt(components[n], t) # <<>>

\* The price of a composite is made of what its parts cost now, whichever versions
\* they got after it was defined: without dependencies it is the sum of the totals
\* of its parts.  Parts of parts may be older (see Flat).
CompositesFollowTheirParts ==
  \A n \in DOMAIN components, t \in Instants, q \in Queries, tariff \in Tariffs :
    (components[n].kind = "COMPOSITE" /\ Flat(n) /\ Covers(n, t)) =>
      LET p == Asked(q, t, tariff)
          v == VersionAt(components[n], t)
      IN (tariff \in v.tariffs /\ v.dependencies = <<>> /\ v.children # <<>>) =>
           CalculateComponent(components, n, p) =
             AddedUp([i \in DOMAIN v.children |->
                      Price(FindByName(components, v.children[i].name), p, "TOTAL")])

\* A step changes prices only at times for which it defines a version, of the
\* component itself or of a part of it: nobody pays another price for the past
\* because of a price for the future.
Parts(n) ==
  {n} \cup UNION {{c.name : c \in Range(components[n].versions[i].children)} :
                    i \in DOMAIN components[n].versions}
DefinedFor(n, t) ==
  /\ n \in DOMAIN components'
  /\ n \in DOMAIN components => components'[n].versions # components[n].versions
  /\ ValidAt(Last(components'[n].versions), t)
OtherTimesKeepTheirPrices ==
  \A n \in DOMAIN components, t \in Instants, q \in Queries, tariff \in Tariffs :
    LET p == Asked(q, t, tariff)
        parts == IF components[n].kind = "SIMPLE" THEN {n} ELSE Parts(n)
    IN (/\ components[n].kind = "COMPOSITE" => Flat(n)
        /\ \A m \in parts : ~DefinedFor(m, t))
         => CalculateComponent(components', n, p) = CalculateComponent(components, n, p)

\* A version takes effect at once for the time it is valid, unless another one that
\* is valid starts later, or starts with it and was not defined by an earlier clock.
NewVersionsTakeEffect ==
  \A n \in DOMAIN components' :
    (n \in DOMAIN components /\ Len(components'[n].versions) > Len(components[n].versions)) =>
      LET new == Last(components'[n].versions) IN
      \A t \in Instants :
        \/ ~ValidAt(new, t)
        \/ VersionAt(components'[n], t) = new
        \/ \E i \in DOMAIN components[n].versions :
             LET v == components'[n].versions[i] IN
             /\ ValidAt(v, t)
             /\ \/ v.validity.from > new.validity.from
                \/ v.validity.from = new.validity.from /\ v.definedAt >= new.definedAt

\* In whatever order versions are defined, and by whichever clock, each changes the
\* prices of its own time and no others (Component.ts versionAt).
VersionsChangeTheirTime ==
  [][OtherTimesKeepTheirPrices /\ NewVersionsTakeEffect]_prvars
=============================================================================
