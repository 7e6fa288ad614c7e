---------------------------- MODULE Applicability ----------------------------
(***************************************************************************)
(* The contexts that product types of the catalog apply to.  A context     *)
(* gives some parameters a text, which may read as a number:               *)
(* [text, isNumber, number].                                               *)
(***************************************************************************)
EXTENDS ProductCatalog

CONSTANTS Contexts  \* contexts a product may be asked about

\* The value of the parameter that c is about, if the context has one
ValueOf_Default(c, context) ==
  IF c.parameter \in DOMAIN context THEN {context[c.parameter]}
  ELSE {[text |-> "0", isNumber |-> TRUE, number |-> 0]}
ValueOf(c, context) ==
  IF c.parameter \in DOMAIN context THEN {context[c.parameter]} ELSE {}

InRange_MaxOpen(v, c) == v.isNumber /\ c.min <= v.number /\ v.number < c.max
InRange(v, c) == v.isNumber /\ c.min <= v.number /\ v.number <= c.max

RECURSIVE IsSatisfiedBy(_, _)
IsSatisfiedBy(c, context) ==
  \/ c.kind = "alwaysTrue"
  \/ c.kind = "equals"  /\ (\E v \in ValueOf(c, context) : v.text = c.expected)
  \/ c.kind = "in"      /\ (\E v \in ValueOf(c, context) : v.text \in c.allowed)
  \/ c.kind = "greater" /\ (\E v \in ValueOf(c, context) : v.isNumber /\ v.number > c.threshold)
  \/ c.kind = "less"    /\ (\E v \in ValueOf(c, context) : v.isNumber /\ v.number < c.threshold)
  \/ c.kind = "between" /\ (\E v \in ValueOf(c, context) : InRange(v, c))
  \/ c.kind = "and"     /\ \A k \in DOMAIN c.parts : IsSatisfiedBy(c.parts[k], context)
  \/ c.kind = "or"      /\ \E k \in DOMAIN c.parts : IsSatisfiedBy(c.parts[k], context)
  \/ c.kind = "not"     /\ ~IsSatisfiedBy(c.part, context)

-----------------------------------------------------------------------------

\* Whether everything c tests is below an even number of negations, or an odd one
RECURSIVE IsBelow(_, _)
IsBelow(even, c) ==
  CASE c.kind = "alwaysTrue" -> TRUE
    [] c.kind = "not" -> IsBelow(~even, c.part)
    [] c.kind \in {"and", "or"} -> \A k \in DOMAIN c.parts : IsBelow(even, c.parts[k])
    [] OTHER -> even

RECURSIVE Tests(_)
Tests(c) ==
  CASE c.kind = "alwaysTrue" -> {}
    [] c.kind = "not" -> Tests(c.part)
    [] c.kind \in {"and", "or"} -> UNION {Tests(c.parts[k]) : k \in DOMAIN c.parts}
    [] OTHER -> {c}

\* Contexts with others that say the same and may say more
Extensions ==
  { e \in Contexts \X Contexts :
      /\ DOMAIN e[1] \subseteq DOMAIN e[2]
      /\ \A x \in DOMAIN e[1] : e[2][x] = e[1][x] }

\* A context that says more keeps the types that ask for something, and gets no type
\* that asks for something not to be: who does not tell passes every negated test,
\* however the negations are nested.
KnowingMoreCounts(c) ==
  /\ IsBelow(TRUE, c) =>
       \A e \in Extensions : IsSatisfiedBy(c, e[1]) => IsSatisfiedBy(c, e[2])
  /\ IsBelow(FALSE, c) =>
       \A e \in Extensions : IsSatisfiedBy(c, e[2]) => IsSatisfiedBy(c, e[1])

\* Of types for less than a minimum, for between it and a maximum and for more than
\* that, one applies to every number, and none where there is no number.
RangesMeet(c) ==
  LET Less == [kind |-> "less", parameter |-> c.parameter, threshold |-> c.min]
      Greater == [kind |-> "greater", parameter |-> c.parameter, threshold |-> c.max]
  IN \A context \in Contexts :
       Cardinality({d \in {Less, c, Greater} : IsSatisfiedBy(d, context)}) =
         Cardinality({v \in ValueOf(c, context) : v.isNumber})

\* The types of the catalog apply to contexts without gaps and overlaps at the bounds of
\* ranges, and knowing more of a context counts the way the negations around a test
\* say, though a parameter that is missing fails each test by itself and reads like one
\* that is no number (the constraint classes of applicability.ts).
AppliesConsistently ==
  \A c \in {types[p].applicability : p \in {q \in ProductIds : IsDefined(q)}} :
    /\ KnowingMoreCounts(c)
    /\ \A test \in Tests(c) : test.kind = "between" => RangesMeet(test)
=============================================================================
