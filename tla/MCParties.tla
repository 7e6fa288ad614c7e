------------------------------ MODULE MCParties ------------------------------
(***************************************************************************)
(* Two packages in one run.  A person and a company that may become each   *)
(* other's contact, and one address that is defined, changed and removed;  *)
(* or what such a person and company are able to do while time passes; or  *)
(* a phone and a case with two versions of their types, offers,            *)
(* relationships, instances and packages of them.  A behaviour is one of   *)
(* the three: they share nothing.                                          *)
(***************************************************************************)
EXTENDS Capabilities, Applicability, TLC

CONSTANTS p1, p2, contact, pesel, krs, home, office, here, there

Given(counts) == [i \in Identifiers |-> IF i \in DOMAIN counts THEN counts[i] ELSE 0]
MCRegistrations ==
  {[kind |-> "PERSON", name |-> "A", roles |-> {contact}, identifiers |-> Given(pesel :> 2)],
   [kind |-> "COMPANY", name |-> "A", roles |-> {}, identifiers |-> Given(pesel :> 1)],
   [kind |-> "COMPANY", name |-> "B", roles |-> {}, identifiers |-> Given(krs :> 1)]}
MCTypeOf == pesel :> "PERSONAL" @@ krs :> "ORGANIZATIONAL"
MCRelations ==
  {[from |-> p1, fromRole |-> contact, to |-> p2, toRole |-> contact, name |-> "works for"]}

\* Nothing tells the two addresses or their two details apart.
MCSymmetry == Permutations({home, office}) \cup Permutations({here, there})

(***************************************************************************)
(* Capabilities of a driver: where, when, how much, how well               *)
(***************************************************************************)
MCSortsAt == "08:00" :> 1 @@ "09:00" :> 2 @@ "10:00" :> 3 @@ "9:00" :> 4
MCHourOf == "08:00" :> 8 @@ "09:00" :> 9 @@ "10:00" :> 10 @@ "9:00" :> 9
Within(members) == [type |-> "LOCATION", members |-> members]
On(days, start, end) == [type |-> "TEMPORAL", days |-> days, start |-> start, end |-> end]
Upto(max, period) == [type |-> "QUANTITY", max |-> max, period |-> period]
Level(rank) == [type |-> "SKILL_LEVEL", rank |-> rank]
Drive(scopes, from, to) ==
  [type |-> "driving", scopes |-> scopes, validity |-> [from |-> from, to |-> to]]

MCAbilities ==
  { Drive({Within({"city"}), On({1, 2}, "08:00", "09:00")}, 0, 3),
    Drive({Within({"city", "port"}), Within({"airport"}), Upto(2, "PER_DAY"), Level(2)}, 1, 3),
    Drive({On({1}, "08:00", "10:00"), Upto(3, "PER_DAY"), Level(1)}, 0, 2),
    Drive({Within({"port"}), On({1, 2}, "09:00", "10:00"), On({1}, "9:00", "10:00"), Upto(3, "UNLIMITED"), Level(3)}, 1, 2),
    [type |-> "welding", scopes |-> {Level(3), Within({"port"})}, validity |-> [from |-> 0, to |-> 3]] }

Requires(scopes) == [type |-> "driving", scopes |-> scopes]
MCRequirements ==
  "porter" :> {Requires({Within({"port"})}), [type |-> "welding", scopes |-> {Level(2)}]} @@
  "courier" :> {Requires({Within({"city"}), On({1}, "08:00", "09:00")}), Requires({Upto(2, "PER_DAY")})} @@
  "pilot" :> {Requires({Within({"city", "airport"}), Level(2)})} @@
  "night" :> {Requires({On({1}, "08:00", "10:00")}), Requires({On({1}, "10:00", "08:00")}), Requires({Upto(3, "UNLIMITED"), Upto(1, "PER_WEEK")})}

(***************************************************************************)
(* Products: a color of texts, a size of integers                          *)
(***************************************************************************)
Feature(name, kind, accepts) == [name |-> name, config |-> [kind |-> kind, accepts |-> accepts]]
Color == Feature("color", "AllowedValuesConfig", {1})
Size(sizes) == Feature("size", "NumericRangeConfig", sizes)
AnySize == [name |-> "size",
            config |-> [kind |-> "UnconstrainedConfig", accepts |-> {}, valueType |-> "INTEGER"]]
MCValues == { [form |-> "text", content |-> 1], [form |-> "integer", content |-> 1],
              [form |-> "integer", content |-> 2] }

Adults == [kind |-> "between", parameter |-> "age", min |-> 18, max |-> 65]
In(countries) == [kind |-> "in", parameter |-> "country", allowed |-> countries]
Not(c) == [kind |-> "not", part |-> c]
Young == [kind |-> "and", parts |->
  << [kind |-> "less", parameter |-> "age", threshold |-> 66],
     Not(Not([kind |-> "equals", parameter |-> "country", expected |-> "PL"])) >>]
Wanted == [kind |-> "or", parts |-> <<Adults, Young>>]
Unwanted == Not([kind |-> "and", parts |-> <<Adults, Not(Not(In({"PL", "UK"})))>>])

Command(id, strategy, mandatory, optional, applicability) ==
  [id |-> id, strategy |-> strategy, mandatory |-> mandatory, optional |-> optional,
   applicability |-> applicability]
MCCommands ==
  { Command("phone", "UNIQUE", <<Color>>, <<Size({1})>>, Wanted),
    Command("phone", "IDENTICAL", <<AnySize>>, <<>>, AlwaysTrue),
    Command("case", "IDENTICAL", <<Color>>, <<Color>>, Unwanted),
    Command("case", "UNKNOWN", <<>>, <<>>, AlwaysTrue) }

MCPolicy(from, to, type) == from # to \/ type = "COMPATIBLE_WITH"

MCStructures ==
  { << WithChoice({"phone"}, 1, 2),
       [kind |-> "ifThen", condition |-> WithChoice({"phone"}, 2, 2),
        rules |-> <<WithSingleChoice({"case"})>>] >>,
    << [kind |-> "or", rules |-> << WithChoice({"case"}, 2, 3),
                                    [kind |-> "not", rule |-> WithOptionalChoice({"phone"})] >>],
       [kind |-> "and", rules |-> <<WithRequiredChoice({"case", "phone"})>>] >> }

PartsOf(rule) ==
  CASE rule.kind \in {"and", "or"} -> Range(rule.rules)
    [] rule.kind = "not" -> {rule.rule}
    [] rule.kind = "ifThen" -> {rule.condition} \cup Range(rule.rules)
    [] OTHER -> {}
MCSelectionRules ==
  LET rules == UNION {Range(s) : s \in MCStructures}
      parts == UNION {PartsOf(r) : r \in rules}
  IN rules \cup parts \cup UNION {PartsOf(r) : r \in parts}

Text(t) == [text |-> t, isNumber |-> FALSE, number |-> 0]
Number(t, n) == [text |-> t, isNumber |-> TRUE, number |-> n]
MCContexts ==
  LET Says(age) == [age |-> age]
      From(country) == [country |-> Text(country)]
      ages == {Number("18", 18), Number("65.9", 65), Number("66", 66), Text("adult")}
  IN {[x \in {} |-> 0]} \cup {Says(age) : age \in ages} \cup {From(c) : c \in {"PL", "DE"}}
       \cup {Says(age) @@ From("PL") : age \in ages}

(***************************************************************************)
(* Side by side                                                            *)
(***************************************************************************)
NoParties == parties = <<>> /\ addresses = <<>> /\ relationships = <<>>
NoProducts == types = [p \in ProductIds |-> NoType]
NoCapabilities == capabilities = <<>> /\ now = 0

\* The party of which capabilities are tried: the person is known, the company may be.
Employed ==
  /\ p1 \in announced /\ DOMAIN parties \subseteq announced
  /\ parties[p1].kind = "PERSON" /\ (p2 \in announced => parties[p2].fields[<<"name">>] = "B")
  /\ addresses = <<>> /\ relationships = <<>> /\ Noted = 0

MCInit == PInit /\ CInit /\ AInit

\* Bounds: p2 has addresses only where no party is registered, and the last object is made without
\* entries and relationships beside it.
MCSpec ==
  /\ MCInit
  /\ [][\/ /\ PNext /\ NoProducts /\ NoCapabilities /\ UNCHANGED <<cvars, avars>>
           /\ p2 \in DOMAIN addresses' => parties' = <<>>
        \/ ANext /\ NoProducts /\ Employed /\ UNCHANGED cvars
        \/ /\ CNext /\ NoParties /\ UNCHANGED <<pvars, avars>>
           /\ made' = MaxObjects => entries' = <<>> /\ relations' = {}]_<<pvars, cvars, avars>>
=============================================================================
