----------------------------- MODULE Capabilities -----------------------------
(***************************************************************************)
(* What parties are able to do: capabilities of a type, within operating   *)
(* scopes and for a time, and the roles that require them.  The facade     *)
(* adds a capability to a party that is known and removes it again; who    *)
(* may play a role is asked at any time.                                   *)
(*                                                                         *)
(* A scope is a record with a type: LOCATION, PROTOCOL, PRODUCT and        *)
(* RESOURCE scopes have members; a TEMPORAL scope has days and a start and *)
(* an end, which are texts and compared as texts: '9:00' comes after       *)
(* '10:00'; a QUANTITY scope a maximum per period; a SKILL_LEVEL scope a   *)
(* rank.  A requirement is a type with scopes.                             *)
(***************************************************************************)
EXTENDS Parties, Integers

CONSTANTS
  CapabilityIds,
  Abilities,       \* the [type, scopes, validity] that are added
  RequirementsOf,  \* RoleRequirements: the requirements of each role
  Amounts,         \* the amounts a QUANTITY scope may allow
  Periods,         \* the periods it may allow them in, but for "UNLIMITED"
  TimeTexts,           \* the texts that are given for times of a day
  SortsAt,         \* the place of each in the order of texts
  HourOf,          \* the time somebody means who writes it
  Padded,          \* the times of two digits for hours and for minutes
  MaxNow           \* bound on the clock

SetScopes == {"LOCATION", "PROTOCOL", "PRODUCT", "RESOURCE"}

\* What the constructors of the scopes check; start and end may be any texts.
IsScope(scope) ==
  \/ scope.type \in SetScopes /\ scope.members # {}
  \/ scope.type = "TEMPORAL" /\ scope.days # {} /\ {scope.start, scope.end} \subseteq TimeTexts
  \/ /\ scope.type = "QUANTITY"
     /\ \/ scope.period = "UNLIMITED"
        \/ scope.period \in Periods /\ scope.max \in Amounts
  \/ scope.type = "SKILL_LEVEL" /\ scope.rank \in Int /\ scope.rank > 0

ASSUME CapabilitiesAssumption ==
  /\ MaxNow \in Nat
  /\ Amounts \subseteq Nat /\ "UNLIMITED" \notin Periods
  /\ SortsAt \in [TimeTexts -> Nat] /\ HourOf \in [TimeTexts -> Int] /\ Padded \subseteq TimeTexts
  /\ \A s, t \in Padded : SortsAt[s] <= SortsAt[t] <=> HourOf[s] <= HourOf[t]
  /\ \A ability \in Abilities : \A scope \in ability.scopes : IsScope(scope)
  /\ \A role \in DOMAIN RequirementsOf : \A requirement \in RequirementsOf[role] :
       \A scope \in requirement.scopes : IsScope(scope)

VARIABLES
  capabilities,  \* capabilitiesRepository
  now            \* the clock

avars == <<capabilities, now>>

AInit == capabilities = << >> /\ now = 0

-----------------------------------------------------------------------------
(* operating-scope.ts, capability.ts, role-requirements.ts *)

\* JavaScript's <= of two texts
NotAfter(s, t) == SortsAt[s] <= SortsAt[t]

ScopeSatisfies_Later(scope, required) ==
  \/ scope.type \in SetScopes /\ required.members \subseteq scope.members
  \/ /\ scope.type = "TEMPORAL"
     /\ required.days \subseteq scope.days
     /\ NotAfter(scope.start, required.start)
  \/ /\ scope.type = "QUANTITY"
     /\ \/ "UNLIMITED" \in {scope.period, required.period}
        \/ scope.period = required.period /\ scope.max >= required.max
  \/ scope.type = "SKILL_LEVEL" /\ scope.rank >= required.rank

ScopeSatisfies(scope, required) ==
  \/ scope.type \in SetScopes /\ required.members \subseteq scope.members
  \/ /\ scope.type = "TEMPORAL"
     /\ required.days \subseteq scope.days
     /\ NotAfter(scope.start, required.start) /\ NotAfter(required.end, scope.end)
  \/ /\ scope.type = "QUANTITY"
     /\ \/ "UNLIMITED" \in {scope.period, required.period}
        \/ scope.period = required.period /\ scope.max >= required.max
  \/ scope.type = "SKILL_LEVEL" /\ scope.rank >= required.rank

HeldAt(validity, at) == validity.from <= at /\ at < validity.to

SatisfiesAt(capability, requirement, at) ==
  /\ HeldAt(capability.validity, at)
  /\ capability.type = requirement.type
  /\ \A r \in requirement.scopes : \E s \in capability.scopes :
       s.type = r.type /\ ScopeSatisfies(s, r)

FindByPartyId(p) == {c \in {capabilities[i] : i \in DOMAIN capabilities} : c.party = p}

FindMissing(role, held) ==
  {r \in RequirementsOf[role] : \A c \in held : ~SatisfiesAt(c, r, now)}

PlayableBy(role, held) ==
  \A r \in RequirementsOf[role] : \E c \in held : SatisfiesAt(c, r, now)

-----------------------------------------------------------------------------
(* capabilities-facade.ts *)

AddCapability(i, p, ability) ==
  /\ p \in DOMAIN parties
  /\ i \notin DOMAIN capabilities
  /\ capabilities' = Extended(capabilities, i,
       [party |-> p, type |-> ability.type, scopes |-> ability.scopes,
        validity |-> ability.validity])
  /\ UNCHANGED <<now, pvars>>

RemoveCapability(i) ==
  /\ i \in DOMAIN capabilities
  /\ capabilities' = [j \in DOMAIN capabilities \ {i} |-> capabilities[j]]
  /\ UNCHANGED <<now, pvars>>

TimePasses ==
  /\ now < MaxNow
  /\ now' = now + 1
  /\ UNCHANGED <<capabilities, pvars>>

ANext ==
  \/ \E i \in CapabilityIds, p \in PartyIds, ability \in Abilities :
       AddCapability(i, p, ability)
  \/ \E i \in CapabilityIds : RemoveCapability(i)
  \/ TimePasses

ASpec == PInit /\ AInit /\ [][(PNext /\ UNCHANGED avars) \/ ANext]_<<pvars, avars>>

-----------------------------------------------------------------------------
(* Properties *)

\* What a scope lets somebody do, spelled out: places and things, hours of days,
\* amounts in a period, tasks of a difficulty.
Permitted(scope) ==
  CASE scope.type \in SetScopes -> scope.members
    [] scope.type = "TEMPORAL" -> scope.days \X (HourOf[scope.start] .. HourOf[scope.end])
    [] scope.type = "QUANTITY" ->
         (IF scope.period = "UNLIMITED" THEN Periods \X Amounts
          ELSE {scope.period} \X {a \in Amounts : a <= scope.max})
    [] OTHER -> 1 .. scope.rank

\* The code lets any QUANTITY scope satisfy a requirement without a limit, compares the
\* hours of one that lasts past midnight like any others, and sorts a time that is
\* written in another way than the rest somewhere.
WithoutLimit(scope) == scope.type = "QUANTITY" /\ scope.period = "UNLIMITED"
PastMidnight(scope) == scope.type = "TEMPORAL" /\ HourOf[scope.end] < HourOf[scope.start]
NotPadded(scope) == scope.type = "TEMPORAL" /\ ~({scope.start, scope.end} \subseteq Padded)
Exempt(scope, required) ==
  WithoutLimit(required) \/ PastMidnight(required) \/ NotPadded(scope) \/ NotPadded(required)

Covers(scope, required) ==
  /\ scope.type = required.type
  /\ IF Exempt(scope, required) THEN ScopeSatisfies(scope, required)
     ELSE Permitted(required) \subseteq Permitted(scope)

\* One capability, valid now, within whose scopes all of a requirement can be done.
CanDo(capability, requirement) ==
  /\ capability.validity.from <= now /\ now < capability.validity.to
  /\ capability.type = requirement.type
  /\ \A r \in requirement.scopes : \E s \in capability.scopes : Covers(s, r)

\* A party may play a role as long as, for each thing it requires, one and the same
\* capability of its own covers the place, the time, the amount and the skill, and
\* no longer: capabilities are removed and run out, two that cover one scope each do
\* not add up, and what is missing is told exactly (operating-scope.ts,
\* role-requirements.ts; nothing is said of a requirement without a limit or past
\* midnight, nor of hours that are not all written with two digits).
RolesAreCovered ==
  \A p \in PartyIds, role \in DOMAIN RequirementsOf :
    LET held == FindByPartyId(p)
        lacking == {r \in RequirementsOf[role] : \A c \in held : ~CanDo(c, r)}
    IN /\ FindMissing(role, held) = lacking
       /\ PlayableBy(role, held) <=> lacking = {}
       /\ held # {} => p \in DOMAIN parties
=============================================================================
