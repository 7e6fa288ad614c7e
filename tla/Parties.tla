------------------------------- MODULE Parties -------------------------------
(***************************************************************************)
(* The party package: parties, their addresses and their relationships,    *)
(* changed by commands, and a subscriber that follows the published        *)
(* events.  A party is the values of its fields: a role or an identifier   *)
(* it has or not, and its name.  The identifiers it is registered with are *)
(* objects, several of which may be equal.  Events are never cleared: each *)
(* command on a party publishes all the events the party ever noted, so    *)
(* an event is the value a field got.  Skipped changes note an event that  *)
(* is not published; those are left out.  An address belongs to the list   *)
(* of one party and names a party, which nothing compares.                 *)
(***************************************************************************)
EXTENDS Naturals, FiniteSets, SequencesExt

CONSTANTS
  PartyIds, AddressIds,
  Roles,
  Identifiers,  \* registered identifiers, of a type
  TypeOf,       \* "PERSONAL", "ORGANIZATIONAL" or "ANY"
  Names,        \* personal data and organization names
  Details,      \* address details
  UseTypes,
  Relations,    \* the [from, fromRole, to, toRole, name] that are asked for
  Absent,       \* what a field that is not there has for a value
  Registrations, \* the [kind, name, roles, identifiers] of register commands,
                 \* with the number of equal objects there are of each identifier
  MaxEvents,    \* bound on all the events noted
  MaxRelationships

Kinds == {"PERSON", "COMPANY", "ORGANIZATION_UNIT"}

ASSUME PartiesAssumption ==
  /\ TypeOf \in [Identifiers -> {"PERSONAL", "ORGANIZATIONAL", "ANY"}]
  /\ Relations \subseteq [from : PartyIds, fromRole : Roles, to : PartyIds,
                          toRole : Roles, name : STRING]
  /\ Absent \notin Names \cup {"present"} /\ Absent \notin Relations
  /\ Registrations \subseteq [kind : Kinds, name : Names, roles : SUBSET Roles,
                              identifiers : [Identifiers -> Nat]]
  /\ MaxEvents \in Nat /\ MaxRelationships \in Nat

VARIABLES
  parties,       \* partyRepository: kind, fields, identifiers beyond one of several
                 \* equal ones, published events, and what it was given at first
  addresses,     \* addressesRepository, the same for the addresses of a party
  relationships, \* relationshipRepository by id, Absent where one was removed
  view,          \* what the subscriber knows of fields, addresses, relationships
  announced,     \* parties whose registration reached the subscriber
  behind         \* parties, addresses and relationships whose last publication threw

pvars == <<parties, addresses, relationships, view, announced, behind>>

Fields == {<<"role", r>> : r \in Roles} \cup {<<"identifier", i>> : i \in Identifiers}
          \cup {<<"name">>}

NoFields == [f \in Fields |-> Absent]
NoAddresses == [a \in AddressIds |-> Absent]

Places == PartyIds \X AddressIds  \* what the events of addresses are about

PInit ==
  /\ parties = << >>
  /\ addresses = << >>
  /\ relationships = << >>
  /\ view = [fields |-> [p \in PartyIds |-> NoFields],
             addresses |-> [f \in Places |-> Absent], relationships |-> {}]
  /\ announced = {}
  /\ behind = {}

-----------------------------------------------------------------------------

Extended(f, x, y) == [z \in DOMAIN f \cup {x} |-> IF z = x THEN y ELSE f[z]]

Applied(values, log) ==
  FoldLeft(LAMBDA vs, e : [vs EXCEPT ![e.field] = e.value], values, log)

\* publish(): observers handle the events one by one until one of them throws;
\* then the call throws and the subscriber has got the first of them only.
Delivered(log, n) == SubSeq(log, 1, n)
NowBehind(what, log, n) == IF n < Len(log) THEN behind \cup {what} ELSE behind \ {what}

Noted == FoldFunction(LAMBDA p, n : Len(p.log) + n, 0, parties) +
         FoldFunction(LAMBDA a, n : Len(a.log) + n, 0, addresses)

\* CompositeIdentifierPolicy of the two policies about party types
CanRegister(kind, i) ==
  /\ TypeOf[i] = "PERSONAL" => kind = "PERSON"
  /\ TypeOf[i] = "ORGANIZATIONAL" => kind # "PERSON"

\* The party that handleRegisterPerson, handleRegisterCompany or
\* handleRegisterOrganizationUnit make of a command; the roles are texts, and none of
\* them is there twice.
Registered(command) ==
  LET Given(f) == CASE f[1] = "role" -> f[2] \in command.roles
                    [] f[1] = "identifier" -> command.identifiers[f[2]] > 0
                    [] OTHER -> FALSE
      given == command.identifiers
  IN [kind |-> command.kind,
      fields |-> [[f \in Fields |-> IF Given(f) THEN "present" ELSE Absent]
                    EXCEPT ![<<"name">>] = command.name],
      given |-> given,
      spare |-> [i \in Identifiers |-> IF given[i] > 0 THEN given[i] - 1 ELSE 0],
      log |-> <<>>]

\* registerPartyAccordingTo: identifiers that do not fit the kind fail before
\* anything happens; the party is saved before it is announced, and stays when the
\* publisher throws.
Register(p, command) ==
  /\ p \notin DOMAIN parties
  /\ \A i \in Identifiers : command.identifiers[i] > 0 => CanRegister(command.kind, i)
  /\ parties' = Extended(parties, p, Registered(command))
  /\ \/ /\ announced' = announced \cup {p}
        /\ view' = [view EXCEPT !.fields[p] = Registered(command).fields]
     \/ UNCHANGED <<announced, view>>
  /\ UNCHANGED <<addresses, relationships, behind>>

\* A command on a party ends with saving it and publishing all its events.
SaveParty(p, party) ==
  /\ parties' = [parties EXCEPT ![p] = party]
  /\ \E n \in 0 .. Len(party.log) :
       /\ view' = [view EXCEPT !.fields[p] = Applied(@, Delivered(party.log, n))]
       /\ behind' = NowBehind(<<"party", p>>, party.log, n)
  /\ UNCHANGED <<addresses, relationships, announced>>

Noting(p, field, value) ==
  [parties[p] EXCEPT !.log = Append(@, [field |-> field, value |-> value])]

\* A change is made and noted unless it changes nothing.
Change_ForgetsEvents(p, field, value) ==
  IF parties[p].fields[field] = value THEN SaveParty(p, [parties[p] EXCEPT !.log = <<>>])
  ELSE /\ Noted < MaxEvents
       /\ SaveParty(p, [parties[p] EXCEPT !.fields[field] = value,
                          !.log = <<[field |-> field, value |-> value]>>])
Change(p, field, value) ==
  IF parties[p].fields[field] = value THEN SaveParty(p, parties[p])
  ELSE /\ Noted < MaxEvents
       /\ SaveParty(p, [Noting(p, field, value) EXCEPT !.fields[field] = value])

AddRole(p, r) == Change(p, <<"role", r>>, "present")
RemoveRole(p, r) == Change(p, <<"role", r>>, Absent)

AddRegisteredIdentifier(p, i) ==
  /\ CanRegister(parties[p].kind, i)
  /\ Change(p, <<"identifier", i>>, "present")

\* The first of equal identifiers is removed and its removal noted; the others stay.
RemoveRegisteredIdentifier(p, i) ==
  IF parties[p].spare[i] = 0 THEN Change(p, <<"identifier", i>>, Absent)
  ELSE /\ Noted < MaxEvents
       /\ SaveParty(p, [Noting(p, <<"identifier", i>>, Absent) EXCEPT !.spare[i] = @ - 1])

UpdatePersonalData(p, n) == parties[p].kind = "PERSON" /\ Change(p, <<"name">>, n)
UpdateOrganizationName(p, n) == parties[p].kind # "PERSON" /\ Change(p, <<"name">>, n)

-----------------------------------------------------------------------------

AddressesFor(p) ==
  IF p \in DOMAIN addresses THEN addresses[p]
  ELSE [current |-> NoAddresses, log |-> <<>>]

\* AddressDefiningPolicies.DEFAULT; the validity of all addresses is ALWAYS.
DefinitionAllowed(current, address) ==
  \A a \in AddressIds : current[a] # Absent =>
    /\ current[a].details # address.details
    /\ current[a].useTypes \cap address.useTypes = {}

SaveAddresses(p, list) ==
  /\ addresses' = Extended(addresses, p, list)
  /\ \E n \in 0 .. Len(list.log) :
       /\ view' = [view EXCEPT !.addresses = Applied(@, Delivered(list.log, n))]
       /\ behind' = NowBehind(<<"addresses", p>>, list.log, n)
  /\ UNCHANGED <<parties, relationships, announced>>

\* Address a of p gets a value; the event tells it of the party the address names.
SetAddress(p, a, value, named) ==
  LET list == AddressesFor(p) IN
  /\ Noted < MaxEvents
  /\ SaveAddresses(p, [current |-> [list.current EXCEPT ![a] = value],
                       log |-> Append(list.log, [field |-> <<named, a>>, value |-> value])])

\* The command is about the list of p, its address names a party itself.  An address
\* that is there is replaced if its details differ, without asking the policy; a
\* change of its use types or its party alone is skipped.
AddOrUpdateGeoAddress(p, a, address) ==
  LET old == AddressesFor(p).current[a] IN
  \/ /\ old = Absent
     /\ DefinitionAllowed(AddressesFor(p).current, address)
     /\ SetAddress(p, a, address, address.party)
  \/ /\ old # Absent
     /\ old.details # address.details
     /\ SetAddress(p, a, address, address.party)
  \/ /\ old # Absent
     /\ old.details = address.details
     /\ SaveAddresses(p, AddressesFor(p))

RemoveAddress(p, a) ==
  LET old == AddressesFor(p).current[a] IN
  IF old = Absent THEN SaveAddresses(p, AddressesFor(p)) ELSE SetAddress(p, a, Absent, old.party)

-----------------------------------------------------------------------------

\* handleAssign: both parties must be there; the roles need not be theirs.
AssignRelationship(r) ==
  LET id == Len(relationships) + 1 IN
  /\ id <= MaxRelationships
  /\ {r.from, r.to} \subseteq DOMAIN parties
  /\ relationships' = Append(relationships, r)
  /\ \/ view' = [view EXCEPT !.relationships = @ \cup {id}] /\ UNCHANGED behind
     \/ behind' = behind \cup {<<"relationship", id>>} /\ UNCHANGED view
  /\ UNCHANGED <<parties, addresses, announced>>

\* handleRemove: only a relationship that was there is announced as removed, so
\* the announcement is not repeated when the command is.
RemoveRelationship(id) ==
  /\ relationships[id] # Absent
  /\ relationships' = [relationships EXCEPT ![id] = Absent]
  /\ \/ /\ view' = [view EXCEPT !.relationships = @ \ {id}]
        /\ behind' = behind \ {<<"relationship", id>>}
     \/ behind' = behind \cup {<<"relationship", id>>} /\ UNCHANGED view
  /\ UNCHANGED <<parties, addresses, announced>>

PNext ==
  \/ \E p \in PartyIds, c \in Registrations : Register(p, c)
  \/ \E p \in DOMAIN parties, r \in Roles : AddRole(p, r) \/ RemoveRole(p, r)
  \/ \E p \in DOMAIN parties, i \in Identifiers :
       AddRegisteredIdentifier(p, i) \/ RemoveRegisteredIdentifier(p, i)
  \/ \E p \in DOMAIN parties, n \in Names :
       UpdatePersonalData(p, n) \/ UpdateOrganizationName(p, n)
  \/ \E p, named \in PartyIds, a \in AddressIds, d \in Details, u \in SUBSET UseTypes :
       AddOrUpdateGeoAddress(p, a, [party |-> named, details |-> d, useTypes |-> u])
  \/ \E p \in PartyIds, a \in AddressIds : RemoveAddress(p, a)
  \/ \E r \in Relations : AssignRelationship(r)
  \/ \E id \in DOMAIN relationships : RemoveRelationship(id)

PSpec == PInit /\ [][PNext]_pvars

-----------------------------------------------------------------------------

\* An identifier of which equal objects were given at registration: one of them may be
\* there although the removal of another was announced.
GivenAgain(party, f) == f[1] = "identifier" /\ party.given[f[2]] > 1

\* The addresses of p name nobody else, and nobody else's name p: what the commands do
\* not check, and only then an event tells in whose list its address is.
NamesItself(p) ==
  \A q \in DOMAIN addresses : \A i \in DOMAIN addresses[q].log :
    (q = p) <=> (addresses[q].log[i].field[1] = p)

\* A subscriber that sets fields as the events say agrees with every party and with
\* the addresses of every party whose last command was published to the end:
\* whatever was lost when publishing threw comes again, and repeating old events
\* brings no old value back.  Of a party whose registration was lost it only knows the
\* fields that changed since.  Nothing is said of identifiers given more than once at
\* registration as long as one of them is there, nor of addresses that name another
\* party than the one in whose list they are.  Relationships are announced once, and it
\* knows those that there are but for those whose announcement was lost
\* (Party.publishedEvents, InMemoryEventsPublisher.publish, PartyRelationshipsFacade).
PartiesCatchUp ==
  \A p \in DOMAIN parties : <<"party", p>> \notin behind =>
    \A f \in Fields :
      /\ p \in announced \/ (\E i \in DOMAIN parties[p].log : parties[p].log[i].field = f)
      /\ GivenAgain(parties[p], f) => parties[p].fields[f] = Absent
      => view.fields[p][f] = parties[p].fields[f]
AddressesCatchUp ==
  \A p \in DOMAIN addresses : <<"addresses", p>> \notin behind /\ NamesItself(p) =>
    \A a \in AddressIds : view.addresses[<<p, a>>] = addresses[p].current[a]
RelationshipsCatchUp ==
  \A id \in DOMAIN relationships :
    <<"relationship", id>> \notin behind =>
      (id \in view.relationships <=> relationships[id] # Absent)
SubscriberCatchesUp == PartiesCatchUp /\ AddressesCatchUp /\ RelationshipsCatchUp
=============================================================================
