----------------------------- MODULE PartiesProofs -----------------------------
(***************************************************************************)
(* A subscriber of the party package catches up, and a role is played by   *)
(* those who are able to, for any number of parties, addresses,            *)
(* relationships, roles, events, capabilities, scopes and amounts; and     *)
(* what is in the catalog of products is on offer when it was said to be,  *)
(* and is packed as the rules of packages demand; and calculators give the *)
(* same price in whatever way they are asked.                              *)
(***************************************************************************)
EXTENDS Capabilities, ProductCatalog, Calculators, Sums, SequenceTheorems

-----------------------------------------------------------------------------
(* What events do to values *)

Saying(log, S, f) == {i \in S : log[i].field = f}

\* The values after the events at the places S: of several about a field the last counts.
Latest(values, log, S) ==
  [f \in DOMAIN values |->
     IF Saying(log, S, f) = {} THEN values[f] ELSE log[Max(Saying(log, S, f))].value]

\* step gives, for every set of places, the values after the events there, one by one.
AppliesInTurn(step, values, log) ==
  step = [S \in SUBSET DOMAIN log |->
            IF S = {} THEN values
            ELSE [step[S \ {Max(S)}] EXCEPT ![log[Max(S)].field] = log[Max(S)].value]]

LEMMA AppliedInTurn ==
  ASSUME NEW values, NEW log
  PROVE  Applied(values, log) = (CHOOSE step : AppliesInTurn(step, values, log))[DOMAIN log]
BY DEF Applied, FoldLeft, MapThenFoldSet, AppliesInTurn

\* One event after the events at S.
LEMMA LatestOfOneMore ==
  ASSUME NEW N \in Nat, NEW S, S \subseteq 1..N, S # {},
         NEW values, values = [f \in DOMAIN values |-> values[f]], NEW log
  PROVE  LET m == Max(S)
         IN  Latest(values, log, S) = [Latest(values, log, S \ {m}) EXCEPT ![log[m].field] = log[m].value]
<1> DEFINE m == Max(S)
           old == Latest(values, log, S \ {m})
<1>1. m \in S /\ \A k \in S : k <= m
  <2>1. S \subseteq 0..N
    OBVIOUS
  <2> QED BY <2>1, GreatestExists
<1>2. S \subseteq Nat
  OBVIOUS
<1> HIDE DEF m
<1>3. ASSUME NEW f \in DOMAIN values
      PROVE  Latest(values, log, S)[f] = IF f = log[m].field THEN log[m].value ELSE old[f]
  <2>1. CASE f = log[m].field
    <3>1. m \in Saying(log, S, f) /\ Saying(log, S, f) \subseteq S
      BY <1>1, <2>1 DEF Saying
    <3>2. Max(Saying(log, S, f)) = m
      <4> DEFINE T == Saying(log, S, f)
      <4>1. T \subseteq 0..N /\ T # {}
        BY <3>1
      <4> HIDE DEF T
      <4>2. Max(T) \in T /\ \A k \in T : k <= Max(T)
        BY <4>1, GreatestExists
      <4>3. T \subseteq S /\ m \in T
        BY <3>1 DEF T
      <4>4. Max(T) <= m /\ m <= Max(T) /\ Max(T) \in Nat /\ m \in Nat
        BY <1>1, <1>2, <4>2, <4>3
      <4>5. Max(T) = m
        BY <4>4
      <4> QED BY <4>5 DEF T
    <3> QED BY <2>1, <3>1, <3>2 DEF Latest
  <2>2. CASE f # log[m].field
    <3>1. Saying(log, S, f) = Saying(log, S \ {m}, f)
      BY <2>2 DEF Saying
    <3> QED BY <2>2, <3>1 DEF Latest
  <2> QED BY <2>1, <2>2
<1>4. Latest(values, log, S) = [old EXCEPT ![log[m].field] = log[m].value]
  <2> HIDE DEF old
  <2>1. DOMAIN old = DOMAIN values /\ DOMAIN Latest(values, log, S) = DOMAIN values
    BY DEF old, Latest
  <2>2. Latest(values, log, S) = [f \in DOMAIN values |-> Latest(values, log, S)[f]]
    BY DEF Latest
  <2>3. old = [f \in DOMAIN old |-> old[f]]
    BY DEF old, Latest
  <2> QED BY <1>3, <2>1, <2>2, <2>3
<1> QED BY <1>4 DEF m, old

\* Applying events one after the other leaves the latest values.
LEMMA AppliedIsLatest ==
  ASSUME NEW values, values = [f \in DOMAIN values |-> values[f]],
         NEW N \in Nat, NEW log, DOMAIN log = 1..N
  PROVE  Applied(values, log) = Latest(values, log, DOMAIN log)
<1> DEFINE P == 1..N
           latest == [S \in SUBSET P |-> Latest(values, log, S)]
<1>1. Latest(values, log, {}) = values
  BY DEF Latest, Saying
<1>2. ASSUME NEW S \in SUBSET P, S # {}
      PROVE  /\ S \ {Max(S)} \in SUBSET P /\ S \ {Max(S)} # S
             /\ Latest(values, log, S)
                  = [Latest(values, log, S \ {Max(S)}) EXCEPT ![log[Max(S)].field] = log[Max(S)].value]
  <2>1. S \subseteq 0..N /\ S \subseteq 1..N
    OBVIOUS
  <2>2. Max(S) \in S
    BY <1>2, <2>1, GreatestExists
  <2>3. Latest(values, log, S)
          = [Latest(values, log, S \ {Max(S)}) EXCEPT ![log[Max(S)].field] = log[Max(S)].value]
    BY <1>2, <2>1, LatestOfOneMore
  <2> QED BY <2>2, <2>3
<1>3. AppliesInTurn(latest, values, log)
  BY <1>1, <1>2 DEF AppliesInTurn
<1> DEFINE step == CHOOSE s : AppliesInTurn(s, values, log)
<1>4. AppliesInTurn(step, values, log)
  <2> HIDE DEF latest
  <2> QED BY <1>3
<1> HIDE DEF step
<1>5. step[P] = Latest(values, log, P)
  <2> SUFFICES ASSUME step[P] # Latest(values, log, P) PROVE FALSE
    OBVIOUS
  <2> DEFINE Bad == {S \in SUBSET P : step[S] # Latest(values, log, S)}
  <2>1. PICK T \in Bad : \A U \in Bad : U \subseteq T => U = T
    <3>1. Bad \subseteq SUBSET P /\ Bad # {}
      OBVIOUS
    <3>2. IsFiniteSet(P)
      BY FS_Interval
    <3> HIDE DEF Bad, P
    <3> QED BY <3>1, <3>2, MinimalSubset
  <2>2. T \in SUBSET P /\ step[T] # Latest(values, log, T)
    BY <2>1
  <2>3. CASE T = {}
    BY <1>1, <1>4, <2>2, <2>3 DEF AppliesInTurn
  <2>4. CASE T # {}
    <3> DEFINE U == T \ {Max(T)}
    <3>1. /\ U \in SUBSET P /\ U # T
          /\ Latest(values, log, T) = [Latest(values, log, U) EXCEPT ![log[Max(T)].field] = log[Max(T)].value]
      BY <1>2, <2>2, <2>4
    <3>2. step[U] = Latest(values, log, U)
      BY <2>1, <3>1
    <3>3. step[T] = [step[U] EXCEPT ![log[Max(T)].field] = log[Max(T)].value]
      BY <1>4, <2>2, <2>4 DEF AppliesInTurn
    <3> QED BY <2>2, <3>1, <3>2, <3>3
  <2> QED BY <2>3, <2>4
<1> QED BY <1>5, AppliedInTurn DEF step

-----------------------------------------------------------------------------
(* Publishing *)

Events(F, V) == Seq([field : F, value : V])
Told(log, f) == \E i \in DOMAIN log : log[i].field = f
LastWord(log, f) == log[Max(Saying(log, DOMAIN log, f))].value

\* Who gets the first events of a log keeps the values that none of them is about, and
\* has the last value of each field when they are all.
LEMMA PublishingTells ==
  ASSUME NEW F, NEW V, NEW log \in Events(F, V), NEW n \in 0..Len(log),
         NEW seen \in [F -> V], NEW got, got = Applied(seen, Delivered(log, n))
  PROVE  /\ got \in [F -> V]
         /\ \A f \in F : ~Told(log, f) => got[f] = seen[f]
         /\ n = Len(log) => \A f \in F : Told(log, f) => got[f] = LastWord(log, f)
<1> DEFINE part == Delivered(log, n)
<1>1. /\ DOMAIN log = 1..Len(log) /\ Len(log) \in Nat
      /\ \A i \in DOMAIN log : log[i].value \in V
  <2> DEFINE R == [field : F, value : V]
  <2>1. \A r \in R : r.value \in V
    OBVIOUS
  <2> HIDE DEF R
  <2>2. log \in Seq(R)
    BY DEF R, Events
  <2>3. DOMAIN log = 1..Len(log) /\ Len(log) \in Nat /\ \A i \in DOMAIN log : log[i] \in R
    BY <2>2
  <2> QED BY <2>1, <2>3
<1>2. /\ DOMAIN part = 1..n /\ n \in Nat
      /\ \A i \in 1..n : part[i] = log[i] /\ i \in DOMAIN log
  <2>1. log \in Seq([field : F, value : V]) /\ n \in 0..Len(log)
    BY DEF Events
  <2> QED BY <2>1 DEF Delivered
<1>3. got = Latest(seen, part, DOMAIN part)
  <2>1. seen = [f \in DOMAIN seen |-> seen[f]] /\ got = Applied(seen, part)
    OBVIOUS
  <2> HIDE DEF part
  <2> QED BY <1>2, <2>1, AppliedIsLatest
<1>4. ASSUME NEW f \in F
      PROVE  /\ Saying(part, DOMAIN part, f) = {} => got[f] = seen[f]
             /\ Saying(part, DOMAIN part, f) # {} =>
                  /\ Max(Saying(part, DOMAIN part, f)) \in DOMAIN part
                  /\ got[f] = log[Max(Saying(part, DOMAIN part, f))].value
  <2>1. got[f] = IF Saying(part, DOMAIN part, f) = {} THEN seen[f]
                 ELSE part[Max(Saying(part, DOMAIN part, f))].value
    BY <1>3 DEF Latest
  <2>2. ASSUME Saying(part, DOMAIN part, f) # {}
        PROVE  Max(Saying(part, DOMAIN part, f)) \in DOMAIN part
    <3> DEFINE T == Saying(part, DOMAIN part, f)
    <3>1. T \subseteq 0..n /\ T \subseteq DOMAIN part
      BY <1>2 DEF Saying
    <3> HIDE DEF T
    <3>2. T # {}
      BY <2>2 DEF T
    <3>3. Max(T) \in T
      BY <1>2, <3>1, <3>2, GreatestExists
    <3> QED BY <3>1, <3>3 DEF T
  <2> QED BY <1>2, <2>1, <2>2
<1>5. got \in [F -> V]
  <2>1. DOMAIN got = F /\ got = [f \in F |-> got[f]]
    BY <1>3 DEF Latest
  <2>2. ASSUME NEW f \in F PROVE got[f] \in V
    BY <1>1, <1>2, <1>4
  <2> QED BY <2>1, <2>2
<1>6. ASSUME NEW f \in F, ~Told(log, f) PROVE got[f] = seen[f]
  <2>1. Saying(part, DOMAIN part, f) = {}
    BY <1>2, <1>6 DEF Told, Saying
  <2> QED BY <1>4, <2>1
<1>7. ASSUME n = Len(log), NEW f \in F, Told(log, f) PROVE got[f] = LastWord(log, f)
  <2>1. Saying(part, DOMAIN part, f) = Saying(log, DOMAIN log, f)
    BY <1>1, <1>2, <1>7 DEF Saying
  <2>2. Saying(log, DOMAIN log, f) # {}
    BY <1>7 DEF Told, Saying
  <2> QED BY <1>4, <2>1, <2>2 DEF LastWord
<1> QED BY <1>5, <1>6, <1>7

Notes(new, log, field, value) == new = Append(log, [field |-> field, value |-> value])

\* One more event is the last word on its field, and none on the others.
LEMMA OneMoreWord ==
  ASSUME NEW F, NEW V, NEW log \in Events(F, V), NEW field \in F, NEW value \in V,
         NEW new, Notes(new, log, field, value)
  PROVE  /\ new \in Events(F, V)
         /\ Told(new, field) /\ LastWord(new, field) = value
         /\ \A f : f # field => (Told(new, f) <=> Told(log, f))
         /\ \A f : f # field => LastWord(new, f) = LastWord(log, f) \/ ~Told(log, f)
<1> DEFINE R == [field : F, value : V]
           e == [field |-> field, value |-> value]
           m == Len(log) + 1
<1>1. e \in R /\ e.field = field /\ e.value = value
  OBVIOUS
<1>2. log \in Seq(R) /\ new = Append(log, e)
  BY DEF Events, Notes
<1> HIDE DEF R, e
<1>3. /\ new \in Seq(R) /\ Len(log) \in Nat
      /\ DOMAIN log = 1..Len(log) /\ DOMAIN new = 1..(Len(log) + 1)
      /\ \A i \in 1..Len(log) : new[i] = log[i]
      /\ new[Len(log) + 1] = e
  BY <1>1, <1>2
<1>4. /\ new \in Events(F, V) /\ m \in Nat \ {0}
      /\ DOMAIN log = 1..(m - 1) /\ DOMAIN new = 1..m
      /\ \A i \in 1..(m - 1) : new[i] = log[i]
      /\ new[m].field = field /\ new[m].value = value
  BY <1>1, <1>3 DEF R, Events
<1> HIDE DEF m
<1>5. Told(new, field) /\ LastWord(new, field) = value
  <2> DEFINE T == Saying(new, DOMAIN new, field)
  <2>1. m \in T /\ T \subseteq 0..m
    BY <1>4 DEF Saying
  <2> HIDE DEF T
  <2>2. Max(T) \in T /\ \A k \in T : k <= Max(T)
    BY <1>4, <2>1, GreatestExists
  <2>3. Max(T) = m
    <3>1. m <= Max(T) /\ Max(T) \in 0..m
      BY <2>1, <2>2
    <3> QED BY <1>4, <3>1
  <2>4. m \in DOMAIN new
    BY <1>4, <2>1 DEF T, Saying
  <2> QED BY <1>4, <2>3, <2>4 DEF T, Told, LastWord
<1>6. ASSUME NEW f, f # field
      PROVE  /\ Told(new, f) <=> Told(log, f)
             /\ LastWord(new, f) = LastWord(log, f) \/ ~Told(log, f)
  <2>1. Saying(new, DOMAIN new, f) = Saying(log, DOMAIN log, f)
    BY <1>4, <1>6 DEF Saying
  <2>2. \A l : Told(l, f) <=> Saying(l, DOMAIN l, f) # {}
    BY DEF Told, Saying
  <2>3. ASSUME Told(log, f) PROVE LastWord(new, f) = LastWord(log, f)
    <3> DEFINE T == Saying(log, DOMAIN log, f)
    <3>1. T # {} /\ T \subseteq 0..m /\ T \subseteq 1..(m - 1)
      BY <1>4, <2>2, <2>3 DEF Saying
    <3> HIDE DEF T
    <3>2. Max(T) \in T
      BY <1>4, <3>1, GreatestExists
    <3>3. new[Max(T)] = log[Max(T)]
      BY <1>4, <3>1, <3>2
    <3> QED BY <2>1, <3>3 DEF T, LastWord
  <2> QED BY <2>1, <2>2, <2>3
<1> QED BY <1>4, <1>5, <1>6

-----------------------------------------------------------------------------
(* The inductive invariant *)

PartyValues == Names \cup {"present", Absent}
AddressValues == [party : PartyIds, details : Details, useTypes : SUBSET UseTypes] \cup {Absent}
PartyRecords ==
  [kind : Kinds, fields : [Fields -> PartyValues], given : [Identifiers -> Nat],
   spare : [Identifiers -> Nat], log : Events(Fields, PartyValues)]
AddressLists ==
  [current : [AddressIds -> AddressValues], log : Events(Places, AddressValues)]
Views ==
  [fields : [PartyIds -> [Fields -> PartyValues]], addresses : [Places -> AddressValues],
   relationships : SUBSET Nat]

PartyTypes ==
  /\ DOMAIN parties \subseteq PartyIds
  /\ \A p \in DOMAIN parties : parties[p] \in PartyRecords
  /\ DOMAIN addresses \subseteq PartyIds
  /\ \A p \in DOMAIN addresses : addresses[p] \in AddressLists
  /\ relationships \in Seq(Relations \cup {Absent})
  /\ view \in Views
  /\ announced \subseteq DOMAIN parties

\* An identifier that is there more than once is there, and was given so.
SparesAreGiven(party) ==
  \A i \in Identifiers : party.spare[i] > 0 =>
    party.fields[<<"identifier", i>>] = "present" /\ GivenAgain(party, <<"identifier", i>>)

\* The last event about a field tells its value, unless its identifier was given again
\* and is there.
Follows(party) ==
  \A f \in Fields : (GivenAgain(party, f) => party.fields[f] = Absent) /\ Told(party.log, f) =>
    party.fields[f] = LastWord(party.log, f)

\* As long as a list of addresses names nobody else, its events tell all that is there.
NamesOnly(p, list) == \A i \in DOMAIN list.log : list.log[i].field[1] = p
ListFollows(p, list) ==
  \A a \in AddressIds : list.current[a] =
    IF Told(list.log, <<p, a>>) THEN LastWord(list.log, <<p, a>>) ELSE Absent

LogsFollow ==
  /\ \A p \in DOMAIN parties : SparesAreGiven(parties[p]) /\ Follows(parties[p])
  /\ \A p \in DOMAIN addresses : NamesOnly(p, addresses[p]) => ListFollows(p, addresses[p])

\* What no event is about is known of announced parties, and of all addresses, even if
\* the last publication threw.
UntoldIsKnown ==
  /\ \A p \in announced : \A f \in Fields :
       Told(parties[p].log, f) \/ view.fields[p][f] = parties[p].fields[f]
  /\ \A place \in Places :
       (\A p \in DOMAIN addresses : ~Told(addresses[p].log, place)) => view.addresses[place] = Absent

PartyInv == PartyTypes /\ LogsFollow /\ UntoldIsKnown /\ SubscriberCatchesUp

-----------------------------------------------------------------------------
(* Parties *)

\* A party is saved as it was, or with one more event about a field that became what
\* the event says, if the field's identifier is not there all the same.
Succeeds(party, old, field, value) ==
  /\ party \in PartyRecords /\ party.given = old.given /\ SparesAreGiven(party)
  /\ \/ party.fields = old.fields /\ party.log = old.log
     \/ /\ party.log = Append(old.log, [field |-> field, value |-> value])
        /\ \A f \in Fields : f # field => party.fields[f] = old.fields[f]
        /\ \/ party.fields[field] = value
           \/ GivenAgain(party, field) /\ party.fields[field] # Absent

LEMMA SucceedingFollows ==
  ASSUME NEW old \in PartyRecords, Follows(old), NEW field \in Fields, NEW value \in PartyValues,
         NEW party, Succeeds(party, old, field, value)
  PROVE  /\ Follows(party)
         /\ \A f \in Fields : ~Told(party.log, f) =>
              ~Told(old.log, f) /\ party.fields[f] = old.fields[f]
<1>1. \A f \in Fields : GivenAgain(party, f) <=> GivenAgain(old, f)
  BY DEF Succeeds, GivenAgain
<1>2. CASE party.fields = old.fields /\ party.log = old.log
  BY <1>1, <1>2 DEF Follows
<1>3. CASE /\ party.log = Append(old.log, [field |-> field, value |-> value])
           /\ \A f \in Fields : f # field => party.fields[f] = old.fields[f]
           /\ \/ party.fields[field] = value
              \/ GivenAgain(party, field) /\ party.fields[field] # Absent
  <2>1. old.log \in Events(Fields, PartyValues)
    BY DEF PartyRecords
  <2>2. /\ Told(party.log, field) /\ LastWord(party.log, field) = value
        /\ \A f : f # field => (Told(party.log, f) <=> Told(old.log, f))
        /\ \A f : f # field => LastWord(party.log, f) = LastWord(old.log, f) \/ ~Told(old.log, f)
    <3> DEFINE log == old.log
               new == party.log
    <3>1. log \in Events(Fields, PartyValues) /\ Notes(new, log, field, value)
      BY <1>3, <2>1 DEF Notes
    <3> HIDE DEF log, new
    <3>2. /\ Told(new, field) /\ LastWord(new, field) = value
          /\ \A f : f # field => (Told(new, f) <=> Told(log, f))
          /\ \A f : f # field => LastWord(new, f) = LastWord(log, f) \/ ~Told(log, f)
      BY <3>1, OneMoreWord
    <3> QED BY <3>2 DEF log, new
  <2>3. Follows(party)
    BY <1>1, <1>3, <2>2 DEF Follows
  <2> QED BY <1>3, <2>2, <2>3
<1> QED BY <1>2, <1>3 DEF Succeeds

LEMMA SavePartyKeepsInv ==
  ASSUME PartyInv, NEW p \in DOMAIN parties, NEW field \in Fields, NEW value \in PartyValues,
         NEW party, Succeeds(party, parties[p], field, value), SaveParty(p, party)
  PROVE  PartyInv'
<1>1. /\ parties' = [parties EXCEPT ![p] = party]
      /\ UNCHANGED <<addresses, relationships, announced>>
      /\ p \in PartyIds /\ parties[p] \in PartyRecords /\ party \in PartyRecords
      /\ Follows(parties[p]) /\ SparesAreGiven(party)
  BY DEF SaveParty, PartyInv, PartyTypes, LogsFollow, Succeeds
<1>2. PICK n \in 0..Len(party.log) :
        /\ view' = [view EXCEPT !.fields[p] = Applied(@, Delivered(party.log, n))]
        /\ behind' = NowBehind(<<"party", p>>, party.log, n)
  BY DEF SaveParty
<1> DEFINE seen == view.fields[p]
           got == Applied(seen, Delivered(party.log, n))
<1>3. /\ seen \in [Fields -> PartyValues] /\ view \in Views
      /\ party.log \in Events(Fields, PartyValues)
  BY <1>1 DEF PartyInv, PartyTypes, Views, PartyRecords
<1>4. /\ got \in [Fields -> PartyValues]
      /\ \A f \in Fields : ~Told(party.log, f) => got[f] = seen[f]
      /\ n = Len(party.log) => \A f \in Fields : Told(party.log, f) => got[f] = LastWord(party.log, f)
  <2> HIDE DEF got, seen
  <2>1. got = Applied(seen, Delivered(party.log, n))
    BY DEF got
  <2> QED BY <1>2, <1>3, <2>1, PublishingTells
<1>5. /\ Follows(party)
      /\ \A f \in Fields : ~Told(party.log, f) =>
           ~Told(parties[p].log, f) /\ party.fields[f] = parties[p].fields[f]
  BY <1>1, SucceedingFollows
<1>6. /\ DOMAIN parties' = DOMAIN parties /\ parties'[p] = party
      /\ \A q \in DOMAIN parties : q # p => parties'[q] = parties[q]
  BY <1>1
<1> HIDE DEF got
<1>7. /\ view'.fields[p] = got
      /\ \A q \in PartyIds : q # p => view'.fields[q] = view.fields[q]
      /\ view'.addresses = view.addresses /\ view'.relationships = view.relationships
      /\ view' \in Views
  BY <1>1, <1>2, <1>3, <1>4 DEF got, Views
<1>8. /\ <<"party", p>> \notin behind' => n = Len(party.log)
      /\ \A q : q # p => (<<"party", q>> \in behind' <=> <<"party", q>> \in behind)
      /\ \A q : <<"addresses", q>> \in behind' <=> <<"addresses", q>> \in behind
      /\ \A q : <<"relationship", q>> \in behind' <=> <<"relationship", q>> \in behind
  <2>1. Len(party.log) \in Nat
    BY <1>3 DEF Events
  <2> QED BY <1>2, <2>1 DEF NowBehind
<1>9. PartyTypes' /\ LogsFollow'
  BY <1>1, <1>5, <1>6, <1>7 DEF PartyInv, PartyTypes, LogsFollow
<1>10. ASSUME NEW f \in Fields, p \in announced, ~Told(party.log, f)
       PROVE  got[f] = party.fields[f]
  BY <1>4, <1>5, <1>10 DEF PartyInv, UntoldIsKnown
<1>11. UntoldIsKnown'
  <2>1. ASSUME NEW q \in announced, NEW f \in Fields
        PROVE  Told(parties'[q].log, f) \/ view'.fields[q][f] = parties'[q].fields[f]
    <3>1. q \in DOMAIN parties /\ q \in PartyIds
      BY DEF PartyInv, PartyTypes
    <3>2. CASE q = p
      BY <1>6, <1>7, <1>10, <3>2
    <3>3. CASE q # p
      BY <1>6, <1>7, <3>1, <3>3 DEF PartyInv, UntoldIsKnown
    <3> QED BY <3>2, <3>3
  <2>2. announced' = announced /\ addresses' = addresses
    BY <1>1
  <2> QED BY <1>7, <2>1, <2>2 DEF PartyInv, UntoldIsKnown
<1>12. SubscriberCatchesUp'
  <2>1. ASSUME NEW q \in DOMAIN parties, <<"party", q>> \notin behind', NEW f \in Fields,
               q \in announced \/ Told(parties'[q].log, f),
               GivenAgain(parties'[q], f) => parties'[q].fields[f] = Absent
        PROVE  view'.fields[q][f] = parties'[q].fields[f]
    <3>1. CASE q = p
      <4>1. n = Len(party.log)
        BY <1>8, <2>1, <3>1
      <4>2. CASE Told(party.log, f)
        <5>1. party.fields[f] = LastWord(party.log, f)
          BY <1>5, <1>6, <2>1, <3>1, <4>2 DEF Follows
        <5> QED BY <1>4, <1>6, <1>7, <3>1, <4>1, <4>2, <5>1
      <4>3. CASE ~Told(party.log, f)
        BY <1>6, <1>7, <1>10, <2>1, <3>1, <4>3
      <4> QED BY <4>2, <4>3
    <3>2. CASE q # p
      <4>1. parties'[q] = parties[q] /\ q \in PartyIds
        BY <1>6, <3>2 DEF PartyInv, PartyTypes
      <4>2. view'.fields[q] = view.fields[q] /\ <<"party", q>> \notin behind
        BY <1>7, <1>8, <2>1, <3>2, <4>1
      <4> QED BY <2>1, <4>1, <4>2 DEF PartyInv, SubscriberCatchesUp, PartiesCatchUp, Told
    <3> QED BY <3>1, <3>2
  <2>2. PartiesCatchUp'
    BY <1>1, <1>6, <2>1 DEF PartiesCatchUp, Told
  <2>3. AddressesCatchUp' /\ RelationshipsCatchUp'
    BY <1>1, <1>7, <1>8 DEF PartyInv, SubscriberCatchesUp, AddressesCatchUp, NamesItself,
                            RelationshipsCatchUp
  <2> QED BY <2>2, <2>3 DEF SubscriberCatchesUp
<1> QED BY <1>9, <1>11, <1>12 DEF PartyInv

LEMMA EventIsNoted ==
  ASSUME NEW old \in PartyRecords, NEW field \in Fields, NEW value \in PartyValues
  PROVE  Append(old.log, [field |-> field, value |-> value]) \in Events(Fields, PartyValues)
<1> DEFINE log == old.log
<1>1. log \in Events(Fields, PartyValues)
  BY DEF PartyRecords
<1> HIDE DEF log
<1> DEFINE new == Append(log, [field |-> field, value |-> value])
<1>2. Notes(new, log, field, value)
  BY DEF Notes
<1> HIDE DEF new
<1>3. new \in Events(Fields, PartyValues)
  BY <1>1, <1>2, OneMoreWord
<1> QED BY <1>3 DEF log, new

\* A party with one more event.
LEMMA NotedIs ==
  ASSUME NEW p, parties[p] \in PartyRecords, NEW field \in Fields, NEW value \in PartyValues
  PROVE  /\ Noting(p, field, value) \in PartyRecords
         /\ Noting(p, field, value) =
              [kind |-> parties[p].kind, fields |-> parties[p].fields, given |-> parties[p].given,
               spare |-> parties[p].spare,
               log |-> Append(parties[p].log, [field |-> field, value |-> value])]
<1> DEFINE old == parties[p]
           log == Append(old.log, [field |-> field, value |-> value])
<1>1. old \in PartyRecords /\ Noting(p, field, value) = [old EXCEPT !.log = log]
  BY DEF Noting
<1>2. log \in Events(Fields, PartyValues)
  <2> HIDE DEF old
  <2> QED BY <1>1, EventIsNoted
<1> HIDE DEF old, log
<1>3. [old EXCEPT !.log = log] = [kind |-> old.kind, fields |-> old.fields, given |-> old.given,
                                  spare |-> old.spare, log |-> log]
  BY <1>1 DEF PartyRecords
<1>4. [old EXCEPT !.log = log] \in PartyRecords
  BY <1>1, <1>2 DEF PartyRecords
<1> QED BY <1>1, <1>3, <1>4 DEF old, log

\* Field and value of a change; an identifier is made Absent only if no equal one is left.
LEMMA ChangeKeepsInv ==
  ASSUME PartyInv, NEW p \in DOMAIN parties, NEW field \in Fields, NEW value \in PartyValues,
         \A i \in Identifiers : field = <<"identifier", i>> => value = "present" \/ parties[p].spare[i] = 0,
         Change(p, field, value)
  PROVE  PartyInv'
<1> DEFINE old == parties[p]
           event == [field |-> field, value |-> value]
           next == [Noting(p, field, value) EXCEPT !.fields[field] = value]
<1>1. old \in PartyRecords /\ SparesAreGiven(old)
  BY DEF PartyInv, PartyTypes, LogsFollow
<1>2. CASE SaveParty(p, old)
  <2>1. Succeeds(old, old, field, value)
    BY <1>1 DEF Succeeds
  <2> QED BY <1>2, <2>1, SavePartyKeepsInv
<1>3. CASE SaveParty(p, next)
  <2>1. /\ next = [kind |-> old.kind, fields |-> [old.fields EXCEPT ![field] = value],
                   given |-> old.given, spare |-> old.spare, log |-> Append(old.log, event)]
        /\ old.fields \in [Fields -> PartyValues] /\ old.log \in Events(Fields, PartyValues)
    <3>1. Noting(p, field, value) =
            [kind |-> old.kind, fields |-> old.fields, given |-> old.given,
             spare |-> old.spare, log |-> Append(old.log, event)]
      BY <1>1, NotedIs
    <3>2. old.fields \in [Fields -> PartyValues] /\ old.log \in Events(Fields, PartyValues)
      BY <1>1 DEF PartyRecords
    <3> DEFINE noted == Noting(p, field, value)
    <3>3. noted \in PartyRecords
      BY <1>1, NotedIs
    <3> HIDE DEF old, event, noted
    <3>4. [noted EXCEPT !.fields[field] = value] =
            [kind |-> noted.kind, fields |-> [noted.fields EXCEPT ![field] = value],
             given |-> noted.given, spare |-> noted.spare, log |-> noted.log]
      BY <3>3 DEF PartyRecords
    <3> QED BY <3>1, <3>2, <3>4 DEF noted
  <2>2. Append(old.log, event) \in Events(Fields, PartyValues)
    BY <1>1, EventIsNoted
  <2> DEFINE log == Append(old.log, event)
             fields == [old.fields EXCEPT ![field] = value]
  <2>3. fields \in [Fields -> PartyValues]
    BY <2>1
  <2>4. /\ next.given = old.given /\ next.spare = old.spare
        /\ next.fields = fields /\ next.log = log
    BY <2>1
  <2> HIDE DEF log, fields
  <2>5. next \in PartyRecords
    BY <1>1, <2>1, <2>2, <2>3 DEF PartyRecords, log, fields
  <2> HIDE DEF next, old
  <2>6. SparesAreGiven(next)
    <3> SUFFICES ASSUME NEW i \in Identifiers, old.spare[i] > 0
                 PROVE  /\ fields[<<"identifier", i>>] = "present"
                        /\ GivenAgain(next, <<"identifier", i>>)
      BY <2>4 DEF SparesAreGiven
    <3>1. old.fields[<<"identifier", i>>] = "present" /\ GivenAgain(old, <<"identifier", i>>)
      BY <1>1 DEF SparesAreGiven
    <3>2. GivenAgain(next, <<"identifier", i>>)
      BY <2>4, <3>1 DEF GivenAgain
    <3>3. field = <<"identifier", i>> => value = "present"
      BY DEF old
    <3> QED BY <2>1, <3>1, <3>2, <3>3 DEF fields, Fields
  <2>7. Succeeds(next, old, field, value)
    <3>1. /\ \A f \in Fields : f # field => fields[f] = old.fields[f]
          /\ fields[field] = value
      BY <2>1 DEF fields
    <3> QED BY <2>4, <2>5, <2>6, <3>1 DEF Succeeds, log
  <2> QED BY <1>3, <2>7, SavePartyKeepsInv DEF old
<1> QED BY <1>2, <1>3 DEF Change

\* One of equal identifiers goes, and says so, but the field stays.
LEMMA RemoveIdentifierKeepsInv ==
  ASSUME PartyInv, NEW p \in DOMAIN parties, NEW i \in Identifiers,
         RemoveRegisteredIdentifier(p, i)
  PROVE  PartyInv'
<1> DEFINE old == parties[p]
           field == <<"identifier", i>>
           event == [field |-> field, value |-> Absent]
           next == [Noting(p, field, Absent) EXCEPT !.spare[i] = @ - 1]
<1>1. /\ old \in PartyRecords /\ SparesAreGiven(old)
      /\ field \in Fields /\ Absent \in PartyValues
  BY DEF PartyInv, PartyTypes, LogsFollow, Fields, PartyValues
<1>2. CASE old.spare[i] = 0
  <2>1. Change(p, field, Absent)
    BY <1>2 DEF RemoveRegisteredIdentifier
  <2>2. \A j \in Identifiers : field = <<"identifier", j>> => old.spare[j] = 0
    BY <1>2
  <2> HIDE DEF field
  <2> QED BY <1>1, <2>1, <2>2, ChangeKeepsInv
<1>3. CASE old.spare[i] # 0
  <2>1. SaveParty(p, next)
    BY <1>3 DEF RemoveRegisteredIdentifier
  <2> DEFINE log == Append(old.log, event)
             spare == [old.spare EXCEPT ![i] = @ - 1]
  <2>2. /\ next = [kind |-> old.kind, fields |-> old.fields, given |-> old.given,
                   spare |-> spare, log |-> log]
        /\ old.spare \in [Identifiers -> Nat] /\ old.log \in Events(Fields, PartyValues)
    <3>1. Noting(p, field, Absent) =
            [kind |-> old.kind, fields |-> old.fields, given |-> old.given,
             spare |-> old.spare, log |-> Append(old.log, event)]
      BY <1>1, NotedIs
    <3>2. old.spare \in [Identifiers -> Nat] /\ old.log \in Events(Fields, PartyValues)
      BY <1>1 DEF PartyRecords
    <3> DEFINE noted == Noting(p, field, Absent)
    <3>3. noted \in PartyRecords
      BY <1>1, NotedIs
    <3> HIDE DEF old, event, field, noted
    <3>4. [noted EXCEPT !.spare[i] = @ - 1] =
            [kind |-> noted.kind, fields |-> noted.fields, given |-> noted.given,
             spare |-> [noted.spare EXCEPT ![i] = @ - 1], log |-> noted.log]
      BY <3>3 DEF PartyRecords
    <3> QED BY <3>1, <3>2, <3>4 DEF noted
  <2>3. log \in Events(Fields, PartyValues)
    <3> HIDE DEF field
    <3> QED BY <1>1, EventIsNoted
  <2>4. spare \in [Identifiers -> Nat] /\ \A j \in Identifiers : spare[j] <= old.spare[j]
    BY <1>3, <2>2
  <2>5. /\ next.given = old.given /\ next.spare = spare
        /\ next.fields = old.fields /\ next.log = log
    BY <2>2
  <2> HIDE DEF log, spare
  <2>6. next \in PartyRecords
    BY <1>1, <2>2, <2>3, <2>4 DEF PartyRecords
  <2> HIDE DEF next, old
  <2>7. \A f : GivenAgain(next, f) <=> GivenAgain(old, f)
    BY <2>5 DEF GivenAgain
  <2>8. old.fields[field] = "present" /\ GivenAgain(old, field) /\ "present" # Absent
    <3>1. old.spare[i] > 0
      BY <1>3, <2>2
    <3> QED BY <1>1, <3>1, PartiesAssumption DEF SparesAreGiven
  <2>9. SparesAreGiven(next)
    <3> SUFFICES ASSUME NEW j \in Identifiers, spare[j] > 0
                 PROVE  /\ old.fields[<<"identifier", j>>] = "present"
                        /\ GivenAgain(next, <<"identifier", j>>)
      BY <2>5 DEF SparesAreGiven
    <3>1. old.spare[j] > 0
      BY <2>2, <2>4
    <3> QED BY <1>1, <2>7, <3>1 DEF SparesAreGiven
  <2> HIDE DEF field
  <2>10. Succeeds(next, old, field, Absent)
    BY <2>5, <2>6, <2>7, <2>8, <2>9 DEF Succeeds, log
  <2> QED BY <1>1, <2>1, <2>10, SavePartyKeepsInv DEF old
<1> QED BY <1>2, <1>3

\* Registering a party that was not there: it has no events, and is known if announced.
LEMMA RegisterKeepsInv ==
  ASSUME PartyInv, NEW p \in PartyIds, NEW command \in Registrations, Register(p, command)
  PROVE  PartyInv'
<1> DEFINE new == Registered(command)
<1>1. /\ p \notin DOMAIN parties /\ p \notin announced
      /\ parties' = Extended(parties, p, new)
      /\ UNCHANGED <<addresses, relationships, behind>>
  BY DEF Register, PartyInv, PartyTypes
<1>2. new \in PartyRecords /\ SparesAreGiven(new) /\ new.log = <<>>
  <2> DEFINE given == command.identifiers
  <2>1. command.name \in Names /\ command.kind \in Kinds /\ given \in [Identifiers -> Nat]
    BY PartiesAssumption
  <2>2. /\ new.kind \in Kinds /\ new.fields \in [Fields -> PartyValues] /\ new.given = given
        /\ new.spare = [i \in Identifiers |-> IF given[i] > 0 THEN given[i] - 1 ELSE 0]
        /\ new.log = <<>> /\ DOMAIN new = {"kind", "fields", "given", "spare", "log"}
        /\ new = [kind |-> new.kind, fields |-> new.fields, given |-> new.given,
                  spare |-> new.spare, log |-> new.log]
    BY <2>1 DEF Registered, PartyValues
  <2>3. \A i \in Identifiers : given[i] > 0 => new.fields[<<"identifier", i>>] = "present"
    BY <2>1 DEF Registered, Fields
  <2> HIDE DEF new, given
  <2>4. new.spare \in [Identifiers -> Nat]
    BY <2>1, <2>2
  <2>5. <<>> \in Events(Fields, PartyValues)
    BY DEF Events
  <2>6. new \in PartyRecords
    BY <2>1, <2>2, <2>4, <2>5 DEF PartyRecords
  <2>7. SparesAreGiven(new)
    <3> SUFFICES ASSUME NEW i \in Identifiers, new.spare[i] > 0
                 PROVE  /\ new.fields[<<"identifier", i>>] = "present"
                        /\ GivenAgain(new, <<"identifier", i>>)
      BY DEF SparesAreGiven
    <3>1. given[i] > 1 /\ given[i] > 0
      BY <2>1, <2>2
    <3> QED BY <2>2, <2>3, <3>1 DEF GivenAgain
  <2> QED BY <2>2, <2>6, <2>7
<1>3. \/ announced' = announced \cup {p} /\ view' = [view EXCEPT !.fields[p] = new.fields]
      \/ announced' = announced /\ view' = view
  BY DEF Register
<1> HIDE DEF new
<1>4. /\ DOMAIN parties' = DOMAIN parties \cup {p} /\ parties'[p] = new
      /\ \A q \in DOMAIN parties : parties'[q] = parties[q] /\ q # p
  BY <1>1 DEF Extended
<1>5. /\ \A f : ~Told(new.log, f)
      /\ Follows(new)
  BY <1>2 DEF Told, Follows
<1>6. /\ \A q \in PartyIds : q # p => view'.fields[q] = view.fields[q]
      /\ p \in announced' => view'.fields[p] = new.fields
      /\ view'.addresses = view.addresses /\ view'.relationships = view.relationships
      /\ view' \in Views
  <2>1. view \in Views /\ new.fields \in [Fields -> PartyValues]
    BY <1>2 DEF PartyInv, PartyTypes, PartyRecords
  <2>2. CASE announced' = announced \cup {p} /\ view' = [view EXCEPT !.fields[p] = new.fields]
    BY <2>1, <2>2 DEF Views
  <2>3. CASE announced' = announced /\ view' = view
    BY <1>1, <2>1, <2>3
  <2> QED BY <1>3, <2>2, <2>3
<1>7. announced' \subseteq announced \cup {p} /\ announced \subseteq DOMAIN parties
  BY <1>3 DEF PartyInv, PartyTypes
<1>8. PartyTypes'
  BY <1>1, <1>2, <1>4, <1>6, <1>7 DEF PartyInv, PartyTypes
<1>9. LogsFollow'
  <2>1. ASSUME NEW q \in DOMAIN parties' PROVE SparesAreGiven(parties'[q]) /\ Follows(parties'[q])
    <3>1. CASE q = p
      BY <1>2, <1>4, <1>5, <3>1
    <3>2. CASE q # p
      <4>1. q \in DOMAIN parties /\ parties'[q] = parties[q]
        BY <1>4, <2>1, <3>2
      <4> QED BY <4>1 DEF PartyInv, LogsFollow
    <3> QED BY <3>1, <3>2
  <2> QED BY <1>1, <2>1 DEF PartyInv, LogsFollow
<1>10. ASSUME NEW q \in DOMAIN parties', NEW f \in Fields
       PROVE  /\ q \in announced' =>
                   Told(parties'[q].log, f) \/ view'.fields[q][f] = parties'[q].fields[f]
              /\ /\ q \in announced' \/ Told(parties'[q].log, f)
                 /\ GivenAgain(parties'[q], f) => parties'[q].fields[f] = Absent
                 /\ <<"party", q>> \notin behind'
                 => view'.fields[q][f] = parties'[q].fields[f]
  <2>1. CASE q = p
    BY <1>4, <1>5, <1>6, <2>1
  <2>2. CASE q # p
    <3>1. q \in DOMAIN parties /\ parties'[q] = parties[q] /\ behind' = behind
      BY <1>1, <1>4, <1>10, <2>2
    <3>2. q \in PartyIds
      BY <3>1 DEF PartyInv, PartyTypes
    <3>3. view'.fields[q] = view.fields[q] /\ (q \in announced' => q \in announced)
      BY <1>6, <1>7, <2>2, <3>2
    <3>4. q \in announced => Told(parties[q].log, f) \/ view.fields[q][f] = parties[q].fields[f]
      BY DEF PartyInv, UntoldIsKnown
    <3>5. /\ q \in announced \/ Told(parties[q].log, f)
          /\ GivenAgain(parties[q], f) => parties[q].fields[f] = Absent
          /\ <<"party", q>> \notin behind
          => view.fields[q][f] = parties[q].fields[f]
      BY <3>1 DEF PartyInv, SubscriberCatchesUp, PartiesCatchUp, Told
    <3> QED BY <3>1, <3>3, <3>4, <3>5
  <2> QED BY <2>1, <2>2
<1>11. UntoldIsKnown'
  <2>1. announced' \subseteq DOMAIN parties'
    BY <1>4, <1>7
  <2>2. \A place \in Places :
          (\A q \in DOMAIN addresses' : ~Told(addresses'[q].log, place)) => view'.addresses[place] = Absent
    BY <1>1, <1>6 DEF PartyInv, UntoldIsKnown
  <2> QED BY <1>10, <2>1, <2>2 DEF UntoldIsKnown
<1>12. SubscriberCatchesUp'
  <2>1. PartiesCatchUp'
    BY <1>10 DEF PartiesCatchUp, Told
  <2>2. AddressesCatchUp' /\ RelationshipsCatchUp'
    BY <1>1, <1>6 DEF PartyInv, SubscriberCatchesUp, AddressesCatchUp, NamesItself,
                      RelationshipsCatchUp
  <2> QED BY <2>1, <2>2 DEF SubscriberCatchesUp
<1> QED BY <1>8, <1>9, <1>11, <1>12 DEF PartyInv

-----------------------------------------------------------------------------
(* Addresses and relationships *)

\* A list is saved as it was, or with one address set and one more event about it, which
\* names some party.
ListSucceeds(list, old, a, named, value) ==
  /\ list \in AddressLists
  /\ \/ list = old
     \/ /\ Notes(list.log, old.log, <<named, a>>, value)
        /\ list.current = [old.current EXCEPT ![a] = value]

\* A list that names only p follows its log, if the one before did.
LEMMA SucceedingListFollows ==
  ASSUME NEW p \in PartyIds, NEW old \in AddressLists, NamesOnly(p, old) => ListFollows(p, old),
         NEW a \in AddressIds, NEW named \in PartyIds, NEW value \in AddressValues,
         NEW list, ListSucceeds(list, old, a, named, value)
  PROVE  /\ NamesOnly(p, list) => ListFollows(p, list)
         /\ \A i \in DOMAIN old.log : i \in DOMAIN list.log /\ list.log[i] = old.log[i]
<1>1. CASE list = old
  BY <1>1
<1>2. CASE /\ Notes(list.log, old.log, <<named, a>>, value)
           /\ list.current = [old.current EXCEPT ![a] = value]
  <2> DEFINE log == old.log
             new == list.log
             place == <<named, a>>
  <2>1. /\ log \in Events(Places, AddressValues) /\ Notes(new, log, place, value)
        /\ place \in Places /\ old.current \in [AddressIds -> AddressValues]
    BY <1>2 DEF AddressLists, Places
  <2>2. \A i \in DOMAIN log : i \in DOMAIN new /\ new[i] = log[i]
    <3> DEFINE R == [field : Places, value : AddressValues]
               e == [field |-> place, value |-> value]
    <3>1. e \in R /\ log \in Seq(R) /\ new = Append(log, e)
      <4> HIDE DEF place, log, new
      <4> QED BY <2>1 DEF Events, Notes
    <3> HIDE DEF R, e, log, new
    <3> QED BY <3>1
  <2>3. /\ Told(new, place) /\ LastWord(new, place) = value
        /\ \A f : f # place => (Told(new, f) <=> Told(log, f))
        /\ \A f : f # place => LastWord(new, f) = LastWord(log, f) \/ ~Told(log, f)
    <3> HIDE DEF log, new, place
    <3> QED BY <2>1, OneMoreWord
  <2>4. ASSUME NamesOnly(p, list) PROVE ListFollows(p, list)
    <3>1. named = p
      <4>1. PICK i \in DOMAIN new : new[i].field = place
        BY <2>3 DEF Told
      <4> QED BY <2>4, <4>1 DEF NamesOnly
    <3>2. NamesOnly(p, old)
      BY <2>2, <2>4 DEF NamesOnly
    <3>3. ASSUME NEW b \in AddressIds
          PROVE  list.current[b] =
                   IF Told(new, <<p, b>>) THEN LastWord(new, <<p, b>>) ELSE Absent
      <4>1. CASE b = a
        BY <1>2, <2>1, <2>3, <3>1, <4>1
      <4>2. CASE b # a
        <5>1. <<p, b>> # place /\ list.current[b] = old.current[b]
          BY <1>2, <2>1, <4>2
        <5>2. old.current[b] = IF Told(log, <<p, b>>) THEN LastWord(log, <<p, b>>) ELSE Absent
          BY <3>2 DEF ListFollows
        <5> HIDE DEF log, new, place
        <5> QED BY <2>3, <5>1, <5>2
      <4> QED BY <4>1, <4>2
    <3> QED BY <3>3 DEF ListFollows
  <2> QED BY <2>2, <2>4
<1> QED BY <1>1, <1>2 DEF ListSucceeds

LEMMA ListIsTyped ==
  ASSUME PartyInv, NEW p \in PartyIds
  PROVE  /\ AddressesFor(p) \in AddressLists
         /\ NamesOnly(p, AddressesFor(p)) => ListFollows(p, AddressesFor(p))
<1>1. CASE p \in DOMAIN addresses
  BY <1>1 DEF AddressesFor, PartyInv, PartyTypes, LogsFollow
<1>2. CASE p \notin DOMAIN addresses
  <2>1. AddressesFor(p) = [current |-> NoAddresses, log |-> <<>>]
    BY <1>2 DEF AddressesFor
  <2>2. <<>> \in Events(Places, AddressValues) /\ NoAddresses \in [AddressIds -> AddressValues]
    BY DEF Events, NoAddresses, AddressValues
  <2>3. \A f : ~Told(<<>>, f)
    BY DEF Told
  <2> QED BY <2>1, <2>2, <2>3 DEF AddressLists, ListFollows, NoAddresses
<1> QED BY <1>1, <1>2

LEMMA SaveAddressesKeepsInv ==
  ASSUME PartyInv, NEW p \in PartyIds, NEW a \in AddressIds, NEW named \in PartyIds,
         NEW value \in AddressValues,
         NEW list, ListSucceeds(list, AddressesFor(p), a, named, value), SaveAddresses(p, list)
  PROVE  PartyInv'
<1>1. /\ addresses' = Extended(addresses, p, list)
      /\ UNCHANGED <<parties, relationships, announced>>
      /\ list \in AddressLists /\ list.log \in Events(Places, AddressValues)
      /\ view \in Views /\ view.addresses \in [Places -> AddressValues]
  BY DEF SaveAddresses, ListSucceeds, PartyInv, PartyTypes, AddressLists, Views
<1>2. PICK n \in 0..Len(list.log) :
        /\ view' = [view EXCEPT !.addresses = Applied(@, Delivered(list.log, n))]
        /\ behind' = NowBehind(<<"addresses", p>>, list.log, n)
  BY DEF SaveAddresses
<1> DEFINE got == Applied(view.addresses, Delivered(list.log, n))
<1>3. /\ got \in [Places -> AddressValues]
      /\ \A f \in Places : ~Told(list.log, f) => got[f] = view.addresses[f]
      /\ n = Len(list.log) => \A f \in Places : Told(list.log, f) => got[f] = LastWord(list.log, f)
  <2> DEFINE known == view.addresses
             log == list.log
  <2>1. /\ log \in Events(Places, AddressValues) /\ n \in 0..Len(log)
        /\ known \in [Places -> AddressValues] /\ got = Applied(known, Delivered(log, n))
    BY <1>1, <1>2
  <2> HIDE DEF known, log, got
  <2>2. /\ got \in [Places -> AddressValues]
        /\ \A f \in Places : ~Told(log, f) => got[f] = known[f]
        /\ n = Len(log) => \A f \in Places : Told(log, f) => got[f] = LastWord(log, f)
    BY <2>1, PublishingTells
  <2> QED BY <2>2 DEF known, log
<1> HIDE DEF got
<1>4. /\ DOMAIN addresses' = DOMAIN addresses \cup {p} /\ addresses'[p] = list
      /\ \A q \in DOMAIN addresses : q # p => addresses'[q] = addresses[q]
  BY <1>1 DEF Extended
<1>5. /\ view'.addresses = got
      /\ view'.fields = view.fields /\ view'.relationships = view.relationships
      /\ view' \in Views
  BY <1>1, <1>2, <1>3 DEF got, Views
<1>6. /\ <<"addresses", p>> \notin behind' => n = Len(list.log)
      /\ \A q : q # p => (<<"addresses", q>> \in behind' <=> <<"addresses", q>> \in behind)
      /\ \A q : <<"party", q>> \in behind' <=> <<"party", q>> \in behind
      /\ \A q : <<"relationship", q>> \in behind' <=> <<"relationship", q>> \in behind
  <2>1. Len(list.log) \in Nat
    BY <1>1 DEF Events
  <2> QED BY <1>2, <2>1 DEF NowBehind
<1>7. /\ NamesOnly(p, list) => ListFollows(p, list)
      /\ \A i \in DOMAIN AddressesFor(p).log :
           i \in DOMAIN list.log /\ list.log[i] = AddressesFor(p).log[i]
  <2>1. /\ AddressesFor(p) \in AddressLists
        /\ NamesOnly(p, AddressesFor(p)) => ListFollows(p, AddressesFor(p))
    BY ListIsTyped
  <2> QED BY <2>1, SucceedingListFollows
<1>8. PartyTypes' /\ LogsFollow'
  BY <1>1, <1>4, <1>5, <1>7 DEF PartyInv, PartyTypes, LogsFollow
\* Logs only grow, so what no list told before is as it was.
<1>9. ASSUME NEW q \in DOMAIN addresses
      PROVE  /\ q \in DOMAIN addresses'
             /\ \A i \in DOMAIN addresses[q].log :
                  i \in DOMAIN addresses'[q].log /\ addresses'[q].log[i] = addresses[q].log[i]
  <2>1. CASE q = p
    BY <1>4, <1>7, <2>1 DEF AddressesFor
  <2>2. CASE q # p
    BY <1>4, <2>2
  <2> QED BY <2>1, <2>2
<1>10. ASSUME NEW place \in Places, \A q \in DOMAIN addresses' : ~Told(addresses'[q].log, place)
       PROVE  view'.addresses[place] = Absent
  <2>1. \A q \in DOMAIN addresses : ~Told(addresses[q].log, place)
    BY <1>9, <1>10 DEF Told
  <2>2. view.addresses[place] = Absent
    BY <2>1 DEF PartyInv, UntoldIsKnown
  <2>3. ~Told(list.log, place)
    BY <1>4, <1>10
  <2> QED BY <1>3, <1>5, <2>2, <2>3
<1>11. UntoldIsKnown'
  BY <1>1, <1>5, <1>10 DEF PartyInv, UntoldIsKnown
<1>12. SubscriberCatchesUp'
  <2>1. ASSUME NEW q \in DOMAIN addresses', <<"addresses", q>> \notin behind', NamesItself(q)',
               NEW b \in AddressIds
        PROVE  view'.addresses[<<q, b>>] = addresses'[q].current[b]
    <3>1. /\ q \in PartyIds /\ <<q, b>> \in Places
          /\ \A r \in DOMAIN addresses' : r # q => ~Told(addresses'[r].log, <<q, b>>)
          /\ NamesOnly(q, addresses'[q])
      BY <1>8, <2>1 DEF PartyTypes, Places, NamesItself, NamesOnly, Told
    <3>2. CASE q = p
      <4>1. list.current[b] =
              IF Told(list.log, <<q, b>>) THEN LastWord(list.log, <<q, b>>) ELSE Absent
        BY <1>4, <1>7, <3>1, <3>2 DEF ListFollows
      <4>2. CASE Told(list.log, <<q, b>>)
        BY <1>3, <1>4, <1>5, <1>6, <2>1, <3>1, <3>2, <4>1, <4>2
      <4>3. CASE ~Told(list.log, <<q, b>>)
        <5>1. \A r \in DOMAIN addresses' : ~Told(addresses'[r].log, <<q, b>>)
          BY <1>4, <3>1, <3>2, <4>3
        <5>2. view'.addresses[<<q, b>>] = Absent
          BY <1>10, <3>1, <5>1
        <5> QED BY <1>4, <3>2, <4>1, <4>3, <5>2
      <4> QED BY <4>2, <4>3
    <3>3. CASE q # p
      <4>1. q \in DOMAIN addresses /\ addresses'[q] = addresses[q] /\ <<"addresses", q>> \notin behind
        BY <1>4, <1>6, <2>1, <3>3
      <4>2. NamesItself(q)
        BY <1>9, <2>1 DEF NamesItself
      <4>3. view.addresses[<<q, b>>] = addresses[q].current[b]
        BY <4>1, <4>2 DEF PartyInv, SubscriberCatchesUp, AddressesCatchUp
      <4>4. ~Told(list.log, <<q, b>>)
        BY <1>4, <3>1, <3>3
      <4> QED BY <1>3, <1>5, <3>1, <4>1, <4>3, <4>4
    <3> QED BY <3>2, <3>3
  <2>2. AddressesCatchUp'
    BY <2>1 DEF AddressesCatchUp
  <2>3. PartiesCatchUp' /\ RelationshipsCatchUp'
    BY <1>1, <1>5, <1>6 DEF PartyInv, SubscriberCatchesUp, PartiesCatchUp, RelationshipsCatchUp
  <2> QED BY <2>2, <2>3 DEF SubscriberCatchesUp
<1> QED BY <1>8, <1>11, <1>12 DEF PartyInv

\* An address that is there is replaced or left alone, with or without an event.
LEMMA SetAddressKeepsInv ==
  ASSUME PartyInv, NEW p \in PartyIds, NEW a \in AddressIds, NEW named \in PartyIds,
         NEW value \in AddressValues, SetAddress(p, a, value, named)
  PROVE  PartyInv'
<1> DEFINE old == AddressesFor(p)
           current == [old.current EXCEPT ![a] = value]
           log == Append(old.log, [field |-> <<named, a>>, value |-> value])
           list == [current |-> current, log |-> log]
<1>1. SaveAddresses(p, list)
  BY DEF SetAddress
<1>2. old.current \in [AddressIds -> AddressValues] /\ old.log \in Events(Places, AddressValues)
  BY ListIsTyped DEF AddressLists
<1> DEFINE before == old.log
           place == <<named, a>>
<1>3. Notes(log, before, place, value) /\ place \in Places
  BY DEF Notes, Places
<1>4. log \in Events(Places, AddressValues)
  <2>1. before \in Events(Places, AddressValues)
    BY <1>2
  <2> HIDE DEF log, before, place
  <2> QED BY <1>3, <2>1, OneMoreWord
<1>5. current \in [AddressIds -> AddressValues]
  BY <1>2
<1>6. ListSucceeds(list, old, a, named, value)
  <2>1. list.current = current /\ list.log = log
    OBVIOUS
  <2> HIDE DEF log, current
  <2>2. list \in AddressLists
    BY <1>4, <1>5 DEF AddressLists
  <2> HIDE DEF list
  <2> QED BY <1>3, <2>1, <2>2 DEF ListSucceeds, current
<1> HIDE DEF list
<1> QED BY <1>1, <1>6, SaveAddressesKeepsInv

LEMMA AddressStepKeepsInv ==
  ASSUME PartyInv, NEW p \in PartyIds, NEW a \in AddressIds,
         \/ RemoveAddress(p, a)
         \/ \E named \in PartyIds, d \in Details, u \in SUBSET UseTypes :
              AddOrUpdateGeoAddress(p, a, [party |-> named, details |-> d, useTypes |-> u])
  PROVE  PartyInv'
<1> DEFINE list == AddressesFor(p)
           old == list.current[a]
<1>1. list \in AddressLists /\ old \in AddressValues /\ Absent \in AddressValues
  BY ListIsTyped DEF AddressLists, AddressValues
<1>2. CASE SaveAddresses(p, list)
  <2>1. ListSucceeds(list, list, a, p, Absent)
    BY <1>1 DEF ListSucceeds
  <2> QED BY <1>1, <1>2, <2>1, SaveAddressesKeepsInv
<1>3. CASE RemoveAddress(p, a) /\ ~SaveAddresses(p, list)
  <2>1. SetAddress(p, a, Absent, old.party) /\ old # Absent
    BY <1>3 DEF RemoveAddress
  <2>2. old.party \in PartyIds
    BY <1>1, <2>1 DEF AddressValues
  <2> QED BY <1>1, <2>1, <2>2, SetAddressKeepsInv
<1>4. CASE /\ ~SaveAddresses(p, list)
           /\ \E named \in PartyIds, d \in Details, u \in SUBSET UseTypes :
                AddOrUpdateGeoAddress(p, a, [party |-> named, details |-> d, useTypes |-> u])
  <2>1. PICK named \in PartyIds, d \in Details, u \in SUBSET UseTypes :
          AddOrUpdateGeoAddress(p, a, [party |-> named, details |-> d, useTypes |-> u])
    BY <1>4
  <2> DEFINE new == [party |-> named, details |-> d, useTypes |-> u]
  <2>2. new \in AddressValues /\ new.party = named
    BY DEF AddressValues
  <2>3. SetAddress(p, a, new, named)
    <3> HIDE DEF new
    <3>1. AddOrUpdateGeoAddress(p, a, new)
      BY <2>1 DEF new
    <3> QED BY <1>4, <2>2, <3>1 DEF AddOrUpdateGeoAddress
  <2> HIDE DEF new
  <2> QED BY <2>2, <2>3, SetAddressKeepsInv
<1> QED BY <1>2, <1>3, <1>4

\* What a step that changes relationships only has to keep of the invariant.
LEMMA OnlyRelationships ==
  ASSUME PartyInv, UNCHANGED <<parties, addresses, announced>>,
         relationships' \in Seq(Relations \cup {Absent}),
         NEW known \in SUBSET Nat, view' = [view EXCEPT !.relationships = known],
         \A q : <<"party", q>> \in behind' <=> <<"party", q>> \in behind,
         \A q : <<"addresses", q>> \in behind' <=> <<"addresses", q>> \in behind,
         RelationshipsCatchUp'
  PROVE  PartyInv'
<1>1. /\ view'.fields = view.fields /\ view'.addresses = view.addresses
      /\ view' \in Views
  BY DEF PartyInv, PartyTypes, Views
<1>2. PartyTypes' /\ LogsFollow'
  BY <1>1 DEF PartyInv, PartyTypes, LogsFollow
<1>3. UntoldIsKnown'
  BY <1>1 DEF PartyInv, UntoldIsKnown
<1>4. PartiesCatchUp' /\ AddressesCatchUp'
  BY <1>1 DEF PartyInv, SubscriberCatchesUp, PartiesCatchUp, AddressesCatchUp, NamesItself
<1> QED BY <1>2, <1>3, <1>4 DEF PartyInv, SubscriberCatchesUp

LEMMA AssignKeepsInv ==
  ASSUME PartyInv, NEW r \in Relations, AssignRelationship(r)
  PROVE  PartyInv'
<1> DEFINE id == Len(relationships) + 1
<1>1. /\ relationships \in Seq(Relations \cup {Absent}) /\ r # Absent
      /\ view.relationships \in SUBSET Nat
      /\ view = [view EXCEPT !.relationships = view.relationships]
  BY PartiesAssumption DEF PartyInv, PartyTypes, Views
<1>2. /\ relationships' = Append(relationships, r)
      /\ UNCHANGED <<parties, addresses, announced>>
      /\ \/ view' = [view EXCEPT !.relationships = @ \cup {id}] /\ behind' = behind
         \/ behind' = behind \cup {<<"relationship", id>>} /\ view' = view
  BY DEF AssignRelationship
<1>3. /\ relationships' \in Seq(Relations \cup {Absent})
      /\ DOMAIN relationships' = DOMAIN relationships \cup {id} /\ id \in Nat
      /\ relationships'[id] = r
      /\ \A i \in DOMAIN relationships : relationships'[i] = relationships[i] /\ i # id
  BY <1>1, <1>2
<1> HIDE DEF id
<1>4. \E known \in SUBSET Nat :
        /\ view' = [view EXCEPT !.relationships = known]
        /\ \/ known = view.relationships \cup {id} /\ behind' = behind
           \/ known = view.relationships /\ behind' = behind \cup {<<"relationship", id>>}
  <2>1. CASE view' = [view EXCEPT !.relationships = @ \cup {id}] /\ behind' = behind
    <3>1. view.relationships \cup {id} \in SUBSET Nat
      BY <1>1, <1>3
    <3> QED BY <2>1, <3>1
  <2>2. CASE behind' = behind \cup {<<"relationship", id>>} /\ view' = view
    BY <1>1, <2>2
  <2> QED BY <1>2, <2>1, <2>2
<1>5. PICK known \in SUBSET Nat :
        /\ view' = [view EXCEPT !.relationships = known]
        /\ \/ known = view.relationships \cup {id} /\ behind' = behind
           \/ known = view.relationships /\ behind' = behind \cup {<<"relationship", id>>}
  BY <1>4
<1>6. view'.relationships = known
  BY <1>5 DEF PartyInv, PartyTypes, Views
<1>7. RelationshipsCatchUp'
  <2> SUFFICES ASSUME NEW i \in DOMAIN relationships', <<"relationship", i>> \notin behind'
               PROVE  i \in known <=> relationships'[i] # Absent
    BY <1>6 DEF RelationshipsCatchUp
  <2>1. CASE i = id
    BY <1>1, <1>3, <1>5, <2>1
  <2>2. CASE i # id
    <3>1. i \in DOMAIN relationships /\ relationships'[i] = relationships[i]
      BY <1>3, <2>2
    <3>2. <<"relationship", i>> \notin behind /\ (i \in known <=> i \in view.relationships)
      BY <1>5, <2>2
    <3> QED BY <3>1, <3>2 DEF PartyInv, SubscriberCatchesUp, RelationshipsCatchUp
  <2> QED BY <2>1, <2>2
<1>8. /\ \A q : <<"party", q>> \in behind' <=> <<"party", q>> \in behind
      /\ \A q : <<"addresses", q>> \in behind' <=> <<"addresses", q>> \in behind
  BY <1>5
<1> QED BY <1>2, <1>3, <1>5, <1>7, <1>8, OnlyRelationships

LEMMA RemoveKeepsInv ==
  ASSUME PartyInv, NEW id \in DOMAIN relationships, RemoveRelationship(id)
  PROVE  PartyInv'
<1>1. /\ relationships \in Seq(Relations \cup {Absent})
      /\ view.relationships \in SUBSET Nat
      /\ view = [view EXCEPT !.relationships = view.relationships]
  BY DEF PartyInv, PartyTypes, Views
<1>2. /\ relationships' = [relationships EXCEPT ![id] = Absent]
      /\ UNCHANGED <<parties, addresses, announced>>
      /\ \/ /\ view' = [view EXCEPT !.relationships = @ \ {id}]
            /\ behind' = behind \ {<<"relationship", id>>}
         \/ behind' = behind \cup {<<"relationship", id>>} /\ view' = view
  BY DEF RemoveRelationship
<1>3. /\ relationships' \in Seq(Relations \cup {Absent})
      /\ DOMAIN relationships' = DOMAIN relationships
      /\ relationships'[id] = Absent
      /\ \A i \in DOMAIN relationships : i # id => relationships'[i] = relationships[i]
  BY <1>1, <1>2
<1>4. \E known \in SUBSET Nat :
        /\ view' = [view EXCEPT !.relationships = known]
        /\ \/ known = view.relationships \ {id} /\ behind' = behind \ {<<"relationship", id>>}
           \/ known = view.relationships /\ behind' = behind \cup {<<"relationship", id>>}
  <2>1. CASE /\ view' = [view EXCEPT !.relationships = @ \ {id}]
             /\ behind' = behind \ {<<"relationship", id>>}
    <3>1. view.relationships \ {id} \in SUBSET Nat
      BY <1>1
    <3> QED BY <2>1, <3>1
  <2>2. CASE behind' = behind \cup {<<"relationship", id>>} /\ view' = view
    BY <1>1, <2>2
  <2> QED BY <1>2, <2>1, <2>2
<1>5. PICK known \in SUBSET Nat :
        /\ view' = [view EXCEPT !.relationships = known]
        /\ \/ known = view.relationships \ {id} /\ behind' = behind \ {<<"relationship", id>>}
           \/ known = view.relationships /\ behind' = behind \cup {<<"relationship", id>>}
  BY <1>4
<1>6. view'.relationships = known
  BY <1>5 DEF PartyInv, PartyTypes, Views
<1>7. RelationshipsCatchUp'
  <2> SUFFICES ASSUME NEW i \in DOMAIN relationships', <<"relationship", i>> \notin behind'
               PROVE  i \in known <=> relationships'[i] # Absent
    BY <1>6 DEF RelationshipsCatchUp
  <2>1. CASE i = id
    BY <1>3, <1>5, <2>1
  <2>2. CASE i # id
    <3>1. i \in DOMAIN relationships /\ relationships'[i] = relationships[i]
      BY <1>3, <2>2
    <3>2. <<"relationship", i>> \notin behind /\ (i \in known <=> i \in view.relationships)
      BY <1>5, <2>2
    <3> QED BY <3>1, <3>2 DEF PartyInv, SubscriberCatchesUp, RelationshipsCatchUp
  <2> QED BY <2>1, <2>2
<1>8. /\ \A q : <<"party", q>> \in behind' <=> <<"party", q>> \in behind
      /\ \A q : <<"addresses", q>> \in behind' <=> <<"addresses", q>> \in behind
  BY <1>5
<1> QED BY <1>2, <1>3, <1>5, <1>7, <1>8, OnlyRelationships

-----------------------------------------------------------------------------

LEMMA PInitInv == PInit => PartyInv
<1> SUFFICES ASSUME PInit PROVE PartyInv
  OBVIOUS
<1>1. /\ DOMAIN parties = {} /\ DOMAIN addresses = {} /\ announced = {}
      /\ relationships = <<>>
      /\ view = [fields |-> [p \in PartyIds |-> NoFields],
                 addresses |-> [f \in Places |-> Absent], relationships |-> {}]
  BY DEF PInit
<1>2. PartyTypes
  BY <1>1 DEF PartyTypes, NoFields, PartyValues, AddressValues, Views
<1>3. UntoldIsKnown
  BY <1>1 DEF UntoldIsKnown
<1>4. LogsFollow /\ SubscriberCatchesUp
  BY <1>1 DEF LogsFollow, SubscriberCatchesUp, PartiesCatchUp, AddressesCatchUp,
              RelationshipsCatchUp
<1> QED BY <1>2, <1>3, <1>4 DEF PartyInv

LEMMA PNextInv == PartyInv /\ [PNext]_pvars => PartyInv'
<1> SUFFICES ASSUME PartyInv, [PNext]_pvars PROVE PartyInv'
  OBVIOUS
<1>1. ASSUME NEW p \in PartyIds, NEW c \in Registrations, Register(p, c) PROVE PartyInv'
  BY <1>1, RegisterKeepsInv
<1>2. ASSUME NEW p \in DOMAIN parties, NEW r \in Roles, AddRole(p, r) \/ RemoveRole(p, r)
      PROVE  PartyInv'
  <2> DEFINE field == <<"role", r>>
  <2>1. field \in Fields /\ {"present", Absent} \subseteq PartyValues
    BY DEF Fields, PartyValues
  <2>2. Change(p, field, "present") \/ Change(p, field, Absent)
    BY <1>2 DEF AddRole, RemoveRole
  <2>3. \A i \in Identifiers : field # <<"identifier", i>>
    OBVIOUS
  <2> HIDE DEF field
  <2> QED BY <2>1, <2>2, <2>3, ChangeKeepsInv
<1>3. ASSUME NEW p \in DOMAIN parties, NEW i \in Identifiers,
             AddRegisteredIdentifier(p, i) \/ RemoveRegisteredIdentifier(p, i)
      PROVE  PartyInv'
  <2> DEFINE field == <<"identifier", i>>
  <2>1. field \in Fields /\ "present" \in PartyValues
    BY DEF Fields, PartyValues
  <2>2. CASE AddRegisteredIdentifier(p, i)
    <3>1. Change(p, field, "present")
      BY <2>2 DEF AddRegisteredIdentifier
    <3> HIDE DEF field
    <3> QED BY <2>1, <3>1, ChangeKeepsInv
  <2>3. CASE RemoveRegisteredIdentifier(p, i)
    BY <2>3, RemoveIdentifierKeepsInv
  <2> QED BY <1>3, <2>2, <2>3
<1>4. ASSUME NEW p \in DOMAIN parties, NEW n \in Names,
             UpdatePersonalData(p, n) \/ UpdateOrganizationName(p, n)
      PROVE  PartyInv'
  <2> DEFINE field == <<"name">>
  <2>1. field \in Fields /\ n \in PartyValues /\ \A i \in Identifiers : field # <<"identifier", i>>
    BY DEF Fields, PartyValues
  <2>2. Change(p, field, n)
    BY <1>4 DEF UpdatePersonalData, UpdateOrganizationName
  <2> HIDE DEF field
  <2> QED BY <2>1, <2>2, ChangeKeepsInv
<1>5. ASSUME NEW p \in PartyIds, NEW named \in PartyIds, NEW a \in AddressIds, NEW d \in Details,
             NEW u \in SUBSET UseTypes,
             AddOrUpdateGeoAddress(p, a, [party |-> named, details |-> d, useTypes |-> u])
      PROVE  PartyInv'
  BY <1>5, AddressStepKeepsInv
<1>6. ASSUME NEW p \in PartyIds, NEW a \in AddressIds, RemoveAddress(p, a) PROVE PartyInv'
  BY <1>6, AddressStepKeepsInv
<1>7. ASSUME NEW r \in Relations, AssignRelationship(r) PROVE PartyInv'
  BY <1>7, AssignKeepsInv
<1>8. ASSUME NEW id \in DOMAIN relationships, RemoveRelationship(id) PROVE PartyInv'
  BY <1>8, RemoveKeepsInv
<1>9. CASE UNCHANGED pvars
  <2>1. /\ parties' = parties /\ addresses' = addresses /\ relationships' = relationships
        /\ view' = view /\ announced' = announced /\ behind' = behind
    BY <1>9 DEF pvars
  <2>3. PartyTypes' /\ LogsFollow'
    BY <2>1 DEF PartyInv, PartyTypes, LogsFollow
  <2>4. UntoldIsKnown'
    BY <2>1 DEF PartyInv, UntoldIsKnown
  <2>5. SubscriberCatchesUp'
    BY <2>1 DEF PartyInv, SubscriberCatchesUp, PartiesCatchUp, AddressesCatchUp, NamesItself,
                RelationshipsCatchUp
  <2> QED BY <2>3, <2>4, <2>5 DEF PartyInv
<1> QED BY <1>1, <1>2, <1>3, <1>4, <1>5, <1>6, <1>7, <1>8, <1>9 DEF PNext

\* Whatever publishing loses, the subscriber agrees with every party and with all
\* addresses of every party whose last command was published to the end, and with the
\* relationships whose announcement was not lost; identifiers given more than once and
\* addresses that name another party are left out
\* (Party.publishedEvents, InMemoryEventsPublisher.publish, PartyRelationshipsFacade).
THEOREM CatchUpCorrect == PSpec => []SubscriberCatchesUp
<1>1. PartyInv => SubscriberCatchesUp
  BY DEF PartyInv
<1> QED BY <1>1, PInitInv, PNextInv, PTL DEF PSpec

-----------------------------------------------------------------------------
(* Capabilities: what a scope satisfies and what it permits *)

LEMMA HoursCovered ==
  ASSUME NEW s, NEW r, IsScope(s), IsScope(r), s.type = "TEMPORAL", r.type = "TEMPORAL",
         ~Exempt(s, r)
  PROVE  ScopeSatisfies(s, r) <=> Permitted(r) \subseteq Permitted(s)
<1> DEFINE from(x) == HourOf[x.start]
           until(x) == HourOf[x.end]
<1>1. /\ {s.start, s.end, r.start, r.end} \subseteq Padded
      /\ from(s) \in Int /\ until(s) \in Int /\ from(r) \in Int /\ until(r) \in Int
      /\ r.days # {} /\ from(r) <= until(r)
  <2>1. {s.start, s.end, r.start, r.end} \subseteq Padded
    BY DEF Exempt, NotPadded
  <2>2. \A t \in Padded : HourOf[t] \in Int
    BY CapabilitiesAssumption
  <2>3. r.days # {}
    BY DEF IsScope, SetScopes
  <2>4. ~(until(r) < from(r))
    BY DEF Exempt, PastMidnight
  <2> QED BY <2>1, <2>2, <2>3, <2>4
<1>2. /\ Permitted(r) = r.days \X (from(r) .. until(r))
      /\ Permitted(s) = s.days \X (from(s) .. until(s))
  BY DEF Permitted, SetScopes
<1>3. ScopeSatisfies(s, r) <=> r.days \subseteq s.days /\ from(s) <= from(r) /\ until(r) <= until(s)
  <2>1. \A x, y \in Padded : NotAfter(x, y) <=> HourOf[x] <= HourOf[y]
    BY CapabilitiesAssumption DEF NotAfter
  <2> QED BY <1>1, <2>1 DEF ScopeSatisfies, SetScopes
<1>4. ASSUME r.days \subseteq s.days, from(s) <= from(r), until(r) <= until(s)
      PROVE  Permitted(r) \subseteq Permitted(s)
  <2>1. from(r) .. until(r) \subseteq from(s) .. until(s)
    BY <1>1, <1>4
  <2> QED BY <1>2, <1>4, <2>1
<1>5. ASSUME Permitted(r) \subseteq Permitted(s)
      PROVE  r.days \subseteq s.days /\ from(s) <= from(r) /\ until(r) <= until(s)
  <2>1. ASSUME NEW d \in r.days PROVE d \in s.days /\ from(s) <= from(r) /\ until(r) <= until(s)
    <3>1. <<d, from(r)>> \in Permitted(r) /\ <<d, until(r)>> \in Permitted(r)
      BY <1>1, <1>2
    <3>2. <<d, from(r)>> \in Permitted(s) /\ <<d, until(r)>> \in Permitted(s)
      BY <1>5, <3>1
    <3>3. d \in s.days /\ from(r) \in from(s) .. until(s) /\ until(r) \in from(s) .. until(s)
      BY <1>2, <3>2
    <3> QED BY <1>1, <3>3
  <2> QED BY <1>1, <2>1
<1> QED BY <1>3, <1>4, <1>5

LEMMA AmountsCovered ==
  ASSUME NEW s, NEW r, IsScope(s), IsScope(r), s.type = "QUANTITY", r.type = "QUANTITY",
         ~WithoutLimit(r)
  PROVE  ScopeSatisfies(s, r) <=> Permitted(r) \subseteq Permitted(s)
<1>1. /\ r.period \in Periods /\ r.max \in Amounts /\ r.max \in Nat /\ r.period # "UNLIMITED"
      /\ \/ s.period = "UNLIMITED"
         \/ s.period \in Periods /\ s.max \in Amounts /\ s.max \in Nat
  BY CapabilitiesAssumption DEF IsScope, SetScopes, WithoutLimit
<1>2. Permitted(r) = {r.period} \X {a \in Amounts : a <= r.max}
  BY <1>1 DEF Permitted, SetScopes
<1>3. <<r.period, r.max>> \in Permitted(r)
  BY <1>1, <1>2
<1>4. CASE s.period = "UNLIMITED"
  <2>1. Permitted(s) = Periods \X Amounts
    BY <1>4 DEF Permitted, SetScopes
  <2>2. ScopeSatisfies(s, r)
    BY <1>4 DEF ScopeSatisfies
  <2> QED BY <1>1, <1>2, <2>1, <2>2
<1>5. CASE s.period # "UNLIMITED"
  <2>1. Permitted(s) = {s.period} \X {a \in Amounts : a <= s.max}
    BY <1>5 DEF Permitted, SetScopes
  <2>2. ScopeSatisfies(s, r) <=> s.period = r.period /\ s.max >= r.max
    BY <1>1, <1>5 DEF ScopeSatisfies, SetScopes
  <2>3. ASSUME s.period = r.period, s.max >= r.max PROVE Permitted(r) \subseteq Permitted(s)
    <3>1. \A a \in Amounts : a <= r.max => a <= s.max
      BY <1>1, <1>5, <2>3, CapabilitiesAssumption
    <3> QED BY <1>2, <2>1, <2>3, <3>1
  <2>4. ASSUME Permitted(r) \subseteq Permitted(s) PROVE s.period = r.period /\ s.max >= r.max
    <3>1. <<r.period, r.max>> \in {s.period} \X {a \in Amounts : a <= s.max}
      BY <1>3, <2>1, <2>4
    <3>2. r.period = s.period /\ r.max <= s.max
      BY <3>1
    <3> QED BY <1>1, <1>5, <3>2
  <2> QED BY <2>2, <2>3, <2>4
<1> QED BY <1>4, <1>5

LEMMA ScopesCover ==
  ASSUME NEW s, NEW r, IsScope(s), IsScope(r)
  PROVE  s.type = r.type /\ ScopeSatisfies(s, r) <=> Covers(s, r)
<1> SUFFICES ASSUME s.type = r.type, ~Exempt(s, r)
             PROVE  ScopeSatisfies(s, r) <=> Permitted(r) \subseteq Permitted(s)
  BY DEF Covers
<1>1. ~WithoutLimit(r)
  BY DEF Exempt
<1>2. CASE r.type \in SetScopes
  BY <1>2 DEF ScopeSatisfies, Permitted, SetScopes
<1>3. CASE r.type = "TEMPORAL"
  BY <1>1, <1>3, HoursCovered
<1>4. CASE r.type = "QUANTITY"
  BY <1>1, <1>4, AmountsCovered
<1>5. CASE r.type = "SKILL_LEVEL"
  <2>1. s.rank \in Int /\ r.rank \in Int /\ r.rank > 0
    BY <1>5 DEF IsScope, SetScopes
  <2>2. Permitted(r) = 1 .. r.rank /\ Permitted(s) = 1 .. s.rank
    BY <1>5 DEF Permitted, SetScopes
  <2>3. ScopeSatisfies(s, r) <=> s.rank >= r.rank
    BY <1>5 DEF ScopeSatisfies, SetScopes
  <2>4. r.rank \in 1 .. r.rank
    BY <2>1
  <2> QED BY <2>1, <2>2, <2>3, <2>4
<1> QED BY <1>2, <1>3, <1>4, <1>5 DEF IsScope

-----------------------------------------------------------------------------
(* Capabilities belong to parties that are there *)

CapabilityInv ==
  \A i \in DOMAIN capabilities :
    /\ capabilities[i].party \in DOMAIN parties
    /\ \A scope \in capabilities[i].scopes : IsScope(scope)

\* No command removes a party.
LEMMA PartiesStay ==
  ASSUME PNext
  PROVE  DOMAIN parties \subseteq DOMAIN parties'
<1>1. ASSUME NEW p, NEW c, Register(p, c) PROVE DOMAIN parties \subseteq DOMAIN parties'
  <2>1. PICK value : parties' = Extended(parties, p, value)
    BY <1>1 DEF Register
  <2> QED BY <2>1 DEF Extended
<1>2. ASSUME NEW p, NEW party, SaveParty(p, party) PROVE DOMAIN parties \subseteq DOMAIN parties'
  BY <1>2 DEF SaveParty
<1>3. ASSUME NEW p, NEW list, SaveAddresses(p, list) PROVE DOMAIN parties \subseteq DOMAIN parties'
  BY <1>3 DEF SaveAddresses
<1>4. ASSUME NEW r, AssignRelationship(r) PROVE DOMAIN parties \subseteq DOMAIN parties'
  BY <1>4 DEF AssignRelationship
<1>5. ASSUME NEW id, RemoveRelationship(id) PROVE DOMAIN parties \subseteq DOMAIN parties'
  BY <1>5 DEF RemoveRelationship
<1>6. ASSUME NEW p, NEW f, NEW v, Change(p, f, v) PROVE DOMAIN parties \subseteq DOMAIN parties'
  BY <1>2, <1>6 DEF Change
<1>7. ASSUME NEW p, NEW a, NEW v, NEW named, SetAddress(p, a, v, named)
      PROVE  DOMAIN parties \subseteq DOMAIN parties'
  BY <1>3, <1>7 DEF SetAddress
<1>8. ASSUME NEW p, NEW i, AddRegisteredIdentifier(p, i) \/ RemoveRegisteredIdentifier(p, i)
      PROVE  DOMAIN parties \subseteq DOMAIN parties'
  BY <1>2, <1>6, <1>8 DEF AddRegisteredIdentifier, RemoveRegisteredIdentifier
<1>9. ASSUME NEW p, NEW a, NEW address, AddOrUpdateGeoAddress(p, a, address) \/ RemoveAddress(p, a)
      PROVE  DOMAIN parties \subseteq DOMAIN parties'
  BY <1>3, <1>7, <1>9 DEF AddOrUpdateGeoAddress, RemoveAddress
<1> QED BY <1>1, <1>4, <1>5, <1>6, <1>8, <1>9
        DEF PNext, AddRole, RemoveRole, UpdatePersonalData, UpdateOrganizationName

LEMMA CapabilityInvariant == ASpec => []CapabilityInv
<1>1. PInit /\ AInit => CapabilityInv
  BY DEF AInit, CapabilityInv
<1>2. CapabilityInv /\ [(PNext /\ UNCHANGED avars) \/ ANext]_<<pvars, avars>> => CapabilityInv'
  <2> SUFFICES ASSUME CapabilityInv, [(PNext /\ UNCHANGED avars) \/ ANext]_<<pvars, avars>>
               PROVE  CapabilityInv'
    OBVIOUS
  <2>1. CASE PNext /\ UNCHANGED avars
    <3>1. DOMAIN parties \subseteq DOMAIN parties' /\ capabilities' = capabilities
      BY <2>1, PartiesStay DEF avars
    <3> QED BY <3>1 DEF CapabilityInv
  <2>2. ASSUME NEW i, NEW p, NEW ability \in Abilities, AddCapability(i, p, ability)
        PROVE  CapabilityInv'
    <3> DEFINE new == [party |-> p, type |-> ability.type, scopes |-> ability.scopes,
                       validity |-> ability.validity]
    <3>1. /\ p \in DOMAIN parties /\ parties' = parties
          /\ capabilities' = Extended(capabilities, i, new)
      BY <2>2 DEF AddCapability, pvars
    <3>2. new.party = p /\ \A scope \in new.scopes : IsScope(scope)
      BY CapabilitiesAssumption
    <3> HIDE DEF new
    <3> QED BY <3>1, <3>2 DEF CapabilityInv, Extended
  <2>3. ASSUME NEW i, RemoveCapability(i) PROVE CapabilityInv'
    BY <2>3 DEF RemoveCapability, CapabilityInv, pvars
  <2>4. CASE TimePasses
    BY <2>4 DEF TimePasses, CapabilityInv, pvars
  <2>5. CASE UNCHANGED <<pvars, avars>>
    BY <2>5 DEF CapabilityInv, pvars, avars
  <2> QED BY <2>1, <2>2, <2>3, <2>4, <2>5 DEF ANext
<1> QED BY <1>1, <1>2, PTL DEF ASpec

\* A party is let play a role exactly when, for each thing it requires, one capability of
\* its own, valid now, permits all of it; hours are texts, and what they permit is said
\* of those written with two digits (operating-scope.ts, role-requirements.ts).
THEOREM RolesArePlayedByTheAble == ASpec => []RolesAreCovered
<1>1. CapabilityInv => RolesAreCovered
  <2> SUFFICES ASSUME CapabilityInv, NEW p \in PartyIds, NEW role \in DOMAIN RequirementsOf
               PROVE  LET held == FindByPartyId(p)
                          lacking == {r \in RequirementsOf[role] : \A c \in held : ~CanDo(c, r)}
                      IN  /\ FindMissing(role, held) = lacking
                          /\ PlayableBy(role, held) <=> lacking = {}
                          /\ held # {} => p \in DOMAIN parties
    BY DEF RolesAreCovered
  <2> DEFINE held == FindByPartyId(p)
  <2>1. \A c \in held : /\ c.party = p /\ p \in DOMAIN parties
                        /\ \A scope \in c.scopes : IsScope(scope)
    BY DEF FindByPartyId, CapabilityInv
  <2> HIDE DEF held
  <2>2. ASSUME NEW c \in held, NEW r \in RequirementsOf[role]
        PROVE  SatisfiesAt(c, r, now) <=> CanDo(c, r)
    <3>1. \A s \in c.scopes, t \in r.scopes :
            s.type = t.type /\ ScopeSatisfies(s, t) <=> Covers(s, t)
      BY <2>1, ScopesCover, CapabilitiesAssumption
    <3>2. HeldAt(c.validity, now) <=> c.validity.from <= now /\ now < c.validity.to
      BY DEF HeldAt
    <3> QED BY <3>1, <3>2 DEF SatisfiesAt, CanDo
  <2>3. FindMissing(role, held) = {r \in RequirementsOf[role] : \A c \in held : ~CanDo(c, r)}
    BY <2>2 DEF FindMissing
  <2>4. PlayableBy(role, held) <=>
          {r \in RequirementsOf[role] : \A c \in held : ~CanDo(c, r)} = {}
    BY <2>2 DEF PlayableBy
  <2> QED BY <2>1, <2>3, <2>4 DEF held
<1> QED BY <1>1, CapabilityInvariant, PTL

-----------------------------------------------------------------------------
(* The catalog: types of what it keeps *)

ProductTypes == {BuildProductType(c) : c \in TypeCommands}
Days == Dates \union {NoDate}
Entry == [product : ProductTypes, categories : SUBSET Categories, from : Days, to : Days,
          metadata : SUBSET {"promo"}]
FeatureValues == UNION {[N -> Values] : N \in UNION {SUBSET DOMAIN t.features : t \in ProductTypes}}

\* What an instance has was looked at when it was built, under the type it names or
\* another version of it.
Whole(i) ==
  /\ \A n \in DOMAIN i.type.features : i.type.features[n].mandatory => n \in DOMAIN i.values
  /\ \A n \in DOMAIN i.values : IsValid(i.source.features[n], i.values[n])
Instance == {i \in [type : ProductTypes, source : ProductTypes, values : FeatureValues] : Whole(i)}
Line == [instance : DOMAIN instances, quantity : 1..MaxQuantity]

CatalogInv ==
  /\ types \in [ProductIds -> ProductTypes \union {NoType}]
  /\ entries \in Seq(Entry)
  /\ offered \in Seq([from : Days, to : Days])
  /\ Len(offered) = Len(entries)
  /\ \A e \in DOMAIN entries : entries[e].from = offered[e].from /\ entries[e].to = offered[e].to
  /\ instances \in Seq(Instance)
  /\ \A b \in packages : /\ b.selection \in Seq(Line)
                         /\ Violated(b.structure, Products(b.selection)) = {}

LEMMA HeldTypesAreBuilt ==
  ASSUME CatalogInv, NEW t \in TypeObjects PROVE t \in ProductTypes
<1>1. \A p \in ProductIds : IsDefined(p) => types[p] \in ProductTypes
  BY DEF CatalogInv, IsDefined
<1>2. \A e \in DOMAIN entries : entries[e].product \in ProductTypes
  <2>1. \A x \in Entry : x.product \in ProductTypes
    BY DEF Entry
  <2>2. entries \in Seq(Entry)
    BY DEF CatalogInv
  <2>3. \A e \in DOMAIN entries : entries[e] \in Entry
    BY <2>2
  <2> QED BY <2>1, <2>3
<1> QED BY <1>1, <1>2 DEF TypeObjects

\* An entry that is added or given another end is given the same dates as in the history.
LEMMA OffersKeepInv ==
  ASSUME CatalogInv,
         \/ \E p \in ProductIds, cs \in SUBSET Categories, from, to \in Days :
              AddToOffer(p, cs, from, to)
         \/ \E e \in DOMAIN entries : \/ \E date \in Dates : Discontinue(e, date)
                                      \/ \E m \in SUBSET {"promo"} : UpdateMetadata(e, m)
  PROVE  /\ entries' \in Seq(Entry) /\ offered' \in Seq([from : Days, to : Days])
         /\ Len(offered') = Len(entries')
         /\ \A e \in DOMAIN entries' :
              entries'[e].from = offered'[e].from /\ entries'[e].to = offered'[e].to
<1> DEFINE Dated == [from : Days, to : Days]
<1>1. /\ entries \in Seq(Entry) /\ offered \in Seq(Dated) /\ Len(offered) = Len(entries)
      /\ Len(entries) \in Nat /\ DOMAIN entries = 1..Len(entries) /\ DOMAIN offered = 1..Len(entries)
      /\ \A e \in 1..Len(entries) :
           /\ entries[e] \in Entry /\ offered[e] \in Dated
           /\ entries[e].from = offered[e].from /\ entries[e].to = offered[e].to
  <2>1. /\ entries \in Seq(Entry) /\ offered \in Seq(Dated) /\ Len(offered) = Len(entries)
        /\ \A e \in DOMAIN entries : entries[e].from = offered[e].from /\ entries[e].to = offered[e].to
    BY DEF CatalogInv
  <2> HIDE DEF Dated
  <2>2. /\ Len(entries) \in Nat /\ DOMAIN entries = 1..Len(entries) /\ DOMAIN offered = 1..Len(entries)
        /\ \A e \in 1..Len(entries) : entries[e] \in Entry /\ offered[e] \in Dated
    BY <2>1
  <2> QED BY <2>1, <2>2
<1>2. ASSUME NEW p \in ProductIds, NEW cs \in SUBSET Categories, NEW from \in Days, NEW to \in Days,
             AddToOffer(p, cs, from, to)
      PROVE  /\ entries' \in Seq(Entry) /\ offered' \in Seq(Dated) /\ Len(offered') = Len(entries')
             /\ \A e \in DOMAIN entries' :
                  entries'[e].from = offered'[e].from /\ entries'[e].to = offered'[e].to
  <2> DEFINE new == [product |-> types[p], categories |-> cs, from |-> from, to |-> to, metadata |-> {}]
             dates == [from |-> from, to |-> to]
  <2>1. entries' = Append(entries, new) /\ offered' = Append(offered, dates)
    BY <1>2 DEF AddToOffer
  <2>2. types[p] \in ProductTypes
    BY <1>2 DEF AddToOffer, IsDefined, CatalogInv
  <2>3. new \in Entry /\ dates \in Dated /\ new.from = dates.from /\ new.to = dates.to
    BY <2>2 DEF Entry
  <2> HIDE DEF new, dates, Dated
  <2>4. /\ entries' \in Seq(Entry) /\ Len(entries') = Len(entries) + 1
        /\ \A e \in 1..Len(entries) : entries'[e] = entries[e]
        /\ entries'[Len(entries) + 1] = new
    BY <1>1, <2>1, <2>3, AppendProperties
  <2>5. /\ offered' \in Seq(Dated) /\ Len(offered') = Len(offered) + 1
        /\ \A e \in 1..Len(entries) : offered'[e] = offered[e]
        /\ offered'[Len(entries) + 1] = dates
    BY <1>1, <2>1, <2>3, AppendProperties
  <2>6. DOMAIN entries' = 1..(Len(entries) + 1)
    BY <2>4
  <2>7. \A e \in 1..(Len(entries) + 1) : e \in 1..Len(entries) \/ e = Len(entries) + 1
    BY <1>1
  <2> QED BY <1>1, <2>3, <2>4, <2>5, <2>6, <2>7
<1>3. ASSUME NEW e \in DOMAIN entries, NEW date \in Dates, Discontinue(e, date)
      PROVE  /\ entries' \in Seq(Entry) /\ offered' \in Seq(Dated) /\ Len(offered') = Len(entries')
             /\ \A k \in DOMAIN entries' :
                  entries'[k].from = offered'[k].from /\ entries'[k].to = offered'[k].to
  <2> DEFINE new == [entries[e] EXCEPT !.to = date]
             dates == [offered[e] EXCEPT !.to = date]
  <2>1. entries' = [entries EXCEPT ![e] = new] /\ offered' = [offered EXCEPT ![e] = dates]
    BY <1>3 DEF Discontinue
  <2>2. new \in Entry /\ dates \in Dated /\ new.from = dates.from /\ new.to = dates.to
    BY <1>1, <1>3 DEF Entry, Days
  <2> HIDE DEF new, dates, Dated
  <2>3. /\ entries' \in Seq(Entry) /\ Len(entries') = Len(entries)
        /\ \A k \in 1..Len(entries) : entries'[k] = IF k = e THEN new ELSE entries[k]
    BY <1>1, <1>3, <2>1, <2>2, ExceptSeq
  <2>4. /\ offered' \in Seq(Dated) /\ Len(offered') = Len(offered)
        /\ \A k \in 1..Len(entries) : offered'[k] = IF k = e THEN dates ELSE offered[k]
    BY <1>1, <1>3, <2>1, <2>2, ExceptSeq
  <2>5. DOMAIN entries' = 1..Len(entries)
    BY <2>3
  <2> QED BY <1>1, <2>2, <2>3, <2>4, <2>5
<1>4. ASSUME NEW e \in DOMAIN entries, NEW m \in SUBSET {"promo"}, UpdateMetadata(e, m)
      PROVE  /\ entries' \in Seq(Entry) /\ offered' \in Seq(Dated) /\ Len(offered') = Len(entries')
             /\ \A k \in DOMAIN entries' :
                  entries'[k].from = offered'[k].from /\ entries'[k].to = offered'[k].to
  <2> DEFINE new == [entries[e] EXCEPT !.metadata = m]
  <2>1. entries' = [entries EXCEPT ![e] = new] /\ offered' = offered
    BY <1>4 DEF UpdateMetadata
  <2>2. new \in Entry /\ new.from = entries[e].from /\ new.to = entries[e].to
    BY <1>1, <1>4 DEF Entry
  <2> HIDE DEF new, Dated
  <2>3. /\ entries' \in Seq(Entry) /\ Len(entries') = Len(entries)
        /\ \A k \in 1..Len(entries) : entries'[k] = IF k = e THEN new ELSE entries[k]
    BY <1>1, <1>4, <2>1, <2>2, ExceptSeq
  <2>4. DOMAIN entries' = 1..Len(entries)
    BY <2>3
  <2> QED BY <1>1, <2>1, <2>2, <2>3, <2>4
<1> QED BY <1>2, <1>3, <1>4 DEF Days

-----------------------------------------------------------------------------
(* Counting a selection product by product *)

Quantities(held) == [k \in DOMAIN held |-> held[k].quantity]
Selected(held) == IsFiniteSet(DOMAIN held) /\ \A k \in DOMAIN held : held[k].quantity \in Int
Quantity(held, S) == MapThenSumSet(LAMBDA k : held[k].quantity, S)

LEMMA QuantityIsTotal ==
  ASSUME NEW held, Selected(held), NEW S, S \subseteq DOMAIN held
  PROVE  /\ IsFiniteSet(S) /\ Measures(Quantities(held), S)
         /\ Quantity(held, S) = Total(Quantities(held), S)
<1> DEFINE q == Quantities(held)
           adds(sum) == sum = [s \in SUBSET S |->
             IF s = {} THEN 0
             ELSE held[CHOOSE x \in s : TRUE].quantity + sum[s \ {CHOOSE x \in s : TRUE}]]
           total == CHOOSE sum : adds(sum)
<1>1. IsFiniteSet(S) /\ Measures(q, S)
  BY FS_Subset DEF Measures, Quantities, Selected
<1>2. Quantity(held, S) = total[S]
  BY DEF Quantity, MapThenSumSet, MapThenFoldSet
<1>3. \A s \in SUBSET S : s # {} =>
        q[CHOOSE x \in s : TRUE] = held[CHOOSE x \in s : TRUE].quantity
  BY DEF Quantities
<1> HIDE DEF q
<1>4. PICK sum : AddsUp(sum, q, S)
  BY <1>1, TotalAddsUp
<1>5. adds(sum)
  BY <1>3, <1>4 DEF AddsUp
<1> HIDE DEF adds
<1>6. adds(total)
  BY <1>5
<1> HIDE DEF total
<1>7. AddsUp(total, q, S)
  BY <1>3, <1>6 DEF adds, AddsUp
<1>8. total[S] = Total(q, S)
  BY <1>1, <1>7, SumIsTotal
<1> QED BY <1>1, <1>2, <1>8 DEF q

\* A finite set as a sequence has each element once.
LEMMA SetToSeqLists ==
  ASSUME NEW S, IsFiniteSet(S)
  PROVE  /\ DOMAIN SetToSeq(S) = 1..Cardinality(S) /\ IsFiniteSet(DOMAIN SetToSeq(S))
         /\ IsInjective(SetToSeq(S))
         /\ S = {SetToSeq(S)[n] : n \in DOMAIN SetToSeq(S)}
<1> DEFINE c == Cardinality(S)
           places == 1..c
           f == SetToSeq(S)
<1>1. c \in Nat /\ ExistsBijection(places, S)
  BY FS_CardinalityType
<1>2. PICK g : g \in Bijection(places, S)
  BY <1>1 DEF ExistsBijection
<1>3. g \in [places -> S] /\ IsInjective(g)
  <2> HIDE DEF places
  <2> QED BY <1>2 DEF Bijection, Injection, IsInjective
<1>4. f \in [places -> S] /\ IsInjective(f)
  <2> HIDE DEF places
  <2> QED BY <1>3 DEF SetToSeq, places, c
<1>5. IsFiniteSet(places) /\ Cardinality(places) = c
  <2>1. 1 \in Int /\ c \in Int
    BY <1>1
  <2>2. IsFiniteSet(places) /\ Cardinality(places) = IF 1 > c THEN 0 ELSE c - 1 + 1
    BY <2>1, FS_Interval
  <2> QED BY <1>1, <2>2
<1> HIDE DEF places, f
<1>6. f \in Injection(places, S)
  BY <1>4 DEF Injection, IsInjective
<1>7. f \in Surjection(places, S)
  BY <1>5, <1>6, FS_Injection DEF c
<1> HIDE DEF c
<1>8. S = {f[n] : n \in places}
  BY <1>7 DEF Surjection
<1>9. DOMAIN f = places
  BY <1>4
<1> QED BY <1>4, <1>5, <1>8, <1>9 DEF f, places, c

LEMMA TotalOfZeros ==
  ASSUME NEW q, NEW S, S \subseteq DOMAIN q, \A i \in S : q[i] = 0
  PROVE  Total(q, S) = 0
<1>1. \A i \in S : Gains(q)[i] = 0 /\ Losses(q)[i] = 0
  BY DEF Gains, Losses
<1>2. Units(Gains(q), S) = {} /\ Units(Losses(q), S) = {}
  BY <1>1 DEF Units
<1> QED BY <1>2, FS_EmptySet DEF Total

\* A selection holds as many of a set of products however it is split into lines.
LEMMA SplitsCountAlike ==
  ASSUME NEW held, Selected(held), NEW set
  PROVE  Count(set, PerProduct(held)) = Count(set, held)
<1> DEFINE N == DOMAIN held
           P == {held[k].product : k \in N}
           ids == SetToSeq(P)
           I == DOMAIN ids
           per == PerProduct(held)
           Of(n) == {k \in N : held[k].product = ids[n]}
           D == {n \in I : ids[n] \in set}
           q == Quantities(held)
           after == Quantities(per)
           before == [n \in I |-> 0]
           g == [k \in N |-> CHOOSE n \in I : ids[n] = held[k].product]
<1>1. IsFiniteSet(N) /\ Measures(q, N)
  BY QuantityIsTotal DEF Selected
<1>2. IsFiniteSet(P)
  <2> DEFINE f == [k \in N |-> held[k].product]
  <2>1. P = Renamed(f, N)
    BY DEF Renamed
  <2> HIDE DEF f, P, N
  <2> QED BY <1>1, <2>1, RenamedIsFinite
<1>3. IsFiniteSet(I) /\ IsInjective(ids) /\ P = {ids[n] : n \in I}
  <2> HIDE DEF P
  <2> QED BY <1>2, SetToSeqLists
<1>4. /\ DOMAIN per = I
      /\ \A n \in I : per[n].product = ids[n] /\ per[n].quantity = Quantity(held, Of(n))
  BY DEF PerProduct, Quantity
<1>5. \A n \in I : Of(n) \subseteq N /\ Quantity(held, Of(n)) = Total(q, Of(n))
  <2> SUFFICES ASSUME NEW n \in I PROVE Of(n) \subseteq N /\ Quantity(held, Of(n)) = Total(q, Of(n))
    OBVIOUS
  <2>1. Of(n) \subseteq DOMAIN held
    OBVIOUS
  <2> HIDE DEF Of, I, q
  <2> QED BY <2>1, QuantityIsTotal DEF q
<1>6. \A n \in I : Total(q, Of(n)) \in Int
  <2> SUFFICES ASSUME NEW n \in I PROVE Total(q, Of(n)) \in Int
    OBVIOUS
  <2>1. Of(n) \subseteq N
    BY <1>5
  <2> HIDE DEF Of, I, q, N
  <2>2. IsFiniteSet(Of(n)) /\ Measures(q, Of(n))
    BY <1>1, <2>1, FS_Subset DEF Measures
  <2> QED BY <2>2, TotalIsInt
<1>7. Selected(per)
  <2>1. \A n \in I : per[n].quantity \in Int
    <3> HIDE DEF I, per, Of, q
    <3> QED BY <1>4, <1>5, <1>6
  <2> HIDE DEF I, per
  <2> QED BY <1>3, <1>4, <2>1 DEF Selected
<1>8. D = LinesOf(set, per) /\ D \subseteq DOMAIN per
  BY <1>4 DEF LinesOf
<1>9. Count(set, per) = Total(after, D) /\ IsFiniteSet(D) /\ Measures(after, D)
  <2>1. Count(set, per) = Quantity(per, LinesOf(set, per))
    BY DEF Count, Quantity
  <2> HIDE DEF D, per
  <2> QED BY <1>7, <1>8, <2>1, QuantityIsTotal
<1>10. Count(set, held) = Total(q, LinesOf(set, held))
  <2>1. Count(set, held) = Quantity(held, LinesOf(set, held))
    BY DEF Count, Quantity
  <2>2. LinesOf(set, held) \subseteq DOMAIN held
    BY DEF LinesOf
  <2> HIDE DEF q
  <2> QED BY <2>1, <2>2, QuantityIsTotal DEF q
<1>11. \A k \in N : g[k] \in I /\ ids[g[k]] = held[k].product
  <2> SUFFICES ASSUME NEW k \in N PROVE g[k] \in I /\ ids[g[k]] = held[k].product
    OBVIOUS
  <2>1. \E n \in I : ids[n] = held[k].product
    BY <1>3
  <2> HIDE DEF I, ids, P, N
  <2> QED BY <2>1 DEF g
<1>12. \A k \in N, n \in I : g[k] = n <=> held[k].product = ids[n]
  BY <1>3, <1>11 DEF IsInjective
<1>13. Measures(before, D) /\ Total(before, D) = 0
  <2>1. D \subseteq DOMAIN before /\ \A n \in D : before[n] = 0
    OBVIOUS
  <2> HIDE DEF before, D
  <2>2. Total(before, D) = 0
    BY <2>1, TotalOfZeros
  <2> QED BY <2>1, <2>2 DEF Measures
<1>14. \A n \in D : after[n] = Total(q, Of(n))
  BY <1>4, <1>5 DEF Quantities
<1>15. \A n \in I : PartOf(g, N, {n}) = Of(n)
  BY <1>12 DEF PartOf
<1>16. PartOf(g, N, D) = LinesOf(set, held)
  BY <1>11 DEF PartOf, LinesOf
<1>17. D \subseteq I
  OBVIOUS
<1> HIDE DEF D, q, after, before, g, N, I, Of, ids, P, per
<1>18. Moves(before, after, D, q, g, N)
  <2>1. \A n \in D : before[n] = 0
    BY <1>17 DEF before
  <2> QED BY <1>6, <1>14, <1>15, <1>17, <2>1 DEF Moves
<1>19. Total(after, D) = Total(before, D) + Total(q, PartOf(g, N, D))
  BY <1>1, <1>9, <1>13, <1>18, TotalByGroup
<1>20. Total(q, LinesOf(set, held)) \in Int
  <2>1. LinesOf(set, held) \subseteq N
    BY DEF LinesOf, N
  <2>2. IsFiniteSet(LinesOf(set, held)) /\ Measures(q, LinesOf(set, held))
    BY <1>1, <2>1, FS_Subset DEF Measures
  <2> QED BY <2>2, TotalIsInt
<1> QED BY <1>9, <1>10, <1>13, <1>16, <1>19, <1>20 DEF per

\* So rules, which look at counts only, are satisfied alike.
LEMMA SplitsAreJudgedAlike ==
  ASSUME NEW held, Selected(held), NEW structure
  PROVE  Violated(structure, PerProduct(held)) = Violated(structure, held)
<1>1. Counts(PerProduct(held)) = Counts(held)
  BY SplitsCountAlike DEF Counts
<1>2. \A rule : Admits(rule, PerProduct(held)) = Admits(rule, held)
  BY <1>1 DEF Admits
<1> QED BY <1>2 DEF Violated

-----------------------------------------------------------------------------
(* The steps of the catalog *)

LEMMA CatalogStarts == CInit => CatalogInv
<1> SUFFICES ASSUME CInit PROVE CatalogInv
  OBVIOUS
<1>1. /\ entries = <<>> /\ instances = <<>> /\ packages = {} /\ offered = <<>>
      /\ types = [p \in ProductIds |-> NoType]
  BY DEF CInit
<1>2. types \in [ProductIds -> ProductTypes \union {NoType}]
  BY <1>1
<1>3. \A T : <<>> \in Seq(T)
  BY EmptySeq
<1>4. Len(<<>>) = 0 /\ DOMAIN <<>> = {}
  OBVIOUS
<1> QED BY <1>1, <1>2, <1>3, <1>4 DEF CatalogInv

LEMMA TypesKeepInv ==
  ASSUME CatalogInv, NEW c \in TypeCommands, Save(BuildProductType(c))
  PROVE  CatalogInv'
<1> DEFINE type == BuildProductType(c)
<1>1. type \in ProductTypes
  BY DEF ProductTypes
<1>2. /\ types' = [types EXCEPT ![type.id] = type]
      /\ UNCHANGED <<entries, relations, instances, packages, made, offered>>
  BY DEF Save
<1> HIDE DEF type
<1>3. types' \in [ProductIds -> ProductTypes \union {NoType}]
  BY <1>1, <1>2 DEF CatalogInv
<1> QED BY <1>2, <1>3 DEF CatalogInv, Line, Products

\* Instances that are built later do not change what is in a package.
LEMMA InstancesKeepInv ==
  ASSUME CatalogInv, NEW type \in TypeObjects, NEW source \in TypeObjects,
         NEW hasSerial, NEW hasBatch, NEW names \in SUBSET DOMAIN source.features,
         NEW values \in [names -> Values], BuildInstance(type, source, values, hasSerial, hasBatch)
  PROVE  CatalogInv'
<1> DEFINE new == [type |-> type, source |-> source, values |-> values]
<1>1. /\ \A n \in DOMAIN values : IsValid(source.features[n], values[n])
      /\ MeetsFeatures(values, type.features)
      /\ instances' = Append(instances, new)
      /\ UNCHANGED <<types, entries, relations, packages, offered>>
  BY DEF BuildInstance
<1>2. type \in ProductTypes /\ source \in ProductTypes
  BY HeldTypesAreBuilt
<1>3. values \in FeatureValues
  BY <1>2 DEF FeatureValues
<1>4. new \in Instance
  <2>1. Whole(new)
    BY <1>1 DEF Whole, MeetsFeatures
  <2> QED BY <1>2, <1>3, <2>1 DEF Instance
<1>5. instances \in Seq(Instance) /\ Len(instances) \in Nat /\ DOMAIN instances = 1..Len(instances)
  BY DEF CatalogInv
<1> HIDE DEF new
<1>6. /\ instances' \in Seq(Instance) /\ Len(instances') = Len(instances) + 1
      /\ \A i \in DOMAIN instances : instances'[i] = instances[i]
  BY <1>1, <1>4, <1>5, AppendProperties
<1>7. DOMAIN instances \subseteq DOMAIN instances'
  BY <1>5, <1>6
<1>8. ASSUME NEW b \in packages
      PROVE  b.selection \in Seq(Line') /\ Products(b.selection)' = Products(b.selection)
  <2>1. b.selection \in Seq(Line)
    BY <1>8 DEF CatalogInv
  <2>2. /\ Len(b.selection) \in Nat /\ DOMAIN b.selection = 1..Len(b.selection)
        /\ \A k \in DOMAIN b.selection : b.selection[k] \in Line
    BY <2>1
  <2>3. Line \subseteq Line'
    BY <1>7 DEF Line
  <2>4. b.selection \in Seq(Line')
    BY <2>1, <2>2, <2>3
  <2>5. \A k \in DOMAIN b.selection : b.selection[k].instance \in DOMAIN instances
    BY <2>2 DEF Line
  <2>6. \A k \in DOMAIN b.selection :
          instances'[b.selection[k].instance] = instances[b.selection[k].instance]
    BY <1>6, <2>5
  <2> QED BY <2>4, <2>6 DEF Products
<1>9. \A b \in packages' : /\ b.selection \in Seq(Line')
                           /\ Violated(b.structure, Products(b.selection)') = {}
  BY <1>1, <1>8 DEF CatalogInv
<1>10. UNCHANGED <<types, entries, offered>>
  BY <1>1
<1> QED BY <1>6, <1>9, <1>10 DEF CatalogInv

LEMMA PackagesKeepInv ==
  ASSUME CatalogInv, NEW structure, NEW strategy, NEW selection \in Selections,
         NEW hasSerial, NEW hasBatch,
         BuildPackage(structure, strategy, selection, hasSerial, hasBatch)
  PROVE  CatalogInv'
<1> DEFINE new == [structure |-> structure, selection |-> selection]
<1>1. /\ Violated(structure, Products(selection)) = {}
      /\ packages' = packages \union {new}
      /\ UNCHANGED <<types, entries, relations, instances, offered>>
  BY DEF BuildPackage
<1>2. selection \in Seq(Line)
  <2>1. PICK n \in 1..2 : selection \in [1..n -> Line]
    BY DEF Selections, Line
  <2> QED BY <2>1
<1>3. /\ new.selection \in Seq(Line)
      /\ Violated(new.structure, Products(new.selection)) = {}
  BY <1>1, <1>2
<1> HIDE DEF new
<1>4. \A b \in packages' : /\ b.selection \in Seq(Line)
                           /\ Violated(b.structure, Products(b.selection)) = {}
  BY <1>1, <1>3 DEF CatalogInv
<1>5. Line' = Line /\ \A b \in packages' : Products(b.selection)' = Products(b.selection)
  BY <1>1 DEF Line, Products
<1> QED BY <1>1, <1>4, <1>5 DEF CatalogInv

LEMMA CatalogInvariant == CSpec => []CatalogInv
<1>1. CatalogInv /\ [CNext]_cvars => CatalogInv'
  <2> SUFFICES ASSUME CatalogInv, [CNext]_cvars PROVE CatalogInv'
    OBVIOUS
  <2>1. CASE \E c \in TypeCommands : DefineProductType(c) \/ SaveProductType(c)
    BY <2>1, TypesKeepInv DEF DefineProductType, SaveProductType
  <2>2. CASE \/ \E p \in ProductIds, categories \in SUBSET Categories,
                  from, to \in Dates \union {NoDate} : AddToOffer(p, categories, from, to)
             \/ \E e \in DOMAIN entries : \/ \E date \in Dates : Discontinue(e, date)
                                          \/ \E m \in SUBSET {"promo"} : UpdateMetadata(e, m)
    <3>1. /\ entries' \in Seq(Entry) /\ offered' \in Seq([from : Days, to : Days])
          /\ Len(offered') = Len(entries')
          /\ \A e \in DOMAIN entries' :
               entries'[e].from = offered'[e].from /\ entries'[e].to = offered'[e].to
      BY <2>2, OffersKeepInv DEF Days
    <3>2. UNCHANGED <<types, instances, packages>>
      BY <2>2 DEF AddToOffer, Discontinue, UpdateMetadata
    <3> QED BY <3>1, <3>2 DEF CatalogInv, Line, Products
  <2>3. CASE \/ \E from, to \in ProductIds, type \in RelationTypes :
                  DefineProductRelationship(from, to, type)
             \/ \E id \in 0..made : RemoveProductRelationship(id)
             \/ UNCHANGED cvars
    <3>1. UNCHANGED <<types, entries, offered, instances, packages>>
      BY <2>3 DEF DefineProductRelationship, RemoveProductRelationship, cvars
    <3> QED BY <3>1 DEF CatalogInv, Line, Products
  <2>4. CASE \E type, source \in TypeObjects, hasSerial, hasBatch \in BOOLEAN :
               \E names \in SUBSET DOMAIN source.features : \E values \in [names -> Values] :
                 BuildInstance(type, source, values, hasSerial, hasBatch)
    BY <2>4, InstancesKeepInv
  <2>5. CASE \E structure \in Structures, strategy \in Strategies, selection \in Selections,
                hasSerial, hasBatch \in BOOLEAN :
               BuildPackage(structure, strategy, selection, hasSerial, hasBatch)
    BY <2>5, PackagesKeepInv
  <2> QED BY <2>1, <2>2, <2>3, <2>4, <2>5 DEF CNext
<1> QED BY <1>1, CatalogStarts, PTL DEF CSpec

\* An entry is on offer between the dates it was last given, and searches agree on it
\* (CatalogEntry.withValidity, ProductCatalog.findBySearch).
THEOREM OffersKeepTheirWindow == CSpec => []OfferWindow
<1>1. CatalogInv => OfferWindow
  <2> SUFFICES ASSUME CatalogInv, NEW date \in Dates
               PROVE  /\ FindByAvailableAt(date) =
                           { e \in DOMAIN entries :
                               /\ offered[e].from = NoDate \/ date >= offered[e].from
                               /\ offered[e].to = NoDate \/ date <= offered[e].to }
                      /\ \A category \in Categories :
                           FindBySearch({category}, date, "", {}) =
                             FindByAvailableAt(date) \intersect FindByCategory(category)
    BY DEF OfferWindow
  <2>1. date \in Nat /\ date # NoDate /\ Days \subseteq Nat
    BY CatalogAssumption DEF Days, NoDate
  <2>2. \A e \in DOMAIN entries : /\ entries[e].from \in Nat
                                  /\ entries[e].from = offered[e].from /\ entries[e].to = offered[e].to
    <3>1. \A x \in Entry : x.from \in Nat
      BY <2>1 DEF Entry
    <3>2. \A e \in DOMAIN entries : entries[e] \in Entry
      BY DEF CatalogInv
    <3> QED BY <3>1, <3>2 DEF CatalogInv
  <2>3. \A e \in DOMAIN entries :
          IsValidAt(entries[e], date) <=> /\ offered[e].from = NoDate \/ date >= offered[e].from
                                          /\ offered[e].to = NoDate \/ date <= offered[e].to
    BY <2>1, <2>2 DEF IsValidAt
  <2>4. \A category : FindBySearch({category}, date, "", {}) =
                        FindByAvailableAt(date) \intersect FindByCategory(category)
    BY <2>1 DEF FindBySearch, FindByAvailableAt, FindByCategory
  <2> QED BY <2>3, <2>4 DEF FindByAvailableAt
<1> QED BY <1>1, CatalogInvariant, PTL

\* A package satisfies its rules product by product, and its instances are whole
\* (PackageInstance, IsSubsetOf.isSatisfiedBy, ProductInstance).
THEOREM PackagesKeepTheirRules == CSpec => []PackagesHoldTheirRules
<1>1. CatalogInv => PackagesHoldTheirRules
  <2> SUFFICES ASSUME CatalogInv, NEW b \in packages
               PROVE  /\ Violated(b.structure, PerProduct(Products(b.selection))) = {}
                      /\ \A k \in DOMAIN b.selection :
                           LET i == instances[b.selection[k].instance]
                           IN /\ \A n \in DOMAIN i.type.features :
                                   i.type.features[n].mandatory => n \in DOMAIN i.values
                              /\ i.source = i.type =>
                                   \A n \in DOMAIN i.values : IsValid(i.type.features[n], i.values[n])
    BY DEF PackagesHoldTheirRules
  <2>1. /\ b.selection \in Seq(Line) /\ Violated(b.structure, Products(b.selection)) = {}
        /\ instances \in Seq(Instance)
    BY DEF CatalogInv
  <2>2. /\ Len(b.selection) \in Nat /\ DOMAIN b.selection = 1..Len(b.selection)
        /\ \A k \in DOMAIN b.selection : b.selection[k] \in Line
    BY <2>1
  <2>3. IsFiniteSet(DOMAIN b.selection)
    BY <2>2, FS_Interval
  <2>4. \A line \in Line : line.instance \in DOMAIN instances /\ line.quantity \in Int
    BY CatalogAssumption DEF Line
  <2>5. Selected(Products(b.selection))
    BY <2>2, <2>3, <2>4 DEF Selected, Products
  <2>6. Violated(b.structure, PerProduct(Products(b.selection))) = {}
    BY <2>1, <2>5, SplitsAreJudgedAlike
  <2>7. \A k \in DOMAIN b.selection : instances[b.selection[k].instance] \in Instance
    BY <2>1, <2>2, <2>4
  <2>8. \A i \in Instance : Whole(i)
    BY DEF Instance
  <2> QED BY <2>6, <2>7, <2>8 DEF Whole
<1> QED BY <1>1, CatalogInvariant, PTL
-----------------------------------------------------------------------------
(* The calculators of the repository *)

\* What is in the repository stays there, and what composites ask for is there.
Calculating ==
  /\ IsFiniteSet(DOMAIN calculators)
  /\ calculators \in [DOMAIN calculators -> Definitions]
  /\ \A n \in DOMAIN calculators : calculators[n].kind = "RANGES" =>
       LET ranges == calculators[n].ranges IN
       /\ \A i \in DOMAIN ranges : ranges[i].calculator \in DOMAIN calculators
       /\ \A i, j \in DOMAIN ranges : i < j => ~RangeOverlaps(ranges[i], ranges[j])

LEMMA CalculatingStart == CalcInit => Calculating
BY FS_EmptySet DEF CalcInit, Calculating

LEMMA CalculatingStep ==
  ASSUME Calculating, [CalcNext]_calculators PROVE Calculating'
<1>1. CASE UNCHANGED calculators
  BY <1>1 DEF Calculating
<1>2. CASE CalcNext
  <2>1. PICK name \in CalculatorNames, d \in Definitions : AddCalculator(name, d)
    BY <1>2 DEF CalcNext
  <2> DEFINE names == DOMAIN calculators
             more == names \cup {name}
  <2>2. /\ DOMAIN calculators' = more
        /\ \A n \in more : calculators'[n] = IF n = name THEN d ELSE calculators[n]
    BY <2>1 DEF AddCalculator
  <2>3. IsFiniteSet(more)
    BY FS_AddElement DEF Calculating
  <2>4. calculators' \in [more -> Definitions]
    BY <2>1 DEF AddCalculator, Calculating
  <2>5. ASSUME NEW n \in more, calculators'[n].kind = "RANGES"
        PROVE  LET ranges == calculators'[n].ranges IN
               /\ \A i \in DOMAIN ranges : ranges[i].calculator \in more
               /\ \A i, j \in DOMAIN ranges : i < j => ~RangeOverlaps(ranges[i], ranges[j])
    <3>1. CASE n = name
      BY <2>1, <2>2, <2>5, <3>1 DEF AddCalculator, AcceptsRanges
    <3>2. CASE n # name
      BY <2>2, <2>5, <3>2 DEF Calculating
    <3> QED BY <3>1, <3>2
  <2> HIDE DEF more
  <2> QED BY <2>2, <2>3, <2>4, <2>5 DEF Calculating
<1> QED BY <1>1, <1>2

\* Ranges that have a value in common overlap, in whatever way they cross midnight.
LEMMA CommonValueOverlaps ==
  ASSUME NEW r, NEW o, {r.from, r.to, o.from, o.to} \subseteq Int, NEW x \in Int,
         InRange(r, x), InRange(o, x)
  PROVE  RangeOverlaps(r, o)
BY DEF InRange, RangeOverlaps, Normal

LEMMA RangesAreSeparate ==
  ASSUME Calculating PROVE OneRangePerValue
<1> SUFFICES ASSUME NEW n \in DOMAIN calculators, calculators[n].kind = "RANGES",
                    NEW x \in RangeValues,
                    NEW i \in DOMAIN calculators[n].ranges,
                    NEW j \in DOMAIN calculators[n].ranges,
                    InRange(calculators[n].ranges[i], x), InRange(calculators[n].ranges[j], x)
             PROVE  i = j
  BY DEF OneRangePerValue
<1> DEFINE ranges == calculators[n].ranges
           Ranges == [from : Int, to : Int, calculator : CalculatorNames]
<1>1. ranges \in Seq(Ranges) /\ x \in Int
  BY CalculatorsAssumption DEF Calculating
<1> HIDE DEF ranges
<1>2. i \in DOMAIN ranges /\ j \in DOMAIN ranges /\ ranges[i] \in Ranges /\ ranges[j] \in Ranges
  <2>1. i \in DOMAIN ranges /\ j \in DOMAIN ranges
    BY DEF ranges
  <2> HIDE DEF Ranges
  <2> QED BY <1>1, <2>1
<1>3. RangeOverlaps(ranges[i], ranges[j]) /\ RangeOverlaps(ranges[j], ranges[i])
  <2>1. InRange(ranges[i], x) /\ InRange(ranges[j], x)
    BY DEF ranges
  <2>2. {ranges[i].from, ranges[i].to, ranges[j].from, ranges[j].to} \subseteq Int
    BY <1>2
  <2> QED BY <1>1, <2>1, <2>2, CommonValueOverlaps
<1>4. ~(i < j) /\ ~(j < i)
  BY <1>2, <1>3 DEF Calculating, ranges
<1>5. i \in Int /\ j \in Int
  BY <1>1, <1>2
<1> QED BY <1>4, <1>5

\* Following names ends at a calculator of the repository.
LEMMA ChosenIsDefined ==
  ASSUME Calculating, NEW n \in DOMAIN calculators, NEW p
  PROVE  Chosen(calculators[n], p) \in Definitions
<1> DEFINE N == Cardinality(DOMAIN calculators)
           C == {calculators[m] : m \in DOMAIN calculators}
           c == calculators[n]
           With(d) == IF d.kind = "RANGES" THEN NextFor(d, p) ELSE d
           follows(f) == f = [k \in 0..N |-> IF k = 0 THEN c ELSE With(f[k - 1])]
           after == CHOOSE f : follows(f)
           g == [kv \in (1..N) \X C |-> With(kv[2])]
<1>1. Chosen(c, p) = after[N]
  BY DEF Chosen, Followed
<1>2. N \in Nat /\ c \in C /\ C \subseteq Definitions
  BY FS_CardinalityType DEF Calculating
<1>3. ASSUME NEW d \in C PROVE With(d) \in C
  <2>1. CASE d.kind = "RANGES" /\ Matching(d, p) # {}
    <3>1. PICK m \in DOMAIN calculators : d = calculators[m]
      OBVIOUS
    <3>2. d.ranges \in Seq([from : Int, to : Int, calculator : CalculatorNames])
      BY <2>1, <1>2, CalculatorsAssumption
    <3>3. Matching(d, p) \subseteq DOMAIN d.ranges /\ DOMAIN d.ranges = 1..Len(d.ranges)
          /\ Len(d.ranges) \in Nat
      BY <3>2 DEF Matching
    <3>4. Matching(d, p) \subseteq 0..Len(d.ranges)
      BY <3>3
    <3>5. Min(Matching(d, p)) \in DOMAIN d.ranges
      BY <2>1, <3>3, <3>4, LeastExists
    <3>6. d.ranges[Min(Matching(d, p))].calculator \in DOMAIN calculators
      BY <2>1, <3>1, <3>5 DEF Calculating
    <3> QED BY <2>1, <3>6 DEF NextFor
  <2>2. CASE ~(d.kind = "RANGES" /\ Matching(d, p) # {})
    BY <2>2 DEF NextFor
  <2> QED BY <2>1, <2>2
<1> HIDE DEF C, N, c, With
<1>4. g \in [(1..N) \X C -> C]
  BY <1>3
<1> HIDE DEF g
<1>5. PICK step \in [SUBSET (1..N) -> C] : Folds(step, c, g, N)
  BY <1>2, <1>4, FoldExists
<1>6. Steps(step, c, g, N, C)
  BY <1>5, <1>2 DEF Folds, Steps
<1>7. InTurn(step, c, g, N, C)
  BY <1>2, <1>4, <1>6, FoldsInTurn
<1> DEFINE f == [k \in 0..N |-> step[1..k]]
<1>8. follows(f)
  <2>1. ASSUME NEW k \in 0..N PROVE f[k] = IF k = 0 THEN c ELSE With(f[k - 1])
    <3>1. CASE k = 0
      BY <1>7, <3>1 DEF InTurn
    <3>2. CASE k # 0
      <4>1. k \in 1..N /\ k - 1 \in 0..N
        BY <1>2, <3>2
      <4>2. f[k] = g[<<k, f[k - 1]>>] /\ f[k - 1] \in C
        BY <1>7, <4>1 DEF InTurn
      <4> HIDE DEF f
      <4>3. g[<<k, f[k - 1]>>] = With(f[k - 1])
        BY <4>1, <4>2 DEF g
      <4> QED BY <3>2, <4>2, <4>3
    <3> QED BY <3>1, <3>2
  <2> QED BY <2>1
<1> HIDE DEF f, follows
<1>9. follows(after)
  BY <1>8
<1> HIDE DEF after
<1>10. \A k \in 0..N : after[k] = IF k = 0 THEN c ELSE With(after[k - 1])
  BY <1>9 DEF follows
<1> DEFINE G == {k \in 0..N : after[k] \in C}
<1>11. \A k \in 0..N : k \in G
  <2>1. 0 \in G
    BY <1>2, <1>10
  <2>2. ASSUME NEW k \in 0..N, k \in G, k < N PROVE k + 1 \in G
    <3>1. k + 1 \in 0..N /\ k + 1 # 0 /\ (k + 1) - 1 = k
      BY <1>2, <2>2
    <3>2. after[k + 1] = With(after[k])
      BY <1>10, <3>1
    <3> QED BY <1>3, <2>2, <3>1, <3>2
  <2> HIDE DEF G
  <2> QED BY <1>2, <2>1, <2>2, UpTo
<1>12. N \in 0..N
  BY <1>2
<1> QED BY <1>1, <1>2, <1>11, <1>12 DEF c

-----------------------------------------------------------------------------
(* Amounts of money *)

Prices == Int \cup {Failed}

\* Amounts of a list none of which failed are added up.
LEMMA AddedUpIsTotal ==
  ASSUME NEW q, IsFiniteSet(DOMAIN q), \A i \in DOMAIN q : q[i] \in Int
  PROVE  AddedUp(q) = Total(q, DOMAIN q) /\ AddedUp(q) \in Int
<1> DEFINE S == DOMAIN q
           adds(sum) == sum = [s \in SUBSET S |->
             IF s = {} THEN 0
             ELSE q[CHOOSE x \in s : TRUE] + sum[s \ {CHOOSE x \in s : TRUE}]]
           total == CHOOSE sum : adds(sum)
<1>1. IsFiniteSet(S) /\ Measures(q, S)
  BY DEF Measures
<1>2. AddedUp(q) = total[S]
  BY CalculatorsAssumption DEF AddedUp, MapThenSumSet, MapThenFoldSet
<1> HIDE DEF S
<1>3. PICK sum : AddsUp(sum, q, S)
  BY <1>1, TotalAddsUp
<1>4. adds(sum)
  BY <1>3 DEF AddsUp
<1> HIDE DEF adds
<1>5. adds(total)
  BY <1>4
<1> HIDE DEF total
<1>6. AddsUp(total, q, S)
  BY <1>5 DEF adds, AddsUp
<1>7. total[S] = Total(q, S) /\ Total(q, S) \in Int
  BY <1>1, <1>6, SumIsTotal, TotalIsInt
<1> QED BY <1>2, <1>7 DEF S

\* Whatever a calculator of the repository is asked for, it gives money or throws.
LEMMA CalculateGivesMoney ==
  ASSUME Calculating, NEW n \in DOMAIN calculators, NEW i \in Int
  PROVE  Calculate(calculators[n], At(i)) \in Prices
<1> DEFINE d == Chosen(calculators[n], At(i))
<1>1. d \in Definitions
  BY ChosenIsDefined
<1>2. /\ At(i).quantity = i /\ Given(At(i), "quantity")
      /\ ~Given(At(i), "baseAmount")
  BY DEF At, Given
<1> DEFINE c == calculators[n]
<1> HIDE DEF d
<1>3. CASE d.kind = "FIXED"
  BY <1>1, <1>3, CalculatorsAssumption DEF Calculate, d, Prices
<1>4. CASE d.kind = "STEP"
  <2>1. Calculate(c, At(i)) = d.amount + d.increment * StepsTo(d, i)
    BY <1>2, <1>4 DEF Calculate, d
  <2>2. d.amount \in Int /\ d.increment \in Int /\ d.size \in Nat \ {0}
    BY <1>1, <1>4, CalculatorsAssumption
  <2>3. StepsTo(d, i) \in Int
    BY <2>2 DEF StepsTo
  <2>4. d.increment * StepsTo(d, i) \in Int
    BY <2>2, <2>3
  <2> QED BY <2>1, <2>2, <2>4 DEF Prices
<1>5. CASE d.kind = "POINTS"
  <2>1. \A quantity \in DOMAIN d.points : d.points[quantity] \in Int
    BY <1>1, <1>5, CalculatorsAssumption
  <2> QED BY <1>2, <1>5, <2>1 DEF Calculate, d, Prices
<1>6. CASE d.kind = "PERCENTAGE"
  BY <1>2, <1>6 DEF Calculate, d, Prices
<1>7. CASE d.kind = "RANGES"
  BY <1>7 DEF Calculate, d, Prices
<1> QED BY <1>1, <1>3, <1>4, <1>5, <1>6, <1>7, CalculatorsAssumption

LEMMA TotalGivesMoney ==
  ASSUME Calculating, NEW n \in DOMAIN calculators, NEW i \in Nat \ {0}
  PROVE  ToTotal(calculators[n], At(i)) \in Prices
<1> DEFINE c == calculators[n]
           v == InterpretationOf(c)
           q == [k \in 1..i |-> Calculate(c, At(k))]
<1>1. /\ At(i).quantity = i /\ Given(At(i), "quantity") /\ i \in Int /\ ~(i < 1)
      /\ \A k : [quantity |-> k] = At(k)
  BY DEF At, Given
<1>2. ToTotal(c, At(i)) = IF v = "TOTAL" THEN Calculate(c, At(i))
                          ELSE IF v = "UNIT" THEN Times(Calculate(c, At(i)), i)
                          ELSE AddedUp(q)
  BY <1>1 DEF ToTotal
<1>3. \A k \in Int : Calculate(c, At(k)) \in Prices
  BY CalculateGivesMoney
<1> HIDE DEF v, c
<1>4. Times(Calculate(c, At(i)), i) \in Prices
  BY <1>1, <1>3 DEF Times, Prices
<1>5. AddedUp(q) \in Prices
  <2>1. CASE \E k \in DOMAIN q : q[k] = Failed
    BY <2>1 DEF AddedUp, Prices
  <2>2. CASE ~\E k \in DOMAIN q : q[k] = Failed
    <3>1. IsFiniteSet(1..i) /\ DOMAIN q = 1..i
      BY <1>1, FS_Interval
    <3>2. \A k \in DOMAIN q : q[k] \in Int
      BY <1>3, <2>2 DEF Prices
    <3> HIDE DEF q
    <3> QED BY <3>1, <3>2, AddedUpIsTotal DEF Prices
  <2> QED BY <2>1, <2>2
<1> QED BY <1>1, <1>2, <1>3, <1>4, <1>5 DEF c
-----------------------------------------------------------------------------
(* Prices in every interpretation *)

\* Rounding to the closest unit is off by half a unit at most.
LEMMA DividedIsClosest ==
  ASSUME NEW t \in Int, NEW q \in Nat \ {0}
  PROVE  -q <= 2 * (Divided(t, q) * q - t) /\ 2 * (Divided(t, q) * q - t) <= q
<1> DEFINE a == Divided(t, q)
           m == 2 * q
           x == 2 * t + q
<1>1. m \in Nat \ {0} /\ x \in Int /\ a = x \div m
  BY DEF Divided
<1>2. a \in Int /\ m * a <= x /\ x < m * a + m
  <2> HIDE DEF m, x, a
  <2> QED BY <1>1
<1>3. a * q \in Int /\ m * a = 2 * (a * q)
  BY <1>2
<1> HIDE DEF a
<1> DEFINE prod == a * q
<1> HIDE DEF prod
<1>5. prod \in Int /\ 2 * prod <= 2 * t + q /\ 2 * t + q < 2 * prod + 2 * q
  BY <1>2, <1>3 DEF prod
<1>6. -q <= 2 * (prod - t) /\ 2 * (prod - t) <= q
  BY <1>5
<1> QED BY <1>6 DEF prod, a

\* What the items cost one after the other is what they cost together.
LEMMA ItemsAddUp ==
  ASSUME Calculating, NEW n \in DOMAIN calculators, NEW q \in Nat \ {0},
         \A i \in 1..q : ToTotal(calculators[n], At(i)) # Failed
  PROVE  /\ ToTotal(calculators[n], At(q)) \in Int
         /\ AddedUp([i \in 1..q |-> ToMarginal(calculators[n], At(i))])
              = ToTotal(calculators[n], At(q))
<1> DEFINE c == calculators[n]
           v == InterpretationOf(c)
           total(i) == ToTotal(c, At(i))
           items == [i \in 1..q |-> ToMarginal(c, At(i))]
<1>1. \A i \in 1..q : total(i) \in Int
  <2> SUFFICES ASSUME NEW i \in 1..q PROVE total(i) \in Int
    OBVIOUS
  <2>1. total(i) \in Prices
    BY TotalGivesMoney
  <2> QED BY <2>1 DEF Prices
<1>2. \A i : /\ At(i).quantity = i /\ Given(At(i), "quantity")
              /\ [quantity |-> i] = At(i)
  BY DEF At, Given
<1>3. CASE v = "MARGINAL"
  <2>1. items = [i \in 1..q |-> Calculate(c, At(i))]
    <3>1. ASSUME NEW i \in 1..q PROVE ToMarginal(c, At(i)) = Calculate(c, At(i))
      <4> HIDE DEF v, c
      <4> QED BY <1>2, <1>3 DEF ToMarginal, v
    <3> HIDE DEF c
    <3> QED BY <3>1
  <2>2. total(q) = AddedUp([i \in 1..q |-> Calculate(c, At(i))])
    <3>1. v # "TOTAL" /\ v # "UNIT" /\ ~(q < 1)
      BY <1>3
    <3> HIDE DEF v
    <3> QED BY <1>2, <3>1 DEF ToTotal, v
  <2>3. total(q) \in Int
    BY <1>1
  <2> QED BY <2>1, <2>2, <2>3
<1>4. CASE v # "MARGINAL"
  <2>1. ASSUME NEW i \in 1..q
        PROVE  items[i] = IF i = 1 THEN total(i) ELSE total(i) - total(i - 1)
    <3>1. ~(i < 1) /\ (i # 1 => i - 1 \in 1..q)
      OBVIOUS
    <3>2. ToMarginal(c, At(i)) = IF i = 1 THEN total(i) ELSE Minus(total(i), total(i - 1))
      <4> HIDE DEF v, c
      <4> QED BY <1>2, <1>4, <3>1 DEF ToMarginal, v
    <3>3. i # 1 => Minus(total(i), total(i - 1)) = total(i) - total(i - 1)
      <4> HIDE DEF total
      <4> QED BY <1>1, <3>1, CalculatorsAssumption DEF Minus
    <3> HIDE DEF total
    <3> QED BY <3>2, <3>3
  <2>2. \A i \in 1..q : items[i] \in Int
    <3> SUFFICES ASSUME NEW i \in 1..q PROVE items[i] \in Int
      OBVIOUS
    <3>1. i # 1 => i - 1 \in 1..q
      OBVIOUS
    <3> HIDE DEF items, total
    <3> QED BY <1>1, <2>1, <3>1
  <2>3. DOMAIN items = 1..q /\ IsFiniteSet(1..q)
    BY FS_Interval
  <2> DEFINE G == {k \in 0..q : k = 0 \/ Total(items, 1..k) = total(k)}
  <2> HIDE DEF items, total
  <2>4. ASSUME NEW k \in 0..q, k \in G, k < q PROVE k + 1 \in G
    <3>1. 1..(k + 1) = (1..k) \cup {k + 1} /\ k + 1 \notin 1..k /\ k + 1 \in 1..q
          /\ k + 1 \in 0..q /\ k \in Int /\ (k + 1) - 1 = k
      BY <2>4
    <3>2. IsFiniteSet(1..k) /\ 1..(k + 1) \subseteq 1..q
      BY <3>1, FS_Interval
    <3> DEFINE more == 1..(k + 1)
               all == 1..q
    <3>3. Measures(items, 1..(k + 1))
      <4>1. more \subseteq all /\ DOMAIN items = all /\ \A i \in all : items[i] \in Int
        BY <2>2, <2>3, <3>2
      <4> HIDE DEF more, all
      <4>2. Measures(items, more)
        BY <4>1 DEF Measures
      <4> QED BY <4>2 DEF more
    <3>4. Total(items, 1..(k + 1)) = items[k + 1] + Total(items, 1..k)
      BY <3>1, <3>2, <3>3, TotalOfOneMore
    <3>5. CASE k = 0
      <4>1. 1..k = {} /\ k + 1 = 1
        BY <3>5
      <4>2. Total(items, 1..k) = 0
        BY <4>1, TotalOfNone
      <4>3. items[k + 1] = total(k + 1) /\ items[k + 1] \in Int
        BY <2>1, <2>2, <3>1, <4>1
      <4> QED BY <3>1, <3>4, <4>2, <4>3
    <3>6. CASE k # 0
      <4>1. Total(items, 1..k) = total(k) /\ k \in 1..q
        BY <2>4, <3>6
      <4>2. items[k + 1] = total(k + 1) - total(k)
        BY <2>1, <3>1, <3>6
      <4>3. total(k) \in Int /\ total(k + 1) \in Int
        BY <1>1, <3>1, <4>1
      <4>4. Total(items, 1..(k + 1)) = total(k + 1)
        BY <3>4, <4>1, <4>2, <4>3
      <4> QED BY <3>1, <4>4
    <3> QED BY <3>5, <3>6
  <2>5. 0 \in G
    OBVIOUS
  <2> HIDE DEF G
  <2>6. \A k \in 0..q : k \in G
    BY <2>4, <2>5, UpTo
  <2>7. Total(items, 1..q) = total(q)
    BY <2>6 DEF G
  <2>8. AddedUp(items) = Total(items, DOMAIN items)
    BY <2>2, <2>3, AddedUpIsTotal
  <2>9. AddedUp(items) = total(q) /\ total(q) \in Int
    BY <1>1, <2>3, <2>7, <2>8
  <2> QED BY <2>9 DEF items, total
<1> QED BY <1>3, <1>4

LEMMA AverageIsClosest ==
  ASSUME Calculating, NEW n \in DOMAIN calculators, NEW q \in Nat \ {0},
         ToTotal(calculators[n], At(q)) \in Int
  PROVE  LET excess == ToUnit(calculators[n], At(q)) * q - ToTotal(calculators[n], At(q))
         IN -q <= 2 * excess /\ 2 * excess <= q
<1> DEFINE c == calculators[n]
           v == InterpretationOf(c)
           t == ToTotal(c, At(q))
           u == ToUnit(c, At(q))
<1>1. At(q).quantity = q /\ Given(At(q), "quantity") /\ t # Failed /\ q # 0
  BY CalculatorsAssumption DEF At, Given
<1>2. CASE v = "UNIT"
  <2>1. u = Calculate(c, At(q)) /\ t = Times(Calculate(c, At(q)), q)
    <3> HIDE DEF c
    <3> QED BY <1>1, <1>2 DEF ToUnit, ToTotal
  <2>2. Calculate(c, At(q)) \in Prices
    BY CalculateGivesMoney
  <2> HIDE DEF u, t, c
  <2>3. u \in Int /\ t = u * q
    BY <1>1, <2>1, <2>2 DEF Prices, Times
  <2>4. u * q \in Int
    BY <2>3
  <2>5. u * q - t = 0
    BY <2>3, <2>4
  <2> QED BY <2>5 DEF u, t, c
<1>3. CASE v # "UNIT"
  <2>1. u = Divided(t, q)
    <3> HIDE DEF c, v
    <3> QED BY <1>1, <1>3 DEF ToUnit, v
  <2> QED BY <2>1, DividedIsClosest
<1> QED BY <1>2, <1>3

LEMMA InterpretationsDoAgree ==
  ASSUME Calculating PROVE InterpretationsAgree
<1> SUFFICES ASSUME NEW n \in DOMAIN calculators, NEW q \in 1..MaxItems,
                    \A i \in 1..q : ToTotal(calculators[n], At(i)) # Failed
             PROVE  LET c == calculators[n]
                        total == ToTotal(c, At(q))
                        excess == ToUnit(c, At(q)) * q - total
                    IN /\ AddedUp([i \in 1..q |-> ToMarginal(c, At(i))]) = total
                       /\ -q <= 2 * excess /\ 2 * excess <= q
  BY DEF InterpretationsAgree
<1>1. q \in Nat \ {0}
  BY CalculatorsAssumption
<1>2. /\ ToTotal(calculators[n], At(q)) \in Int
      /\ AddedUp([i \in 1..q |-> ToMarginal(calculators[n], At(i))])
            = ToTotal(calculators[n], At(q))
  BY <1>1, ItemsAddUp
<1> QED BY <1>1, <1>2, AverageIsClosest

\* Whoever asks for a price gets one, in total, item by item and on the average, whatever
\* calculators are added and however they choose others by range, over midnight too
\* (InterpretationAdapters.ts, CalculatorRange.ts).
THEOREM PricesStayUnambiguous == CalcSpec => []PricesAreUnambiguous
<1>1. CalcInit => Calculating
  BY CalculatingStart
<1>2. Calculating /\ [CalcNext]_calculators => Calculating'
  BY CalculatingStep
<1>3. Calculating => PricesAreUnambiguous
  BY RangesAreSeparate, InterpretationsDoAgree DEF PricesAreUnambiguous
<1> QED BY <1>1, <1>2, <1>3, PTL DEF CalcSpec
=============================================================================
