------------------------------- MODULE Journeys -------------------------------
(***************************************************************************)
(* graphs/userjourney: states of a customer, joined by conditions, and the *)
(* ways that lead to a state with a product.  A state is the set of its    *)
(* product types.                                                          *)
(***************************************************************************)
EXTENDS Integers, FiniteSets, SequencesExt, Listing

CONSTANTS
  JourneyStates,  \* sets of product types
  Products,       \* product types
  Conditions,     \* of different types or attributes
  Weights,        \* the weight functions callers use: cost, time, ...
  NoWay,
  MaxTransitions  \* bound on the transitions added

ASSUME JourneysAssumption ==
  /\ JourneyStates \subseteq SUBSET Products
  /\ Weights \subseteq [Conditions -> Nat]
  /\ NoWay \notin Seq(Conditions)

VARIABLES
  known,        \* vertices of the graph, in order of insertion
  transitions,  \* edges [from, on, to], in order of insertion
  current       \* the current state of the journey

jvars == <<known, transitions, current>>

JInit == known = <<>> /\ transitions = <<>> /\ current \in JourneyStates

\* from(s) adds the state; on(c).goto_(t) adds the transition.
From(s) ==
  /\ known' = Including(known, s)
  /\ UNCHANGED <<transitions, current>>
GoTo(s, c, t) ==
  /\ Len(transitions) < MaxTransitions
  /\ known' = Including(Including(known, s), t)
  /\ transitions' = Append(transitions, [from |-> s, on |-> c, to |-> t])
  /\ UNCHANGED current

\* onFulfilled: the first transition of the state for the condition, if any.
After(s, c) ==
  LET taken == AtPlaces(transitions, {i \in DOMAIN transitions :
                 transitions[i].from = s /\ transitions[i].on = c})
  IN IF taken = <<>> THEN s ELSE taken[1].to
OnFulfilled(c) ==
  /\ current' = After(current, c)
  /\ UNCHANGED <<known, transitions>>

\* A call of the search in getAllPaths: the state it came to and those it met.
Visits == [state : JourneyStates, visited : SUBSET JourneyStates]

\* What it finds over the transitions to states not met yet, one after the other.
Onward(ways, visit) ==
  FoldLeft(LAMBDA found, e :
             IF e.from # visit.state \/ e.to \in visit.visited THEN found
             ELSE LET on == ways[[state |-> e.to, visited |-> visit.visited \cup {e.to}]]
                  IN found \o [k \in DOMAIN on |-> <<e.on>> \o on[k]],
           <<>>, transitions)
WaysOn(target, ways) ==
  [visit \in Visits |->
     IF visit.state = target THEN << <<>> >> ELSE Onward(ways, visit)]

\* getAllPaths: the conditions along every simple path to the target, depth first.
\* Every call meets a state of the graph, so it is no deeper than these are many.
AllPaths(target) ==
  LET ways[left \in 0 .. Len(known)] ==
        WaysOn(target, IF left = 0 THEN [visit \in Visits |-> <<>>] ELSE ways[left - 1])
  IN ways[Len(known)][[state |-> current, visited |-> {current}]]

WaysToAchieve(product) ==
  FoldLeft(LAMBDA ways, s : IF product \in s THEN ways \o AllPaths(s) ELSE ways,
           <<>>, known)

PathWeight(path, weight) == FoldLeft(LAMBDA sum, c : sum + weight[c], 0, path)

\* The first of the ways of least weight.
OptimizedWay_BestWeightNotSet(product, weight) ==
  FoldLeft(LAMBDA best, way : way, NoWay, WaysToAchieve(product))
OptimizedWay(product, weight) ==
  FoldLeft(LAMBDA best, way :
             IF best = NoWay \/ PathWeight(way, weight) < PathWeight(best, weight)
             THEN way ELSE best,
           NoWay, WaysToAchieve(product))

JNext ==
  \/ \E s \in JourneyStates : From(s)
  \/ \E s, t \in JourneyStates, c \in Conditions : GoTo(s, c, t)
  \/ \E c \in Conditions : OnFulfilled(c)

JSpec == JInit /\ [][JNext]_jvars

-----------------------------------------------------------------------------

\* Reference definition: transitions that follow one another from the current state,
\* as many as the graph has states at most, whichever states they meet.
Walks ==
  {walk \in UNION {[1 .. n -> ToSet(transitions)] : n \in 0 .. Len(known)} :
     /\ walk # <<>> => walk[1].from = current
     /\ \A i \in 1 .. Len(walk) - 1 : walk[i].to = walk[i + 1].from}
Arrives(walk) == IF walk = <<>> THEN current ELSE walk[Len(walk)].to
ConditionsOf(walk) == [i \in DOMAIN walk |-> walk[i].on]

OneWayOn == \A e, f \in ToSet(transitions) : e.from = f.from /\ e.on = f.on => e.to = f.to

\* A way is offered just when some known state with the product can be reached,
\* and leads to one; no way at all is lighter, also none that meets a state twice;
\* and a customer who fulfils its conditions one after the other gets there, unless
\* a condition leads from one state to two (UserJourney.optimizedWayToAchieve,
\* onFulfilled).
WaysLead ==
  \A product \in Products, weight \in Weights :
    LET way == OptimizedWay(product, weight)
        leading == {walk \in Walks : Arrives(walk) \in ToSet(known) /\ product \in Arrives(walk)}
    IN /\ \A walk \in leading :
            /\ way # NoWay
            /\ PathWeight(way, weight) <= PathWeight(ConditionsOf(walk), weight)
       /\ way # NoWay =>
            /\ \E walk \in leading : ConditionsOf(walk) = way
            /\ OneWayOn => product \in FoldLeft(After, current, way)
=============================================================================
