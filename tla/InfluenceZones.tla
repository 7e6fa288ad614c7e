---------------------------- MODULE InfluenceZones ----------------------------
(***************************************************************************)
(* graphs/influence: which reservations of laboratories influence one      *)
(* another.  An influence map is built from influences between processes,  *)
(* spread over all pairs of laboratories or over the adjacent ones, and    *)
(* from constraints of the infrastructure.  The map is a directed graph    *)
(* kept by keys, here the set of its edges.  The reservations that         *)
(* influence each other either way form an undirected graph whose          *)
(* components are the zones and whose cut vertices are the critical ones.  *)
(***************************************************************************)
EXTENDS Naturals, FiniteSets, SequencesExt, TLC

CONSTANTS
  Processes, Laboratories,
  Influencing,     \* pairs of processes callers may add
  Adjacencies,     \* pairs of laboratories callers may add
  Constraints,     \* pairs of units callers may add
  NoAdjacency,     \* a builder that was given laboratories, not an adjacency
  NoParent,        \* what the root of a depth-first search has for a parent
  MaxEdges,        \* bound on the edges of the three graphs together
  MaxReservations  \* bound on the reservations analysed

Units == Processes \X Laboratories

ASSUME InfluenceZonesAssumption ==
  /\ Influencing \subseteq Processes \X Processes
  /\ Adjacencies \subseteq Laboratories \X Laboratories
  /\ Constraints \subseteq Units \X Units

VARIABLES
  physics,        \* edges between processes
  adjacency,      \* edges between laboratories, or NoAdjacency
  infrastructure, \* edges between units
  reservations    \* the reservations, in the order they were put in the set

ivars == <<physics, adjacency, infrastructure, reservations>>

IInit ==
  /\ physics = {} /\ infrastructure = {} /\ reservations = <<>>
  /\ adjacency \in {NoAdjacency, {}}

-----------------------------------------------------------------------------
(* Building *)

Room ==
  Cardinality(physics) + Cardinality(infrastructure)
    + (IF adjacency = NoAdjacency THEN 0 ELSE Cardinality(adjacency)) < MaxEdges

AddInfluence(e) ==
  /\ Room /\ physics' = physics \cup {e}
  /\ UNCHANGED <<adjacency, infrastructure, reservations>>
Adjacent(e) ==
  /\ Room /\ adjacency # NoAdjacency
  /\ adjacency' = adjacency \cup {e}
  /\ UNCHANGED <<physics, infrastructure, reservations>>
AddConstraint(e) ==
  /\ Room /\ infrastructure' = infrastructure \cup {e}
  /\ UNCHANGED <<physics, adjacency, reservations>>
\* The set holds objects: one unit may be reserved twice.
Reserve(u) ==
  /\ Len(reservations) < MaxReservations
  /\ reservations' = Append(reservations, u)
  /\ UNCHANGED <<physics, adjacency, infrastructure>>

\* InfluenceMap.of: cartesianOf or adjacencyOf, then addInfrastructure.
Spread(pairs) == {<< <<e[1], a[1]>>, <<e[2], a[2]>> >> : e \in physics, a \in pairs}
InfluenceMap ==
  Spread(IF adjacency = NoAdjacency THEN Laboratories \X Laboratories ELSE adjacency)
    \cup infrastructure
Influences(u, v) == <<u, v>> \in InfluenceMap

-----------------------------------------------------------------------------
(* SimpleGraph: vertices and edges by key, each in the order of insertion.  *)

AddOnce(seq, x) == IF x \in ToSet(seq) THEN seq ELSE Append(seq, x)
Vertices == FoldLeft(AddOnce, <<>>, reservations)

\* buildInfluenceGraph looks at every ordered pair; an edge goes both ways.
Edges ==
  LET map == InfluenceMap
      From(u) == SelectSeq(Vertices, LAMBDA v : u # v /\ <<u, v>> \in map)
      pairs == FlattenSeq([i \in DOMAIN Vertices |->
                 LET tos == From(Vertices[i])
                 IN [k \in DOMAIN tos |-> {Vertices[i], tos[k]}]])
  IN FoldLeft(AddOnce, <<>>, pairs)

\* getNeighborKeys
Neighbours(edges, u) ==
  LET mine == SelectSeq(edges, LAMBDA e : u \in e)
  IN [k \in DOMAIN mine |-> CHOOSE v \in mine[k] : v # u]

\* bfs
RECURSIVE Reached(_, _, _)
Reached(edges, queue, visited) ==
  IF queue = <<>> THEN visited
  ELSE LET new == SelectSeq(Neighbours(edges, Head(queue)), LAMBDA v : v \notin visited)
       IN Reached(edges, Tail(queue) \o new, visited \cup ToSet(new))

\* connectedSets and connectedSetOf; a vertex that is not there is in no zone.
Zones(edges) ==
  FoldLeft(LAMBDA zones, u : IF u \in UNION zones THEN zones
                             ELSE zones \cup {Reached(edges, <<u>>, {u})},
           {}, Vertices)
ZoneOf(edges, u) == Reached(edges, <<u>>, {u}) \intersect ToSet(Vertices)
NegotiateWith(edges, u) == IF u \in ZoneOf(edges, u) THEN ZoneOf(edges, u) \ {u} ELSE {}

\* countConflicts asks for the influence of the new one on the others only.
CountConflicts(u, existing) == Cardinality({v \in existing : Influences(u, v)})

\* findArticulationPoints: "found" holds the discovery times and low links so far
\* and the cut vertices; a child v of u cuts u off from what is below it.
Cuts_OneAbove(found, u, v) == found.low[v] + 1 >= found.disc[u]
Cuts(found, u, v) == found.low[v] >= found.disc[u]

Lower(found, u, n) == IF n < found.low[u] THEN [found EXCEPT !.low[u] = n] ELSE found

RECURSIVE Visit(_, _, _, _)
Visit(edges, u, parent, found) ==
  LET time == Cardinality(DOMAIN found.disc)
      entered == [found EXCEPT !.disc = @ @@ (u :> time), !.low = @ @@ (u :> time)]
      Below(acc, v) ==
        IF v \notin DOMAIN acc.found.disc
        THEN LET back == Visit(edges, v, u, acc.found)
                 next == Lower(back, u, back.low[v])
                 cut  == IF parent = NoParent THEN acc.children > 0 ELSE Cuts(next, u, v)
             IN [children |-> acc.children + 1,
                 found |-> IF cut THEN [next EXCEPT !.cuts = @ \cup {u}] ELSE next]
        ELSE IF v # parent
        THEN [acc EXCEPT !.found = Lower(@, u, acc.found.disc[v])]
        ELSE acc
  IN FoldLeft(Below, [children |-> 0, found |-> entered], Neighbours(edges, u)).found

CriticalReservations(edges) ==
  FoldLeft(LAMBDA found, u : IF u \in DOMAIN found.disc THEN found
                             ELSE Visit(edges, u, NoParent, found),
           [disc |-> <<>>, low |-> <<>>, cuts |-> {}], Vertices).cuts

INext ==
  \/ \E e \in Influencing : AddInfluence(e)
  \/ \E e \in Adjacencies : Adjacent(e)
  \/ \E e \in Constraints : AddConstraint(e)
  \/ \E u \in Units : Reserve(u)

-----------------------------------------------------------------------------

\* Reference definition: some set of reservations with u and without v influences
\* none of the others and is influenced by none.
Apart(S, u, v) ==
  \E A \in SUBSET S : /\ u \in A /\ v \notin A
                      /\ \A a \in A, b \in S \ A : ~Influences(a, b) /\ ~Influences(b, a)

\* Two reservations are in one zone just when influence, in any direction, joins
\* them, whichever order they were put in; a zone found for one reservation is one
\* of all zones; a reservation is critical just when its zone falls apart without
\* it; and whoever conflicts with a reservation is in its zone
\* (InfluenceAnalyzer, SimpleGraph.connectedSets, findArticulationPoints).
ZonesAreSeparate ==
  LET S == ToSet(reservations)
      edges == Edges
      zones == Zones(edges)
      critical == CriticalReservations(edges)
  IN /\ \A u, v \in S : (\E z \in zones : {u, v} \subseteq z) <=> ~Apart(S, u, v)
     /\ \A u \in S : /\ ZoneOf(edges, u) \in zones
                     /\ CountConflicts(u, S \ {u}) <= Cardinality(NegotiateWith(edges, u))
     /\ \A c \in S : c \in critical <=>
          \E u, v \in S \ {c} : Apart(S \ {c}, u, v) /\ ~Apart(S, u, v)
=============================================================================
