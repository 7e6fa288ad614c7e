------------------------------- MODULE SlotSwaps -------------------------------
(***************************************************************************)
(* graphs/cycles: owners of slots ask to move to other slots, and a batch  *)
(* carries out the first cycle of requests found, in the graph of slots    *)
(* or, with an eligibility graph, in the graph of their owners.  A client  *)
(* collects requests and submits the list; what is not carried out stays   *)
(* in the list.  Ids are objects: a slot named by two equal ids is loaded  *)
(* twice (copies = "byObject"), named by the same object once.             *)
(***************************************************************************)
EXTENDS Integers, FiniteSets, SequencesExt, Listing

CONSTANTS
  Slots, Owners,
  Nobody,      \* OwnerId.empty(), the owner of a free slot
  Requests,    \* the [from, to, user] that clients may ask for
  Transfers,   \* the pairs of owners an eligibility may be about
  Holdings,    \* the slots and owners that were saved before the first request
  MaxRequests  \* bound on the list a client collects

ASSUME SlotSwapsAssumption ==
  /\ Nobody \notin Owners
  /\ Requests \subseteq [from : Slots, to : Slots, user : Owners]
  /\ Transfers \subseteq (Owners \cup {Nobody}) \X (Owners \cup {Nobody})
  /\ Holdings \subseteq UNION {[S -> Owners \cup {Nobody}] : S \in SUBSET Slots}
  /\ \A held \in Holdings : IsFiniteSet(DOMAIN held)
  /\ MaxRequests \in Nat

VARIABLES
  owner,     \* the repository: slots that were saved, with their owner
  eligible,  \* the edges of the eligibility graph
  requests,  \* the list of the client
  result     \* what the last call returned, if it was execute

svars == <<owner, eligible, requests, result>>

NoResult == [status |-> "FAILURE", executed |-> {}, by |-> "slots"]

SInit ==
  /\ owner \in Holdings
  /\ eligible = {}
  /\ requests = <<>>
  /\ result = NoResult

-----------------------------------------------------------------------------
(* A graph is the sequence of its edges in the order they were added, each  *)
(* with the request it stands for.                                          *)

\* Keys of the adjacency map, each by its first occurrence first.
NodesInOrder(edges) ==
  FoldLeft(LAMBDA nodes, e : Including(Including(nodes, e.from), e.to), <<>>, edges)

EdgesFrom(edges, n) == AtPlaces(edges, {k \in DOMAIN edges : edges[k].from = n})

\* The stretch of a path that starts at n; n is the first node of one edge.
FromNode_WholePath(path, n) == path
FromNode(path, n) ==
  SubSeq(path, CHOOSE i \in DOMAIN path : path[i].from = n, Len(path))

\* findCycleDFS: a depth-first search that stops at the first edge back to the
\* path that led to it.  A call is to a node, with that path and the nodes visited.
Calls(edges) ==
  LET nodes == ToSet(NodesInOrder(edges))
  IN [node : nodes, path : Seq(ToSet(edges)), visited : SUBSET nodes]

\* An edge that leaves the node of a call.
Tried(search, call, found, e) ==
  LET onPath == {d.from : d \in ToSet(call.path)} \cup {call.node} IN
  IF found.cycle # <<>> THEN found
  ELSE IF e.to = call.node THEN [found EXCEPT !.cycle = <<e>>]
  ELSE IF e.to \in onPath
       THEN [found EXCEPT !.cycle = Append(FromNode(call.path, e.to), e)]
  ELSE IF e.to \in found.visited THEN found
  ELSE search[[node |-> e.to, path |-> Append(call.path, e), visited |-> found.visited]]

Deeper(edges, search) ==
  [call \in Calls(edges) |->
     FoldLeft(LAMBDA found, e : Tried(search, call, found, e),
              [cycle |-> <<>>, visited |-> call.visited \cup {call.node}],
              EdgesFrom(edges, call.node))]

\* Every call visits a node: there is no deeper search than there are nodes.
Search(edges) ==
  LET depth == Len(NodesInOrder(edges))
      search[left \in 0 .. depth] ==
        IF left = 0 THEN [call \in Calls(edges) |-> [cycle |-> <<>>, visited |-> call.visited]]
        ELSE Deeper(edges, search[left - 1])
  IN search[depth]

FindFirstCycle(edges) ==
  FoldLeft(LAMBDA found, n :
             IF found.cycle # <<>> \/ n \in found.visited THEN found
             ELSE Search(edges)[[node |-> n, path |-> <<>>, visited |-> found.visited]],
           [cycle |-> <<>>, visited |-> {}], NodesInOrder(edges)).cycle

\* Eligibility: duplicates of an edge do not matter, as removeEdge takes all.
MarkTransferEligible(t) ==
  /\ t \notin eligible
  /\ eligible' = eligible \cup {t}
  /\ result' = NoResult
  /\ UNCHANGED <<owner, requests>>

MarkTransferIneligible(t) ==
  /\ t \in eligible
  /\ eligible' = eligible \ {t}
  /\ result' = NoResult
  /\ UNCHANGED <<owner, requests>>

\* Graph.intersection: the edges that the other graph has too, node by node.
Intersection(edges, pairs) ==
  FoldLeft(LAMBDA graph, n :
             graph \o AtPlaces(edges, {k \in DOMAIN edges :
                        edges[k].from = n /\ <<edges[k].from, edges[k].to>> \in pairs}),
           <<>>, NodesInOrder(edges))

BuildGraph(rs) ==
  [i \in DOMAIN rs |-> [from |-> rs[i].from, to |-> rs[i].to, request |-> rs[i]]]

\* Requests about slots that were never saved are left out.
BuildOwnerGraph(rs) ==
  LET known == AtPlaces(rs, {k \in DOMAIN rs : {rs[k].from, rs[k].to} \subseteq DOMAIN owner}) IN
  [i \in DOMAIN known |-> [from |-> owner[known[i].from], to |-> owner[known[i].to],
                           request |-> known[i]]]

\* findDependentRequests, findDependentRequestsInOwnerGraph
DependentRequests(by) ==
  LET cycle == IF by = "slots" THEN FindFirstCycle(BuildGraph(requests))
               ELSE FindFirstCycle(Intersection(BuildOwnerGraph(requests), eligible))
  IN {e.request : e \in ToSet(cycle)}

-----------------------------------------------------------------------------

\* release() every slot left, then assignTo() every slot entered; slots that
\* the repository does not have are skipped.
Reassigned_ReleaseLast(batch) ==
  [s \in DOMAIN owner |->
     IF \E r \in batch : r.from = s THEN Nobody
     ELSE IF \E r \in batch : r.to = s THEN (CHOOSE r \in batch : r.to = s).user
     ELSE owner[s]]
Reassigned(batch) ==
  [s \in DOMAIN owner |->
     IF \E r \in batch : r.to = s THEN (CHOOSE r \in batch : r.to = s).user
     ELSE IF \E r \in batch : r.from = s THEN Nobody
     ELSE owner[s]]

\* saveAll() of the loaded copies.  Only the first copy of a slot was changed;
\* where the slot was loaded twice, the untouched second copy is saved over it.
Saved(batch, copies) ==
  [s \in DOMAIN owner |->
     IF copies = "byObject" /\ Cardinality({r \in batch : r.from = s}) +
                               Cardinality({r \in batch : r.to = s}) > 1
     THEN owner[s] ELSE Reassigned(batch)[s]]

\* execute(): without an eligibility by slots, with one by owners.
Execute(by, copies) ==
  LET batch == DependentRequests(by) IN
  /\ owner' = Saved(batch, copies)
  /\ result' = IF batch = {} THEN NoResult
               ELSE [status |-> "SUCCESS", executed |-> batch, by |-> by]
  /\ requests' = AtPlaces(requests, {k \in DOMAIN requests : requests[k] \notin batch})
  /\ UNCHANGED eligible

\* The client adds a request to its list.
Ask(r) ==
  /\ Len(requests) < MaxRequests
  /\ requests' = Append(requests, r)
  /\ result' = NoResult
  /\ UNCHANGED <<owner, eligible>>

SNext ==
  \/ \E r \in Requests : Ask(r)
  \/ \E t \in Transfers : MarkTransferEligible(t) \/ MarkTransferIneligible(t)
  \/ \E copies \in {"byObject", "shared"} : Execute("slots", copies)
  \/ \E copies \in {"byObject", "shared"} : Execute("owners", copies)

SSpec == SInit /\ [][SNext]_svars

-----------------------------------------------------------------------------

\* Reference definition: from some nodes, edges lead on to one of them for ever.
HasCycle(edges) ==
  \E S \in (SUBSET {e.from : e \in ToSet(edges)}) \ {{}} :
    \A n \in S : \E e \in ToSet(edges) : e.from = n /\ e.to \in S

\* The edges follow one another back to the first, through different nodes.
IsCycle(path, edges) ==
  /\ ToSet(path) \subseteq ToSet(edges)
  /\ \A i \in DOMAIN path : path[i].to = path[IF i = Len(path) THEN 1 ELSE i + 1].from
  /\ \A i, j \in DOMAIN path : path[i].from = path[j].from => i = j

\* What the search finds is a cycle of the graph, and it finds one whenever there
\* is one, whatever the order of the requests and wherever the search starts
\* (Graph.findFirstCycle with its one path and visited set for all searches).
CyclesAreFound ==
  \A edges \in {BuildGraph(requests), Intersection(BuildOwnerGraph(requests), eligible)} :
    LET cycle == FindFirstCycle(edges) IN
    IF cycle = <<>> THEN ~HasCycle(edges) ELSE IsCycle(cycle, edges)

Swaps == Len(requests') < Len(requests)

SlotsOf(o) == {s \in DOMAIN owner : owner[s] = o}

\* Everybody who moves gives up a slot that is his, for one that exists; and where
\* the swap goes along owners, nobody has two slots: it leaves one of them and
\* enters another.
Exchange(batch, by) ==
  /\ \A r \in batch : {r.from, r.to} \subseteq DOMAIN owner /\ owner[r.from] = r.user
  /\ by = "slots" \/ \A o \in Owners : Cardinality(SlotsOf(o)) <= 1

\* A batch that is carried out gives every request its slot and leaves every owner
\* as many slots as before, or changes nothing at all.
AllOrNothing ==
  Exchange(result'.executed, result'.by)
  => \/ UNCHANGED owner
     \/ /\ \A r \in result'.executed : owner'[r.to] = r.user
        /\ \A o \in Owners : Cardinality(SlotsOf(o)) = Cardinality(SlotsOf(o)')

\* With an eligibility, no slot goes to somebody its owner may not give it to, as
\* long as those who move own what they leave.
OnlyEligible ==
  (result'.by = "owners" /\ \A r \in result'.executed : owner[r.from] = r.user)
  => \A s \in DOMAIN owner :
       owner'[s] \notin {owner[s], Nobody} => <<owner'[s], owner[s]>> \in eligible

\* Slots change hands in whole exchanges, between owners who may exchange them, or
\* not at all: execute releases all slots before it assigns any, and changes
\* nothing, a success included, when ids are not shared and the stale copies win.
SlotsAreExchanged == [][Swaps => AllOrNothing /\ OnlyEligible]_svars
=============================================================================
