------------------------------ MODULE MCGraphs ------------------------------
(***************************************************************************)
(* The packages of graphs/, which share nothing, in one run; a behaviour   *)
(* is about one of them.                                                   *)
(***************************************************************************)
EXTENDS SlotSwaps, InfluenceZones, Journeys, Scheduling

\* Slot swaps: a ring of three requests and a way back, where the third slot has
\* an owner of its own, the owner of the first, is free, or was never saved.
CONSTANTS s1, s2, s3, x, y, z

Move(from, to, user) == [from |-> from, to |-> to, user |-> user]

MCRequests ==
  {Move(s1, s2, x), Move(s2, s3, y), Move(s3, s1, z), Move(s2, s1, y)}
MCHoldings ==
  {s1 :> x @@ s2 :> y @@ s3 :> o : o \in {x, z, Nobody}} \cup {s1 :> x @@ s2 :> y}
MCTransfers == {<<x, y>>, <<y, z>>, <<z, x>>, <<y, x>>}

\* Journeys: the weights of late payment and restructuring by cost and by time.
CONSTANTS late, restructured
MCStates == {{}, {"PENALTY"}, {"LOAN", "DISCOUNT"}}
MCWeights == {late :> 3 @@ restructured :> 1, late :> 0 @@ restructured :> 1}

\* Influence: enough edges for chains, rings and stars of the four units.
MCInfluencing == {<<"p", "q">>, <<"p", "p">>}
MCAdjacencies == {<<"l", "m">>}
MCConstraints == {<< <<"p", "l">>, <<"p", "m">> >>, << <<"p", "m">>, <<"q", "l">> >>,
                  << <<"q", "l">>, <<"q", "m">> >>, << <<"q", "m">>, <<"p", "m">> >>}

\* Scheduling: one step was made twice.
MCStepObjects == [name : {"measure", "analyse"}, copy : {1}] \cup [name : {"dry"}, copy : 1 .. 2]

NoSwaps == owner = <<>> /\ eligible = {} /\ requests = <<>> /\ result = NoResult
NoInfluence == IInit
NoJourney == known = <<>> /\ transitions = <<>> /\ current = {}
NoSchedule == GInit

\* Bounds: transfers are marked before requests are collected; of three reservations
\* or more, no two are of the same unit; the states of a journey are known by their
\* transitions, but for the first.
MCInit ==
  \/ SInit /\ NoInfluence /\ adjacency = {} /\ NoJourney /\ NoSchedule
  \/ NoSwaps /\ IInit /\ NoJourney /\ NoSchedule
  \/ NoSwaps /\ NoInfluence /\ adjacency = {} /\ JInit /\ current = {} /\ NoSchedule
MCNext ==
  \/ /\ SNext /\ owner # <<>> /\ UNCHANGED <<ivars, jvars, gvars>>
     /\ eligible' # eligible => requests = <<>>
  \/ /\ INext /\ NoSwaps /\ NoJourney /\ NoSchedule /\ UNCHANGED <<svars, jvars, gvars>>
     /\ Len(reservations') > 2 => IsInjective(reservations')
  \/ /\ JNext /\ NoSwaps /\ NoInfluence /\ NoSchedule /\ UNCHANGED <<svars, ivars, gvars>>
     /\ Len(known') > Len(known) => known = <<>> \/ transitions' # transitions
  \/ /\ NoSwaps /\ NoInfluence /\ NoJourney /\ UNCHANGED <<svars, ivars, jvars>>
     /\ \/ ProcessNext /\ apart = <<>>
        \/ ConcurrencyNext /\ steps = <<>>
MCSpec == MCInit /\ [][MCNext]_<<svars, ivars, jvars, gvars>>
=============================================================================
