----------------------------- MODULE PlanDeltas -----------------------------
(***************************************************************************)
(* How a plan is compared with what really happened.  Both analyses of     *)
(* src/planvsexecution walk the plan in order and take, for each planned   *)
(* item, the first group of the items still left that the tolerance        *)
(* accepts; they differ in the groups they try.  Items are named by their  *)
(* position: the calculators tell them apart by object identity, and keep  *)
(* those that are left in their order.                                     *)
(***************************************************************************)
EXTENDS Integers, SequencesExt, Listing

Positions(s) == [k \in 1..Len(s) |-> k]
At(s, positions) == [k \in 1..Len(positions) |-> s[positions[k]]]

\* The groups findBestMatch tries are runs of neighbours, by length and start.  Of
\* those that fit it takes the shortest, the earliest among them; <<>> when none fits.
Runs(s, longest) == { r \in (1..longest) \X (1..Len(s)) : r[1] + r[2] <= Len(s) + 1 }
Run(s, r) == SubSeq(s, r[2], r[2] + r[1] - 1)
FirstRun(s, fitting) ==
  IF fitting = {} THEN <<>>
  ELSE Run(s, CHOOSE r \in fitting : \A o \in fitting :
                r[1] < o[1] \/ (r[1] = o[1] /\ r[2] <= o[2]))

\* The delta of a plan: the planned items with the group each one took, those
\* that found none, and the actual items nobody took.
Taken_FirstOnly(left, group) == left \ {group[1]}
Taken(left, group) == left \ ToSet(group)

NothingMatched(planned, actual) ==
  [planned |-> planned, actual |-> actual,
   matched |-> <<>>, missed |-> <<>>, left |-> DOMAIN actual]

\* calculate gives the planned items their best matches in turn.
Assigned(d, i, group) ==
  IF group = <<>> THEN [d EXCEPT !.missed = Append(@, i)]
  ELSE [d EXCEPT !.matched = Append(@, [planned |-> i, actual |-> group]),
                 !.left = Taken(@, group)]

\* Every planned item is matched or missed, and every actual item is in one
\* group or left over.
PartitionsItsItems(d) ==
  LET uses(k) == Cardinality({ m \in DOMAIN d.matched :
                                 Contains(d.matched[m].actual, k) })
                   + (IF k \in d.left THEN 1 ELSE 0)
      places(i) == Cardinality({ m \in DOMAIN d.matched : d.matched[m].planned = i })
                     + (IF Contains(d.missed, i) THEN 1 ELSE 0)
  IN /\ \A k \in DOMAIN d.actual : uses(k) = 1
     /\ \A i \in DOMAIN d.planned : places(i) = 1
=============================================================================
