------------------------------- MODULE Listing -------------------------------
(* Finite sets listed one element after the other, and sequences of distinct elements. *)
EXTENDS Naturals, FiniteSets, Sequences

\* The finite set S as a sequence in the strict order R
ListedBy(S, R) ==
  [k \in 1..Cardinality(S) |->
     CHOOSE x \in S : Cardinality({y \in S : <<y, x>> \in R}) = k - 1]

\* A finite set of numbers, the smallest first
Ascending(S) == ListedBy(S, {pair \in S \X S : pair[1] < pair[2]})

\* A new element comes last
Including(seq, x) == IF \E k \in DOMAIN seq : seq[k] = x THEN seq ELSE Append(seq, x)

\* The elements of a sequence at some of its places, in order
AtPlaces(seq, P) == LET places == Ascending(P) IN [k \in DOMAIN places |-> seq[places[k]]]
=============================================================================
