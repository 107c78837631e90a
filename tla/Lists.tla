--------------------------------- MODULE Lists ---------------------------------
(***************************************************************************)
(* Some elements of a sequence, in their order.  SelectSeq of Sequences    *)
(* takes an operator for its test, which the provers cannot reason about;  *)
(* here the elements are given by a set of places, or as those of a set.   *)
(***************************************************************************)
EXTENDS Naturals, Sequences, FiniteSets

\* The number of a place among those of P.
Rank(P, i) == Cardinality({j \in P : j <= i})

AtPlaces(s, P) == [n \in 1..Cardinality(P) |-> s[CHOOSE i \in P : Rank(P, i) = n]]

Among(s, S) == AtPlaces(s, {i \in DOMAIN s : s[i] \in S})
=============================================================================
