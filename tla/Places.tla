-------------------------------- MODULE Places --------------------------------
(***************************************************************************)
(* The elements of a sequence at some of its places, in their order.       *)
(***************************************************************************)
EXTENDS Integers, FiniteSets

Rank(places, i) == Cardinality({j \in places : j <= i})
Only(s, places) == [k \in 1 .. Cardinality(places) |-> s[CHOOSE i \in places : Rank(places, i) = k]]
=============================================================================
