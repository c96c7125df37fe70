---------------------------- MODULE Subsequences ----------------------------
(***************************************************************************)
(* Array.prototype.filter and its like: what remains of a sequence, in its *)
(* order.  Written with the set of places that remain, each of which has a *)
(* rank, where SelectSeq is recursive and nothing can be proved of it.     *)
(***************************************************************************)
EXTENDS Naturals, Sequences, FiniteSets

Rank(places, i) == Cardinality({k \in places: k <= i})

\* The elements of q at places, in their order.
Kept(q, places) ==
    [n \in 1..Cardinality(places) |-> q[CHOOSE i \in places: Rank(places, i) = n]]

FirstOf(places) == CHOOSE i \in places: \A j \in places: i <= j
=============================================================================
