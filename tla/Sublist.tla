------------------------------- MODULE Sublist -------------------------------
(* What JavaScript's Array.filter and Map.delete leave of a list: the entries *)
(* at the positions that are kept, in their order.                            *)
EXTENDS Naturals, Sequences, FiniteSets

(* The n-th position of a set of positions. *)
Nth(kept, n) == CHOOSE k \in kept : Cardinality({j \in kept : j <= k}) = n

Sublist(list, kept) == [n \in 1..Cardinality(kept) |-> list[Nth(kept, n)]]
=============================================================================
