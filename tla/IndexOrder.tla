----------------------------- MODULE IndexOrder -----------------------------
(* The tools walk a list from its front and keep or skip each element. What    *)
(* they keep is told by its positions, and InOrder lists these as the walk      *)
(* meets them.                                                                 *)
EXTENDS Integers, FiniteSets

Before(S, i) == {j \in S : j < i}
InOrder(S) == [k \in 1 .. Cardinality(S) |-> CHOOSE i \in S : Cardinality(Before(S, i)) = k - 1]

(* The elements of a list at some of its positions, in their order.          *)
Picked(list, S) ==
    LET order == InOrder(S)
    IN  [k \in DOMAIN order |-> list[order[k]]]
=============================================================================
