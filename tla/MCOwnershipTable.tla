------------------------- MODULE MCOwnershipTable -------------------------
(* Instances of OwnershipTable for TLC: pointers that collide at the last   *)
(* slot, so that probing wraps, and more pointers than slots.               *)
EXTENDS OwnershipTable, TLC

CONSTANTS p1, p2, p3, p4

MCPointer == {p1, p2, p3, p4}
MCHash == (p1 :> 2) @@ (p2 :> 2) @@ (p3 :> 0) @@ (p4 :> 1)

(* The two pointers that hash to the same slot can be exchanged.            *)
Symmetry == Permutations({p1, p2})
=============================================================================
