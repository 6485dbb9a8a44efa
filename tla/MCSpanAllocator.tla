-------------------------- MODULE MCSpanAllocator --------------------------
(* Instances of SpanAllocator for TLC.                                      *)
EXTENDS SpanAllocator, TLC

CONSTANTS a1, a2, t1, t2

TwoAddresses == {a1, a2}
TwoThreads == {t1, t2}

(* Both sides of the threshold, two spans, and one size that wraps.         *)
SomeSizes == {0, 1, 2, 4, 7}

Symmetry == Permutations(Address) \union Permutations(Thread)
=============================================================================
