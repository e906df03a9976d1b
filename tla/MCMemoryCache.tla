--------------------------- MODULE MCMemoryCache ---------------------------
(* Values of MemoryCache's constants for TLC, and its symmetry.            *)
EXTENDS CachePromise, TLC

CONSTANTS c1, c2, c3, k1, k2

ThreeCalls == {c1, c2, c3}
TwoKeys    == {k1, k2}
AnyTTL     == {0, 1}
TwoSizes   == {1, 2}

CallSymmetry == Permutations(Calls) \cup Permutations(Keys)
=============================================================================
