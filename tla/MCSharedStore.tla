--------------------------- MODULE MCSharedStore ---------------------------
(* Instances of SharedStore for TLC: two processes and two keys. *)
EXTENDS SharedStore, TLC

CONSTANTS p1, p2, k1, k2, v1, h1, h2

TwoProcs == {p1, p2}
TwoKeys == {k1, k2}
OneVal == {v1}
OneHolder == {h1}
TwoHolders == {h1, h2}

Symmetry ==
    Permutations(Procs) \cup Permutations(Keys) \cup Permutations(Vals) \cup Permutations(Holders)
=============================================================================
