------------------------------ MODULE MCStore ------------------------------
(* Instances of Store for TLC. *)
EXTENDS Store, TLC

CONSTANTS k1, k2, v1, h1, h2

TwoKeys == {k1, k2}
OneVal == {v1}
TwoHolders == {h1, h2}

Symmetry == Permutations(Keys) \cup Permutations(Vals) \cup Permutations(Holders)
=============================================================================
