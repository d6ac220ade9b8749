---------------------------- MODULE MCRegistry ----------------------------
(* Instances of Registry for TLC. *)
EXTENDS Registry, TLC

CONSTANTS i1, i2, u1, u2, e1, e2, e3, c1, c2, c3

OneId == {i1}
TwoIds == {i1, i2}
OneUser == {u1}
TwoUsers == {u1, u2}
TwoEngines == {e1, e2}
ThreeEngines == {e1, e2, e3}
TwoCores == {c1, c2}
ThreeCores == {c1, c2, c3}

Symmetry ==
    Permutations(Ids) \cup Permutations(Users) \cup Permutations(Engines)
        \cup Permutations(Cores)
===========================================================================
