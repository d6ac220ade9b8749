---------------------------- MODULE MCFileLock ----------------------------
(* Instances of FileLock for TLC: two and three processes. *)
EXTENDS FileLock, TLC

CONSTANTS p1, p2, p3

TwoProcs == {p1, p2}
ThreeProcs == {p1, p2, p3}

Symmetry == Permutations(Procs)
===========================================================================
