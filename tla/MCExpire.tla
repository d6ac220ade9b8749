------------------------------ MODULE MCExpire ------------------------------
(* Instances of Expire for TLC. *)
EXTENDS Expire

CONSTANTS k1, k2, t1, t2

TwoKeys == {k1, k2}

\* A value of less than four bytes, and one that ends in a word of its own.
TwoVals == {<<1>>, <<0, 1>>}
TwoInputs == {<<k1, <<0, 1>>>>, <<k2, <<1>>>>}
=============================================================================
